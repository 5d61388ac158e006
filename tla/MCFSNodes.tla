------------------------------ MODULE MCFSNodes ------------------------------
(***************************************************************************)
(* FSNodes for TLC.  The names are the mountpoint "root", "a" and "b";    *)
(* with "." and ".." they make the components of the paths the guest       *)
(* passes (one to three) and the paths the properties look up (up to two).*)
(* Three nodes beyond the initial ones allow a directory holding a symlink *)
(* beside another.  Two hash buckets make the chains share nodes.          *)
(***************************************************************************)
EXTENDS FSNodes

MCNames == {"root", "a", "b"}

\* hashName's string hash, (hash << 5) - hash + charCode, of each name.
MCNameHash == [c \in {"/", "root", "a", "b", ".", ".."} |->
                 CASE c = "/" -> 47 [] c = "root" -> 3506402 [] c = "a" -> 97 [] c = "b" -> 98
                   [] c = "." -> 46 [] c = ".." -> 1472]

MCSeqs(n) == UNION {[1 .. k -> MCNames \cup {".."}] : k \in n}

\* Names under the root and under the mount, one level down, and through
\* "..": enough for nesting, renames across and into directories, links in
\* the middle of a path, and the walk leaving the mount.
MCPathArgs == {<<"a">>, <<"b">>, <<"a", "b">>, <<"b", "a">>, <<"root", "a">>, <<"a", "..">>,
               <<"root", "..", "b">>}
\* Up to two components, with ".", which the walk only skips, in three.
MCLookupArgs == MCSeqs(0 .. 2) \cup {<<".">>, <<"a", ".">>, <<".", "b">>}

\* A link to /a (a loop when it is /a), a relative one to "..", and one to
\* the name a beside it.
MCTargetArgs == {[abs |-> TRUE, parts |-> <<"a">>], [abs |-> FALSE, parts |-> <<"..">>],
                 [abs |-> FALSE, parts |-> <<"a">>]}
=============================================================================
