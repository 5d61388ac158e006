------------------------------- MODULE PathOps -------------------------------
(***************************************************************************)
(* The path string helpers PATH and PATH_FS of                             *)
(* src/page/public/linux64/linux-analyzer.js.  A path string is kept as    *)
(* its components, the strings between slashes: split("/") followed by    *)
(* filter(p => !!p), which every helper does first, drops the empty ones.  *)
(* A path is a record of whether it is absolute and its components; a      *)
(* trailing slash, which only PATH.normalize and FS.open look at, is left  *)
(* out.  Names are strings; DotNames are the names that begin with "." and *)
(* are neither "." nor "..".                                               *)
(***************************************************************************)
EXTENDS Integers, Sequences, SequencesExt

CONSTANT DotNames

Abs(parts) == [abs |-> TRUE, parts |-> parts]

\* The components whose string begins with ".".
StartsWithDot(c) == c \in DotNames \cup {".", ".."}

(***************************************************************************)
(* Mutants: plausible slips in the operators that follow.                  *)
(***************************************************************************)

\* normalizeArray dropping a ".." without counting it in `up`.
NormalizeArrayNoUp(parts, allowAboveRoot) ==
  LET RECURSIVE Scan(_, _, _)
      Scan(i, up, out) ==
        IF i = 0 THEN [up |-> up, out |-> out]
        ELSE IF parts[i] \in {".", ".."} THEN Scan(i - 1, up, out)
        ELSE IF up > 0 THEN Scan(i - 1, up - 1, out)
        ELSE Scan(i - 1, up, <<parts[i]>> \o out)
      r == Scan(Len(parts), 0, <<>>)
  IN IF allowAboveRoot THEN [k \in 1 .. r.up |-> ".."] \o r.out ELSE r.out

(***************************************************************************)
(* PATH.                                                                   *)
(***************************************************************************)

\* PATH.normalizeArray: from the last component to the first, "." goes, ".."
\* goes and counts one up, and a name goes while an up is pending; the
\* leading ".."s that are left are put back when allowed above the root.
NormalizeArray(parts, allowAboveRoot) ==
  LET RECURSIVE Scan(_, _, _)
      Scan(i, up, out) ==
        IF i = 0 THEN [up |-> up, out |-> out]
        ELSE IF parts[i] = "." THEN Scan(i - 1, up, out)
        ELSE IF parts[i] = ".." THEN Scan(i - 1, up + 1, out)
        ELSE IF up > 0 THEN Scan(i - 1, up - 1, out)
        ELSE Scan(i - 1, up, <<parts[i]>> \o out)
      r == Scan(Len(parts), 0, <<>>)
  IN IF allowAboveRoot THEN [k \in 1 .. r.up |-> ".."] \o r.out ELSE r.out

\* PATH.normalize: a relative path may keep leading ".."s, and one that
\* normalizes to nothing is ".".
Normalize(p) ==
  LET n == NormalizeArray(p.parts, ~p.abs)
  IN IF n = <<>> /\ ~p.abs THEN [abs |-> FALSE, parts |-> <<".">>]
     ELSE [abs |-> p.abs, parts |-> n]

\* PATH.join2(l, r) of a normalized absolute path and one name.
Join2(parts, name) == Normalize(Abs(Append(parts, name))).parts

\* PATH.dirname and PATH.basename of an absolute path: splitPath's dir with
\* its slash stripped ("/" for a single name or none), and the last name,
\* "/" when there is none.
Dirname(parts) == IF parts = <<>> THEN <<>> ELSE Front(parts)
Basename(parts) == IF parts = <<>> THEN "/" ELSE Last(parts)

(***************************************************************************)
(* PATH_FS.                                                                *)
(***************************************************************************)

\* PATH_FS.resolve(path) with FS.cwd() "/" (nothing calls chdir): a
\* relative path is read after "/", so either way the components are
\* normalized without going above the root.  The empty string resolves to
\* "" (IsEmptyPath), which no caller below passes.
IsEmptyPath(p) == ~p.abs /\ p.parts = <<>>
Resolve(p) == NormalizeArray(p.parts, FALSE)

\* samePartsLength: the first index where the two differ, or the shorter
\* length.
SamePartsLength(f, t) ==
  LET length == IF Len(f) < Len(t) THEN Len(f) ELSE Len(t)
  IN CHOOSE i \in 0 .. length :
       /\ \A j \in 1 .. i : f[j] = t[j]
       /\ i = length \/ f[i + 1] /= t[i + 1]

\* Mutant: relative without the ".."s that climb out of `from`.
RelativeNoUp(from, to) ==
  LET f == Resolve(from)
      t == Resolve(to)
      k == SamePartsLength(f, t)
  IN SubSeq(t, k + 1, Len(t))

\* PATH_FS.relative(from, to): both resolved and the leading slash sliced
\* off (trim then has nothing to strip: start is always 0), a ".." for
\* each component of from past samePartsLength, then the rest of to.
Relative(from, to) ==
  LET f == Resolve(from)
      t == Resolve(to)
      k == SamePartsLength(f, t)
  IN [i \in 1 .. Len(f) - k |-> ".."] \o SubSeq(t, k + 1, Len(t))

\* relative.charAt(0) === "." : the joined string is "" for no components.
RelativeStartsWithDot(from, to) ==
  LET r == Relative(from, to) IN r /= <<>> /\ StartsWithDot(Head(r))

(***************************************************************************)
(* A reference for normalizeArray: the usual left-to-right stack, where    *)
(* ".." pops a name, or is kept (above the root, when allowed) or dropped. *)
(***************************************************************************)
RefNormalizeArray(parts, allowAboveRoot) ==
  LET Step(st, c) ==
        IF c = "." THEN st
        ELSE IF c = ".." THEN
          IF st /= <<>> /\ Last(st) /= ".." THEN Front(st)
          ELSE IF allowAboveRoot THEN Append(st, "..") ELSE st
        ELSE Append(st, c)
  IN FoldLeft(Step, <<>>, parts)

=============================================================================
