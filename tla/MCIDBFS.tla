------------------------------ MODULE MCIDBFS ------------------------------
(***************************************************************************)
(* IDBFS for TLC.  Two names (1 and 2) two levels deep give six paths:     *)
(* enough for a file beside a directory, a file inside it, renames across  *)
(* directories and a directory that is not empty.  The store the mount    *)
(* is populated from holds one file, /1.  Three file operations and two    *)
(* clock ticks let a change fall before, during and after a pass.          *)
(***************************************************************************)
EXTENDS IDBFS

MCPaths == {<<n>> : n \in {1, 2}} \cup {<<n, m>> : n, m \in {1, 2}}

MCInitStore ==
  [p \in MCPaths |-> IF p = <<1>> THEN [dir |-> FALSE, ts |-> 0, data |-> 1]
                     ELSE NoEntry]

\* For the rename check: a directory 1 holding a hidden directory 2 (its
\* name begins with "."), which may hold a 1; the store starts empty.
MCDotPaths == {<<1>>, <<1, 2>>, <<1, 2, 1>>}
MCEmptyStore == [p \in MCDotPaths |-> NoEntry]

MCMaxOps == 3
MCMaxTime == 2
MCWriteData == {TRUE, FALSE}
MCWriteFull == {TRUE}
=============================================================================
