------------------------------ MODULE FileData ------------------------------
(***************************************************************************)
(* What a regular file promises its readers, whatever stores it: a         *)
(* sequence of bytes.  A write of some bytes at a position overwrites      *)
(* them there and, past the end, extends the file with zeros up to the     *)
(* position; a truncate keeps a prefix or extends with zeros; a read       *)
(* returns the bytes from a position up to the end.  `got` is what the     *)
(* step's read returned, nothing for a step that is not a read.  The       *)
(* writer's bytes are all one value per call.                              *)
(***************************************************************************)
EXTENDS Integers, Sequences

CONSTANTS
  Size,    \* the largest size considered
  Vals     \* byte values, 0 included

VARIABLES data, got

Positions == 0 .. Size

\* The byte at offset i (from 0): what was last put there, zero in a hole.
ByteAt(d, i) == IF i < Len(d) THEN d[i + 1] ELSE 0

WriteBytes(pos, len, v) ==
  LET n == IF pos + len > Len(data) THEN pos + len ELSE Len(data)
  IN /\ len > 0
     /\ data' = [i \in 1 .. n |-> IF pos < i /\ i <= pos + len THEN v ELSE ByteAt(data, i - 1)]
     /\ got' = <<>>

Truncate(n) ==
  /\ data' = [i \in 1 .. n |-> ByteAt(data, i - 1)]
  /\ got' = <<>>

ReadBytes(pos, len) ==
  /\ got' = [i \in 1 .. IF pos >= Len(data) THEN 0
                        ELSE IF Len(data) - pos < len THEN Len(data) - pos ELSE len
               |-> data[pos + i]]
  /\ UNCHANGED data

\* A step that neither reads nor changes the file.
Other == got' = <<>> /\ UNCHANGED data

Init == data = <<>> /\ got = <<>>

Next ==
  \/ \E pos, len \in Positions :
        \/ \E v \in Vals : WriteBytes(pos, len, v)
        \/ Truncate(pos)
        \/ ReadBytes(pos, len)
  \/ Other

Spec == Init /\ [][Next]_<<data, got>>

=============================================================================
