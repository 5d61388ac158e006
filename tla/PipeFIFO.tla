------------------------------ MODULE PipeFIFO ------------------------------
(***************************************************************************)
(* What a pipe promises its two ends, whatever its buffer layout: the      *)
(* bytes written come out of the read end exactly once and in the order    *)
(* they were written; a read of n bytes returns the first min(n, queued)   *)
(* of them, and a read of a pipe holding nothing returns the would-block   *)
(* error.  When the last stream closes, whatever is queued is discarded.   *)
(* Bytes are named by their position in the written stream               *)
(* (1, 2, 3, ...), so loss, duplication and reordering are all visible.    *)
(***************************************************************************)
EXTENDS Integers, Sequences

CONSTANTS
  Lengths,     \* byte counts the guest passes to read and write
  MaxWritten,  \* bytes written over a run
  EAGAIN       \* the would-block result

VARIABLES
  q,        \* the bytes queued in the pipe
  written,  \* bytes written so far
  readOut,  \* every byte the read end has returned, in order
  ret,      \* result of the last read
  open      \* some stream on the pipe is still open

vars == <<q, written, readOut, ret, open>>

Init ==
  /\ q = <<>>
  /\ written = 0
  /\ readOut = <<>>
  /\ ret = 0
  /\ open = TRUE

\* write(len) appends the next len bytes.
Write(len) ==
  /\ open
  /\ written + len <= MaxWritten
  /\ q' = q \o [i \in 1 .. len |-> written + i]
  /\ written' = written + len
  /\ UNCHANGED <<readOut, ret, open>>

\* read(len) takes the head of the queue.
Read(len) ==
  LET n == IF Len(q) < len THEN Len(q) ELSE len
  IN /\ open
     /\ ret' = IF len > 0 /\ q = <<>> THEN EAGAIN ELSE n
     /\ q' = SubSeq(q, n + 1, Len(q))
     /\ readOut' = readOut \o SubSeq(q, 1, n)
     /\ UNCHANGED <<written, open>>

\* The last stream closes and the queue is dropped.
Discard ==
  /\ open
  /\ q' = <<>>
  /\ open' = FALSE
  /\ UNCHANGED <<written, readOut, ret>>

Next == (\E len \in Lengths : Write(len) \/ Read(len)) \/ Discard

Spec == Init /\ [][Next]_vars

=============================================================================
