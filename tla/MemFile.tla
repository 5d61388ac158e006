------------------------------- MODULE MemFile -------------------------------
(***************************************************************************)
(* The storage of one MEMFS regular file in                                *)
(* src/page/public/linux64/linux-analyzer.js: node.contents, a Uint8Array  *)
(* whose length is the capacity, and node.usedBytes, the file's size.      *)
(* expandFileStorage grows the array geometrically and resizeFileStorage   *)
(* makes it exactly the new size; MEMFS stream_ops read, write and llseek  *)
(* work on it.  The writes that reach it come from the guest's heap        *)
(* (buffer.buffer === HEAP8.buffer), so canOwn is always false.            *)
(*                                                                         *)
(* The array is a function from the byte offsets a model can reach to the  *)
(* byte there (0 where the array is shorter), with the capacity beside it; *)
(* a byte written by the k-th write call is k.  contents === null is       *)
(* capacity 0.                                                             *)
(***************************************************************************)
EXTENDS Integers, Sequences

CONSTANT MaxSize   \* byte offsets a model reaches: 0 .. MaxSize - 1

Offsets == 0 .. MaxSize - 1
Larger(a, b) == IF a >= b THEN a ELSE b
Smaller(a, b) == IF a <= b THEN a ELSE b

\* createNode's file: contents null, usedBytes 0.
EmptyFile == [contents |-> [i \in Offsets |-> 0], cap |-> 0, used |-> 0]

\* The bytes a read of the whole file returns.
FileBytes(node) == [i \in 1 .. node.used |-> node.contents[i - 1]]

\* contents.set(<<v, ..., v>>, pos) for len bytes.
SetRange(contents, pos, len, v) ==
  [i \in Offsets |-> IF pos <= i /\ i < pos + len THEN v ELSE contents[i]]

\* new Uint8Array(cap) holding the first n bytes of the old contents.
Realloc(node, cap, n) ==
  [node EXCEPT !.cap = cap, !.contents = [i \in Offsets |-> IF i < n THEN @[i] ELSE 0]]

(***************************************************************************)
(* Mutants: plausible slips in the operators that follow.                  *)
(***************************************************************************)

\* resizeFileStorage shrinking in place: only usedBytes moves.
ResizeInPlace(node, newSize) ==
  IF node.used = newSize THEN node
  ELSE IF newSize = 0 THEN EmptyFile
  ELSE IF newSize < node.used THEN [node EXCEPT !.used = newSize]
  ELSE [Realloc(node, newSize, node.used) EXCEPT !.used = newSize]

(***************************************************************************)
(* MEMFS.                                                                  *)
(***************************************************************************)

\* expandFileStorage: nothing when the array is long enough; otherwise at
\* least double it (below 1 MiB) and at least 256 bytes unless it was
\* null, keeping the first usedBytes.
ExpandFileStorage(node, newCapacity) ==
  LET prev == node.cap
      doubled == Larger(newCapacity, prev * 2)
  IN IF prev >= newCapacity THEN node
     ELSE Realloc(node, IF prev /= 0 THEN Larger(doubled, 256) ELSE doubled, node.used)

\* resizeFileStorage: nothing at the same size, null at 0, otherwise an
\* array of exactly newSize holding what fits of the old one.
ResizeFileStorage(node, newSize) ==
  IF node.used = newSize THEN node
  ELSE IF newSize = 0 THEN EmptyFile
  ELSE [Realloc(node, newSize, Smaller(newSize, node.used)) EXCEPT !.used = newSize]

\* stream_ops.read at position: nothing at or past the end, else up to
\* length bytes.
MemRead(node, position, length) ==
  IF position >= node.used THEN <<>>
  ELSE [i \in 1 .. Smaller(node.used - position, length) |-> node.contents[position + i - 1]]

\* stream_ops.write of length bytes v at position: nothing for no bytes; a
\* first write at 0 to an empty file takes a copy of exactly those bytes; a
\* write inside the used range is set in place; anything else expands the
\* storage to position + length, sets the bytes and extends usedBytes.
MemWrite(node, position, length, v) ==
  IF length = 0 THEN node
  ELSE IF node.used = 0 /\ position = 0
  THEN [contents |-> SetRange([i \in Offsets |-> 0], 0, length, v), cap |-> length,
        used |-> length]
  ELSE IF position + length <= node.used
  THEN [node EXCEPT !.contents = SetRange(@, position, length, v)]
  ELSE LET e == ExpandFileStorage(node, position + length)
       IN [e EXCEPT !.contents = SetRange(@, position, length, v),
                    !.used = Larger(node.used, position + length)]

\* stream_ops.llseek: SEEK_SET, SEEK_CUR from the stream's position,
\* SEEK_END from usedBytes; -1 stands for the EINVAL of a negative result.
MemLlseek(node, cur, offset, whence) ==
  LET position == offset + (CASE whence = 1 -> cur [] whence = 2 -> node.used [] OTHER -> 0)
  IN IF position < 0 THEN -1 ELSE position

=============================================================================
