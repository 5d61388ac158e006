-------------------------------- MODULE Pipe --------------------------------
(***************************************************************************)
(* PIPEFS of src/page/public/linux64/linux-analyzer.js: one pipe made by   *)
(* createPipe, its bucket list, the read and write stream operations and   *)
(* the reference count shared by every stream on either end (dup adds      *)
(* one, close removes one).                                                *)
(*                                                                         *)
(* BUCKET_BUFFER_SIZE is the constant BucketSize, small, so that writes    *)
(* and reads cross bucket boundaries with few bytes.  A bucket's buffer    *)
(* holds byte names: the i-th byte ever written is the number i, and 0 is  *)
(* the zero a fresh Uint8Array holds.                                      *)
(***************************************************************************)
EXTENDS Integers, Sequences, SequencesExt

CONSTANTS
  BucketSize,  \* PIPEFS.BUCKET_BUFFER_SIZE
  Lengths,     \* byte counts the guest passes to read and write
  MaxWritten,  \* bytes written over a run
  MaxRefs,     \* bound on the reference count, i.e. on dup
  EAGAIN,      \* the ErrnoError(6) a read of an empty pipe throws
  NoBuckets    \* pipe.buckets = null after the last close

ASSUME BucketSize \in Nat \ {0} /\ Lengths \subseteq Nat

Ends == {"r", "w"}
Idx == 0 .. BucketSize - 1
Bucket == [buf : [Idx -> 0 .. MaxWritten], offset : 0 .. BucketSize,
           roffset : 0 .. BucketSize]

VARIABLES
  buckets,  \* pipe.buckets
  refcnt,   \* pipe.refcnt
  ends,     \* streams open on the read end and on the write end
  written,  \* bytes written so far (names the next byte)
  readOut,  \* history: the bytes every read returned, in order
  ret       \* history: the result of the last read

vars == <<buckets, refcnt, ends, written, readOut, ret>>

TypeOK ==
  /\ buckets \in Seq(Bucket) \cup {NoBuckets}
  /\ refcnt \in 0 .. MaxRefs
  /\ ends \in [Ends -> 0 .. MaxRefs]
  /\ written \in 0 .. MaxWritten
  /\ readOut \in Seq(1 .. MaxWritten)
  /\ ret \in Nat \cup {EAGAIN}

(***************************************************************************)
(* Mutants: plausible slips in the operators that follow.                  *)
(***************************************************************************)

\* write forgetting to drop the bytes it put in the current bucket.
RestNotAdvanced(data, free) == data

\* read consuming a bucket partly without advancing its roffset.
RECURSIVE DrainNoAdvance(_, _, _, _)
DrainNoAdvance(bs, i, toRead, toRemove) ==
  LET b == bs[i]
      size == b.offset - b.roffset
      out == [j \in 1 .. size |-> b.buf[b.roffset + j - 1]]
  IN IF toRead <= size
     THEN [bs |-> bs, out |-> SubSeq(out, 1, toRead),
           toRemove |-> IF toRead < size THEN toRemove ELSE toRemove + 1]
     ELSE LET r == DrainNoAdvance(bs, i + 1, toRead - size, toRemove + 1)
          IN [r EXCEPT !.out = out \o @]

\* dup not taking a reference.
DupNoRef(n) == n

\* close freeing the buffers one reference early.
LastRefEarly(n) == n <= 1

(***************************************************************************)
(* The bucket list.                                                        *)
(***************************************************************************)

\* new Uint8Array(BUCKET_BUFFER_SIZE).
FreshBuf == [j \in Idx |-> 0]

\* buffer.set(d, at).
SetBytes(buf, at, d) ==
  [j \in Idx |-> IF at <= j /\ j < at + Len(d) THEN d[j - at + 1] ELSE buf[j]]

\* The unread bytes of a bucket: buffer.subarray(roffset, offset).
Unread(b) == [j \in 1 .. b.offset - b.roffset |-> b.buf[b.roffset + j - 1]]

\* The bytes queued in the pipe, oldest first.
PipeContents == FlattenSeq([i \in 1 .. Len(buckets) |-> Unread(buckets[i])])

\* data.subarray(free, data.byteLength).
Rest(data, free) == SubSeq(data, free + 1, Len(data))

\* The read loop: take whole buckets while more is wanted than a bucket
\* holds, then the wanted part of the next one, advancing its roffset if it
\* is not used up; toRemove counts the buckets used up.
RECURSIVE Drain(_, _, _, _)
Drain(bs, i, toRead, toRemove) ==
  LET b == bs[i]
      size == b.offset - b.roffset
  IN IF toRead <= size
     THEN IF toRead < size
          THEN [bs |-> [bs EXCEPT ![i].roffset = @ + toRead],
                out |-> SubSeq(Unread(b), 1, toRead), toRemove |-> toRemove]
          ELSE [bs |-> bs, out |-> Unread(b), toRemove |-> toRemove + 1]
     ELSE LET r == Drain(bs, i + 1, toRead - size, toRemove + 1)
          IN [r EXCEPT !.out = Unread(b) \o @]

\* stream_ops.dup.
DupRef(n) == n + 1

\* stream_ops.close: the reference dropped was the last one.
LastRef(n) == n = 0

(***************************************************************************)
(* Actions.                                                                *)
(***************************************************************************)

\* The state createPipe leaves: one empty bucket, a stream on each end, and
\* a reference count of two.
Init ==
  /\ buckets = <<[buf |-> FreshBuf, offset |-> 0, roffset |-> 0]>>
  /\ refcnt = 2
  /\ ends = [e \in Ends |-> 1]
  /\ written = 0
  /\ readOut = <<>>
  /\ ret = 0

\* stream_ops.write of len bytes: fill the last bucket (making one if there
\* is none), then append full buckets and one holding the remainder.  A
\* write of zero bytes returns 0 and changes nothing: a stuttering step.
Write(len) ==
  /\ ends["w"] > 0
  /\ written + len <= MaxWritten
  /\ len > 0
  /\ LET data == [i \in 1 .. len |-> written + i]
         cur  == IF buckets = <<>> THEN [buf |-> FreshBuf, offset |-> 0, roffset |-> 0]
                 ELSE Last(buckets)
         prev == IF buckets = <<>> THEN <<>> ELSE Front(buckets)
         free == BucketSize - cur.offset
         fill == IF free >= len THEN len ELSE free
         cur2 == [cur EXCEPT !.buf = SetBytes(@, cur.offset, SubSeq(data, 1, fill)),
                             !.offset = @ + fill]
         rest == Rest(data, fill)
         full == Len(rest) \div BucketSize
         rem  == Len(rest) % BucketSize
         fulls == [k \in 1 .. full |->
                    [buf |-> SetBytes(FreshBuf, 0,
                               SubSeq(rest, (k - 1) * BucketSize + 1, k * BucketSize)),
                     offset |-> BucketSize, roffset |-> 0]]
         tail == IF rem > 0
                 THEN <<[buf |-> SetBytes(FreshBuf, 0,
                                   SubSeq(rest, full * BucketSize + 1, Len(rest))),
                         offset |-> rem, roffset |-> 0]>>
                 ELSE <<>>
     IN buckets' = IF free >= len THEN Append(prev, cur2)
                   ELSE Append(prev, cur2) \o fulls \o tail
  /\ written' = written + len
  /\ UNCHANGED <<refcnt, ends, readOut, ret>>

\* stream_ops.read of len bytes.  An empty pipe throws EAGAIN ("behave as
\* if the read end is always non-blocking").  When every bucket is used up
\* the last one is kept and reset instead of removed.
Read(len) ==
  /\ ends["r"] > 0
  /\ LET current == Len(PipeContents)
     IN \/ /\ len <= 0
           /\ ret' = 0
           /\ UNCHANGED <<buckets, readOut>>
        \/ /\ len > 0
           /\ current = 0
           /\ ret' = EAGAIN
           /\ UNCHANGED <<buckets, readOut>>
        \/ /\ len > 0
           /\ current > 0
           /\ LET toRead == IF current < len THEN current ELSE len
                  r == Drain(buckets, 1, toRead, 0)
                  keepLast == r.toRemove > 0 /\ r.toRemove = Len(buckets)
                  k == IF keepLast THEN r.toRemove - 1 ELSE r.toRemove
                  bs == IF keepLast
                        THEN [r.bs EXCEPT ![r.toRemove].offset = 0,
                                          ![r.toRemove].roffset = 0]
                        ELSE r.bs
              IN /\ buckets' = SubSeq(bs, k + 1, Len(bs))
                 /\ readOut' = readOut \o r.out
                 /\ ret' = toRead
  /\ UNCHANGED <<refcnt, ends, written>>

\* FS.dupStream on a pipe stream (dup, fcntl F_DUPFD) calls stream_ops.dup.
Dup(e) ==
  /\ ends[e] > 0
  /\ refcnt < MaxRefs
  /\ refcnt' = DupRef(refcnt)
  /\ ends' = [ends EXCEPT ![e] = @ + 1]
  /\ UNCHANGED <<buckets, written, readOut, ret>>

\* FS.close on a pipe stream calls stream_ops.close, which drops a
\* reference and frees the buckets with the last one.
Close(e) ==
  /\ ends[e] > 0
  /\ refcnt' = refcnt - 1
  /\ buckets' = IF LastRef(refcnt - 1) THEN NoBuckets ELSE buckets
  /\ ends' = [ends EXCEPT ![e] = @ - 1]
  /\ UNCHANGED <<written, readOut, ret>>

Next ==
  \/ \E len \in Lengths : Write(len) \/ Read(len)
  \/ \E e \in Ends : Dup(e) \/ Close(e)

Spec == Init /\ [][Next]_vars

(***************************************************************************)
(* Properties.                                                             *)
(***************************************************************************)

\* No byte is lost, duplicated or reordered across bucket boundaries: what
\* the reads returned, followed by what the buckets still hold, is exactly
\* the bytes written, in order.
FIFOIntegrity ==
  buckets /= NoBuckets =>
    readOut \o PipeContents = [i \in 1 .. written |-> i]

\* The bucket list implements the abstract FIFO: each write appends its
\* bytes, each read returns the head of the queue and its length, and an
\* empty pipe reads as EAGAIN.
FIFO == INSTANCE PipeFIFO
          WITH q <- IF buckets = NoBuckets THEN <<>> ELSE PipeContents,
               open <- buckets /= NoBuckets
PipeImplementsFIFO == FIFO!Spec

\* While any stream on either end is open the buffers are still there:
\* close frees them only when no dup'ed stream remains.
OpenEndKeepsBuffer == ends["r"] + ends["w"] > 0 => buckets /= NoBuckets

\* A read taken when every stream on the write end has been closed returns
\* 0 bytes (end of file) once the buffer is drained, not the would-block
\* error stream_ops.read throws for an empty pipe.
EmptyReadAfterWritersCloseIsEOF ==
  [][\A len \in Lengths : Read(len) /\ ends["w"] = 0 => ret' /= EAGAIN]_vars

=============================================================================
