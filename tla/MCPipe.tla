------------------------------- MODULE MCPipe -------------------------------
(***************************************************************************)
(* Model-checking instance of Pipe.  Buckets of two bytes and transfers of *)
(* up to three bytes make a write spill into a new full bucket and a       *)
(* remainder bucket, a read drain several buckets and stop inside one, and *)
(* a read use up every bucket so the last one is reset.  Six bytes in all *)
(* allow three such rounds.  Three references allow one dup.              *)
(***************************************************************************)
EXTENDS Pipe

MCBucketSize == 2
MCLengths == {0, 1, 2, 3}
MCMaxWritten == 6
MCMaxRefs == 3

====
