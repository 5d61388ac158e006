------------------------------ MODULE MCStreams ------------------------------
(***************************************************************************)
(* Model-checking instance of Streams.  MAX_OPEN_FDS is 3, so nextfd hands *)
(* out 0 .. 3: with the three standard streams open a pipe() gets its read *)
(* end and runs into EMFILE at its write end; closing standard streams     *)
(* makes room for a whole pipe and dup'ed ends.  One pipe() that creates *)
(* a pipe is enough: failed calls may follow it.  The guest                *)
(* asks F_DUPFD for a negative and for the lowest descriptor, and F_SETFL  *)
(* for O_WRONLY, the only bit of the word it passes that reaches a check.  *)
(***************************************************************************)
EXTENDS Streams

MCMaxOpenFds == 3
MCFdLimit == 3
MCMaxPipes == 1
MCMaxBytes == 1
MCDupArgs == {-1, 0}
MCSetflArgs == {1}
MCMaxSize == 3
MCMaxOpens == 1
MCOpenArgs == {0, 2, 1 + 512 + 1024}
MCSeekArgs == {<<1, 2>>, <<-1, 1>>}
MCTruncArgs == {1}
MCMaxWrites == 3

\* Terminal writes: a byte of a line, a NUL, and a write that ends one
\* line and starts the next; two such calls.
MCTtyWriteArgs == {<<65>>, <<0>>, <<65, 10, 65>>}
MCMaxTtyWrites == 2

====
