--------------------------------- MODULE TTY ---------------------------------
(***************************************************************************)
(* The terminal devices of src/page/public/linux64/linux-analyzer.js that  *)
(* FS.init's createStandardStreams puts under the standard streams: /dev/tty*)
(* (stdin and stdout) with default_tty_ops, whose lines go to out          *)
(* (console.log), and /dev/tty1 (stderr) with default_tty1_ops, whose      *)
(* lines go to err.  A device's state is tty.output, the line not yet      *)
(* printed, kept as its length, and the number of bytes out/err has        *)
(* printed so far; the bytes themselves and their UTF-8 decoding are left  *)
(* out.  Every stream on a device shares the one tty object.               *)
(***************************************************************************)
EXTENDS Naturals, Sequences, SequencesExt

Devices == {"tty", "tty1"}
NL == 10

\* TTY.register: an empty output line, nothing printed.
NewTty == [pending |-> 0, printed |-> 0]

(***************************************************************************)
(* Mutants: plausible slips in the operators that follow.                  *)
(***************************************************************************)

\* fsync printing the pending line without emptying tty.output.
FsyncKeepsLine(t) ==
  IF t.pending > 0 THEN [t EXCEPT !.printed = @ + t.pending] ELSE t

(***************************************************************************)
(* default_tty_ops and default_tty1_ops.                                   *)
(***************************************************************************)

\* put_char(tty, val): a newline prints the buffered line and empties it, a
\* NUL is dropped, any other byte is buffered.
PutChar(t, val) ==
  IF val = NL THEN [pending |-> 0, printed |-> t.printed + t.pending]
  ELSE IF val /= 0 THEN [t EXCEPT !.pending = @ + 1]
  ELSE t

\* fsync(tty): a non-empty buffered line is printed and emptied.
Fsync(t) ==
  IF t.pending > 0 THEN [pending |-> 0, printed |-> t.printed + t.pending] ELSE t

(***************************************************************************)
(* TTY.stream_ops.                                                         *)
(***************************************************************************)

\* stream_ops.write: put_char on the stream's tty for each byte in turn.
TtyWrite(t, vals) == FoldLeft(PutChar, t, vals)

\* The bytes of vals that end up printed: all but the newlines and NULs.
Printable(vals) == Len(SelectSeq(vals, LAMBDA v : v \notin {0, NL}))

\* stream_ops.close: flush any pending line data (fsync), whichever stream
\* of the device is closed.
TtyClose(t) == Fsync(t)

=============================================================================
