------------------------------- MODULE Streams -------------------------------
(***************************************************************************)
(* The descriptor table of src/page/public/linux64/linux-analyzer.js       *)
(* (FS.streams with nextfd, createStream, dupStream, closeStream) as the   *)
(* syscalls that reach it without a path see it: ___syscall_pipe,          *)
(* _fd_close, ___syscall_fcntl64, _fd_read and _fd_write, together with    *)
(* one MEMFS regular file that ___syscall_openat opens, _fd_seek, _fd_read *)
(* and _fd_write use at the shared position, and ___syscall_truncate64     *)
(* resizes (its storage is the MemFile module's).                          *)
(*                                                                         *)
(* A descriptor holds an FSStream; FSStream keeps flags and position in a  *)
(* `shared` object that Object.assign copies by reference, so a dup'ed     *)
(* descriptor shares the flags of its original.  A shared object is named  *)
(* by a number.  The descriptors 0 and 1 start on /dev/tty and 2 on        *)
(* /dev/tty1, as FS.createStandardStreams leaves them; _fd_write on them   *)
(* and their close reach the TTY module's line buffers.  A pipe's contents are a byte  *)
(* count: the order of its bytes is the Pipe module's concern.  The file   *)
(* exists and is empty at the start, as O_CREAT leaves it.                 *)
(***************************************************************************)
EXTENDS Integers, FiniteSets, Bitwise, MemFile, TTY

CONSTANTS
  MaxOpenFds,  \* FS.MAX_OPEN_FDS
  FdLimit,     \* highest descriptor F_DUPFD's upward search may reach
  MaxPipes,    \* pipe() calls that create a pipe
  MaxBytes,    \* bytes a pipe may hold
  DupArgs,     \* lowest descriptors the guest asks F_DUPFD for
  SetflArgs,   \* flag words the guest passes to F_SETFL
  MaxOpens,    \* openat calls on the file that create a stream
  OpenArgs,    \* flag words the guest passes to openat
  SeekArgs,    \* <<offset, whence>> pairs the guest passes to fd_seek
  TruncArgs,   \* lengths the guest passes to truncate
  MaxWrites,   \* fd_write calls that reach the file's storage
  TtyWriteArgs,  \* byte sequences the guest writes to a terminal
  MaxTtyWrites,  \* fd_write calls that reach a terminal
  NoStream     \* an empty slot of FS.streams

ASSUME MaxOpenFds \in Nat /\ FdLimit \in Nat /\ MaxOpenFds <= FdLimit

\* Open flags as the runtime spells them.  Error returns are not kept: an
\* error path changes nothing but the pipe() outcome below.
O_WRONLY == 1
O_ACCMODE == 2097155       \* O_PATH | 3, the mask FS.read and FS.write test
O_TRUNC == 512
O_APPEND == 1024
OpenHandled == 128 + 512 + 131072   \* O_EXCL | O_TRUNC | O_NOFOLLOW, stripped by FS.open

Fds == 0 .. FdLimit
Pipes == 1 .. MaxPipes
SharedIds == 1 .. 3 + 2 * MaxPipes + MaxOpens
Nodes == [kind : Devices \cup {"file"}, pipe : {0}] \cup [kind : {"r", "w"}, pipe : Pipes]
Bytes == 0 .. 2                \* the byte values the file may hold
Outcomes == {"none", "ok", "EMFILE"}

VARIABLES
  fds,       \* FS.streams: descriptor -> [node, sh] or NoStream
  flags,     \* the flags field of each shared object
  nShared,   \* shared objects created so far
  nPipes,    \* pipes created so far
  refcnt,    \* pipe.refcnt of each pipe
  freed,     \* pipe.buckets = null
  queued,    \* bytes a pipe holds
  pipeRet,   \* history: what the step's pipe() returned, "none" for another call
  position,  \* the position field of each shared object
  file,      \* the file node's contents, capacity and usedBytes
  got,       \* history: the bytes the step's read of the file returned, <<>> for another call
  nOpens,    \* streams openat created on the file
  nWrites,   \* write calls that reached the file's storage
  tty,       \* each terminal device's tty object (TTY)
  ttyPut,    \* history: the bytes written to each device that are not newlines or NULs
  nTtyWrites \* write calls that reached a terminal

pipeVars == <<fds, flags, nShared, nPipes, refcnt, freed, queued, pipeRet>>
fileVars == <<position, file, nOpens, nWrites>>
ttyVars == <<tty, ttyPut, nTtyWrites>>
vars == <<pipeVars, fileVars, got, ttyVars>>

TypeOK ==
  /\ fds \in [Fds -> [node : Nodes, sh : SharedIds] \cup {NoStream}]
  /\ flags \in [SharedIds -> Nat]
  /\ nShared \in 0 .. Cardinality(SharedIds)
  /\ nPipes \in 0 .. MaxPipes
  /\ refcnt \in [Pipes -> Nat]
  /\ freed \in [Pipes -> BOOLEAN]
  /\ queued \in [Pipes -> 0 .. MaxBytes]
  /\ pipeRet \in Outcomes
  /\ position \in [SharedIds -> 0 .. MaxSize]
  /\ file \in [contents : [Offsets -> Bytes], cap : Nat, used : 0 .. MaxSize]
  /\ got \in Seq(Bytes)
  /\ nOpens \in 0 .. MaxOpens
  /\ nWrites \in 0 .. MaxWrites
  /\ tty \in [Devices -> [pending : Nat, printed : Nat]]
  /\ ttyPut \in [Devices -> Nat]
  /\ nTtyWrites \in 0 .. MaxTtyWrites

IsOpen(fd) == fds[fd] /= NoStream
OnPipe(fd) == IsOpen(fd) /\ fds[fd].node.kind \in {"r", "w"}
OnFile(fd) == IsOpen(fd) /\ fds[fd].node.kind = "file"
OnTty(fd) == IsOpen(fd) /\ fds[fd].node.kind \in Devices

(***************************************************************************)
(* Mutants: plausible slips in the operators that follow.                  *)
(***************************************************************************)

\* dupStream without calling stream_ops.dup.
DupNoOp(node, refs) == refs

\* createPipe counting one reference for the pipe rather than one per end.
PipeRefsOne == 1

(***************************************************************************)
(* The descriptor table.                                                   *)
(***************************************************************************)

\* FS.nextfd: the lowest free descriptor up to and including MAX_OPEN_FDS,
\* or -1 where the code throws EMFILE.
NextFd(tbl) ==
  LET free == {fd \in 0 .. MaxOpenFds : tbl[fd] = NoStream}
  IN IF free = {} THEN -1 ELSE CHOOSE fd \in free : \A g \in free : fd <= g

\* createPipe's refcnt: one reference for each end.
PipeRefs == 2

\* stream_ops?.dup?.(stream) in FS.dupStream: only a pipe has one.
StreamDup(node, refs) ==
  IF node.kind \in {"r", "w"} THEN [refs EXCEPT ![node.pipe] = @ + 1] ELSE refs

\* fcntl F_DUPFD's scan: while (FS.streams[arg]) arg++.
FirstFreeFrom(tbl, arg) ==
  LET free == {fd \in arg .. FdLimit : tbl[fd] = NoStream}
  IN IF free = {} THEN -1 ELSE CHOOSE fd \in free : \A g \in free : fd <= g

(***************************************************************************)
(* Actions.                                                                *)
(***************************************************************************)

\* FS.createStandardStreams opens /dev/stdin read-only and /dev/stdout and
\* /dev/stderr write-only, each a stream of its own, on 0, 1 and 2; stdin
\* and stdout are links to /dev/tty, stderr to /dev/tty1.
Init ==
  /\ fds = [fd \in Fds |-> IF fd <= 2 /\ fd <= MaxOpenFds
                           THEN [node |-> [kind |-> IF fd = 2 THEN "tty1" ELSE "tty", pipe |-> 0],
                                 sh |-> fd + 1]
                           ELSE NoStream]
  /\ flags = [s \in SharedIds |-> IF s \in {2, 3} THEN O_WRONLY ELSE 0]
  /\ nShared = 3
  /\ nPipes = 0
  /\ refcnt = [p \in Pipes |-> 0]
  /\ freed = [p \in Pipes |-> FALSE]
  /\ queued = [p \in Pipes |-> 0]
  /\ pipeRet = "none"
  /\ position = [s \in SharedIds |-> 0]
  /\ file = EmptyFile
  /\ got = <<>>
  /\ nOpens = 0
  /\ nWrites = 0
  /\ tty = [d \in Devices |-> NewTty]
  /\ ttyPut = [d \in Devices |-> 0]
  /\ nTtyWrites = 0

\* ___syscall_pipe: createPipe sets refcnt to 2 and creates the read stream
\* and then the write stream, each on FS.nextfd.  A nextfd that finds no
\* slot throws EMFILE out of createPipe; a read stream already created
\* stays in the table.
SysPipe ==
  /\ nPipes < MaxPipes
  /\ nOpens = 0
  /\ nTtyWrites = 0
  /\ LET p  == nPipes + 1
         r  == NextFd(fds)
         t1 == [fds EXCEPT ![r] = [node |-> [kind |-> "r", pipe |-> p], sh |-> nShared + 1]]
         w  == NextFd(t1)
     IN \/ /\ r = -1
           /\ pipeRet' = "EMFILE"
           /\ UNCHANGED <<fds, flags, nShared, nPipes, refcnt, queued>>
        \/ /\ r /= -1
           /\ w = -1
           /\ fds' = t1
           /\ flags' = [flags EXCEPT ![nShared + 1] = 0]
           /\ nShared' = nShared + 1
           /\ nPipes' = p
           /\ refcnt' = [refcnt EXCEPT ![p] = PipeRefs]
           /\ pipeRet' = "EMFILE"
           /\ UNCHANGED queued
        \/ /\ r /= -1
           /\ w /= -1
           /\ fds' = [t1 EXCEPT ![w] = [node |-> [kind |-> "w", pipe |-> p],
                                        sh |-> nShared + 2]]
           /\ flags' = [flags EXCEPT ![nShared + 1] = 0, ![nShared + 2] = O_WRONLY]
           /\ nShared' = nShared + 2
           /\ nPipes' = p
           /\ refcnt' = [refcnt EXCEPT ![p] = PipeRefs]
           /\ pipeRet' = "ok"
           /\ UNCHANGED queued
  /\ UNCHANGED freed
  /\ UNCHANGED fileVars
  /\ got' = <<>>
  /\ UNCHANGED ttyVars

\* _fd_close: EBADF for a free slot; otherwise FS.close runs the stream's
\* close (a pipe drops a reference and frees its buffers with the last;
\* the terminal flushes its line) and empties the slot.
FdClose(fd) ==
  \/ /\ ~IsOpen(fd)
     /\ pipeRet' = "none"
     /\ UNCHANGED <<fds, refcnt, freed, tty>>
  \/ /\ IsOpen(fd)
     /\ LET n == fds[fd].node
        IN /\ IF n.kind \in {"r", "w"}
              THEN /\ refcnt' = [refcnt EXCEPT ![n.pipe] = @ - 1]
                   /\ freed' = [freed EXCEPT ![n.pipe] = (refcnt[n.pipe] - 1 = 0)]
              ELSE UNCHANGED <<refcnt, freed>>
        /\ tty' = IF n.kind \in Devices THEN [tty EXCEPT ![n.kind] = TtyClose(@)] ELSE tty
     /\ fds' = [fds EXCEPT ![fd] = NoStream]
     /\ pipeRet' = "none"
  /\ UNCHANGED <<flags, nShared, nPipes, queued, ttyPut, nTtyWrites>>
  /\ UNCHANGED fileVars
  /\ got' = <<>>

\* fcntl(fd, F_DUPFD, arg): EBADF, EINVAL for a negative arg, else the
\* first free slot from arg upward gets a copy of the stream sharing its
\* flags, and the pipe takes a reference.
DupFd(fd, arg) ==
  \/ /\ ~IsOpen(fd)
     /\ pipeRet' = "none"
     /\ UNCHANGED <<fds, refcnt>>
  \/ /\ IsOpen(fd)
     /\ arg < 0
     /\ pipeRet' = "none"
     /\ UNCHANGED <<fds, refcnt>>
  \/ /\ IsOpen(fd)
     /\ arg >= 0
     /\ LET nfd == FirstFreeFrom(fds, arg)
        IN /\ nfd /= -1
           /\ fds' = [fds EXCEPT ![nfd] = fds[fd]]
           /\ refcnt' = StreamDup(fds[fd].node, refcnt)
           /\ pipeRet' = "none"
  /\ UNCHANGED <<flags, nShared, nPipes, freed, queued>>
  /\ UNCHANGED fileVars
  /\ got' = <<>>
  /\ UNCHANGED ttyVars

\* fcntl(fd, F_SETFL, arg): stream.flags |= arg, on the shared object.
SetFl(fd, arg) ==
  \/ /\ ~IsOpen(fd)
     /\ pipeRet' = "none"
     /\ UNCHANGED flags
  \/ /\ IsOpen(fd)
     /\ flags' = [flags EXCEPT ![fds[fd].sh] = @ | arg]
     /\ pipeRet' = "none"
  /\ UNCHANGED <<fds, nShared, nPipes, refcnt, freed, queued>>
  /\ UNCHANGED fileVars
  /\ got' = <<>>
  /\ UNCHANGED ttyVars

\* _fd_write of len bytes on a pipe descriptor: FS.write refuses a stream
\* whose access mode is O_RDONLY, then the pipe's write appends.
FdWrite(fd, len) ==
  /\ ~IsOpen(fd) \/ OnPipe(fd)
  /\ \/ /\ ~IsOpen(fd)
        /\ pipeRet' = "none"
        /\ UNCHANGED queued
     \/ /\ IsOpen(fd)
        /\ (flags[fds[fd].sh] & O_ACCMODE) = 0
        /\ pipeRet' = "none"
        /\ UNCHANGED queued
     \/ /\ IsOpen(fd)
        /\ (flags[fds[fd].sh] & O_ACCMODE) /= 0
        /\ queued[fds[fd].node.pipe] + len <= MaxBytes
        /\ queued' = [queued EXCEPT ![fds[fd].node.pipe] = @ + len]
        /\ pipeRet' = "none"
  /\ UNCHANGED <<fds, flags, nShared, nPipes, refcnt, freed>>
  /\ UNCHANGED fileVars
  /\ got' = <<>>
  /\ UNCHANGED ttyVars

\* _fd_read of len bytes on a pipe descriptor: FS.read refuses a stream
\* whose access mode is O_WRONLY; the pipe's read throws EAGAIN when empty.
FdRead(fd, len) ==
  /\ ~IsOpen(fd) \/ OnPipe(fd)
  /\ \/ /\ ~IsOpen(fd)
        /\ pipeRet' = "none"
        /\ UNCHANGED queued
     \/ /\ IsOpen(fd)
        /\ (flags[fds[fd].sh] & O_ACCMODE) = O_WRONLY
        /\ pipeRet' = "none"
        /\ UNCHANGED queued
     \/ /\ IsOpen(fd)
        /\ (flags[fds[fd].sh] & O_ACCMODE) /= O_WRONLY
        /\ LET p == fds[fd].node.pipe
               n == IF queued[p] < len THEN queued[p] ELSE len
           IN IF queued[p] = 0
              THEN /\ pipeRet' = "none"
                   /\ UNCHANGED queued
              ELSE /\ queued' = [queued EXCEPT ![p] = @ - n]
                   /\ pipeRet' = "none"
  /\ UNCHANGED <<fds, flags, nShared, nPipes, refcnt, freed>>
  /\ UNCHANGED fileVars
  /\ got' = <<>>
  /\ UNCHANGED ttyVars

\* ___syscall_openat of the file with flag word fl: FS.open finds the node,
\* mayOpen lets a regular file through, O_TRUNC truncates it to 0 (FS.truncate
\* -> doTruncate -> MEMFS setattr -> resizeFileStorage) before
\* FS.createStream looks for a slot, so an EMFILE open has already
\* truncated; a stream gets the flags less the bits open handled, and
\* position 0.
SysOpen(fl) ==
  /\ nOpens < MaxOpens
  /\ nPipes = 0
  /\ nTtyWrites = 0
  /\ LET fd == NextFd(fds)
         sh == nShared + 1
     IN /\ file' = IF (fl & O_TRUNC) /= 0 THEN ResizeFileStorage(file, 0) ELSE file
        /\ IF fd = -1
           THEN UNCHANGED <<fds, flags, nShared, position, nOpens>>
           ELSE /\ fds' = [fds EXCEPT ![fd] = [node |-> [kind |-> "file", pipe |-> 0], sh |-> sh]]
                /\ flags' = [flags EXCEPT ![sh] = fl & (O_ACCMODE + O_APPEND)]
                /\ position' = [position EXCEPT ![sh] = 0]
                /\ nShared' = sh
                /\ nOpens' = nOpens + 1
  /\ pipeRet' = "none"
  /\ got' = <<>>
  /\ UNCHANGED <<nPipes, refcnt, freed, queued, nWrites>>
  /\ UNCHANGED ttyVars

\* ___syscall_truncate64(path, n): FS.truncate -> doTruncate -> setattr ->
\* resizeFileStorage on the file's node; no stream's position moves.
SysTruncate(n) ==
  /\ file' = ResizeFileStorage(file, n)
  /\ pipeRet' = "none"
  /\ got' = <<>>
  /\ UNCHANGED <<fds, flags, nShared, nPipes, refcnt, freed, queued,
                 position, nOpens, nWrites>>
  /\ UNCHANGED ttyVars

\* _fd_seek(fd, offset, whence): EBADF for a free slot, ESPIPE for the
\* terminal and pipe streams (not seekable), EINVAL for a negative result;
\* otherwise FS.llseek stores MEMFS llseek's result in the shared position.
FdSeek(fd, offset, whence) ==
  /\ LET p == IF OnFile(fd) THEN MemLlseek(file, position[fds[fd].sh], offset, whence) ELSE -1
     IN /\ p <= MaxSize
        /\ position' = IF p = -1 THEN position ELSE [position EXCEPT ![fds[fd].sh] = p]
  /\ pipeRet' = "none"
  /\ got' = <<>>
  /\ UNCHANGED <<fds, flags, nShared, nPipes, refcnt, freed, queued, file, nOpens, nWrites>>
  /\ UNCHANGED ttyVars

\* _fd_write of one byte on a file descriptor: FS.write refuses an
\* O_RDONLY stream; an O_APPEND one first seeks to the end
\* (FS.llseek(stream, 0, SEEK_END)); MEMFS write puts the byte at the
\* shared position, which then advances by what was written.  The byte
\* written is 1 or 2, alternating, so that consecutive writes are told
\* apart.  The position stays within MaxSize.
FileWrite(fd) ==
  /\ OnFile(fd)
  /\ nWrites < MaxWrites
  /\ LET sh == fds[fd].sh
         at == IF (flags[sh] & O_APPEND) /= 0 THEN file.used ELSE position[sh]
     IN IF (flags[sh] & O_ACCMODE) = 0
        THEN UNCHANGED <<position, file, nWrites>>
        ELSE /\ at + 1 <= MaxSize
             /\ file' = MemWrite(file, at, 1, (nWrites % 2) + 1)
             /\ position' = [position EXCEPT ![sh] = at + 1]
             /\ nWrites' = nWrites + 1
  /\ pipeRet' = "none"
  /\ got' = <<>>
  /\ UNCHANGED <<fds, flags, nShared, nPipes, refcnt, freed, queued, nOpens>>
  /\ UNCHANGED ttyVars

\* _fd_read of len bytes on a file descriptor: FS.read refuses an O_WRONLY
\* stream; MEMFS read returns the bytes from the shared position, which
\* advances by their number.
FileRead(fd, len) ==
  /\ OnFile(fd)
  /\ LET sh == fds[fd].sh
         r  == MemRead(file, position[sh], len)
     IN IF (flags[sh] & O_ACCMODE) = O_WRONLY
        THEN /\ got' = <<>>
             /\ UNCHANGED position
        ELSE /\ got' = r
             /\ position' = [position EXCEPT ![sh] = @ + Len(r)]
  /\ pipeRet' = "none"
  /\ UNCHANGED <<fds, flags, nShared, nPipes, refcnt, freed, queued, file, nOpens, nWrites>>
  /\ UNCHANGED ttyVars

\* _fd_write of the bytes vals on a terminal descriptor: FS.write refuses
\* an O_RDONLY stream (EBADF); otherwise the TTY's write puts every byte
\* on the device's line, the one tty object every stream of the device
\* shares.  (FS.write also advances the terminal stream's position, which
\* nothing reads: a terminal is not seekable.)  Terminal writes are the
\* guest's only calls in a behaviour that writes to one, as pipe() and
\* openat are in others.
TtyWriteFd(fd, vals) ==
  /\ OnTty(fd)
  /\ nPipes = 0 /\ nOpens = 0
  /\ nTtyWrites < MaxTtyWrites
  /\ LET d == fds[fd].node.kind
     IN IF (flags[fds[fd].sh] & O_ACCMODE) = 0
        THEN UNCHANGED ttyVars
        ELSE /\ tty' = [tty EXCEPT ![d] = TtyWrite(@, vals)]
             /\ ttyPut' = [ttyPut EXCEPT ![d] = @ + Printable(vals)]
             /\ nTtyWrites' = nTtyWrites + 1
  /\ pipeRet' = "none"
  /\ got' = <<>>
  /\ UNCHANGED <<fds, flags, nShared, nPipes, refcnt, freed, queued>>
  /\ UNCHANGED fileVars

Next ==
  \/ SysPipe
  \/ \E fl \in OpenArgs : SysOpen(fl)
  \/ \E n \in TruncArgs : SysTruncate(n)
  \/ \E fd \in Fds :
       \/ FdClose(fd)
       \/ \E arg \in DupArgs : DupFd(fd, arg)
       \/ \E arg \in SetflArgs : SetFl(fd, arg)
       \/ FdWrite(fd, 1)
       \/ FdRead(fd, 1)
       \/ \E a \in SeekArgs : FdSeek(fd, a[1], a[2])
       \/ FileWrite(fd)
       \/ FileRead(fd, 2)
       \/ \E vals \in TtyWriteArgs : TtyWriteFd(fd, vals)

Spec == Init /\ [][Next]_vars

(***************************************************************************)
(* Properties.                                                             *)
(***************************************************************************)

\* No descriptor reaches a pipe whose buffers close has freed: every stream
\* dup'ed onto a pipe end holds its own reference.
NoUseAfterFree == \A fd \in Fds : OnPipe(fd) => ~freed[fds[fd].node.pipe]

\* Every byte written to a terminal (newlines and NULs aside) is printed
\* once, by a newline or by the fsync of a close, and none is printed
\* twice: the printed bytes and the pending line make up what was written,
\* whichever of the device's streams, dup'ed or not, wrote or was closed;
\* and once no stream is left on the device, nothing is pending.
TtyOutputExact ==
  \A d \in Devices :
    /\ tty[d].printed + tty[d].pending = ttyPut[d]
    /\ (\A fd \in Fds : OnTty(fd) => fds[fd].node.kind /= d) => tty[d].pending = 0

\* The MEMFS file behaves as a file: what every read returns is what the
\* writes and truncates before it left at those offsets, zeros in holes,
\* whatever the growth and reallocation of node.contents underneath.
Data == INSTANCE FileData WITH Size <- MaxSize, Vals <- Bytes,
                               data <- FileBytes(file)
FileImplementsFileData == Data!Spec

=============================================================================
