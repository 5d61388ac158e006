# TLA+ models of the sogen browser runtime

This directory models the JavaScript runtime that hosts the analyser's
WebAssembly build: `src/page/public/linux64/linux-analyzer.js`, the
Emscripten-generated glue between the guest and the browser.

The guest is the emulator compiled to wasm, with Asyncify instrumentation. The
runtime gives it a POSIX-like file system, pipes, sockets over WebSockets, a
terminal, and blocking system calls on top of the browser's event loop. The
page's `src/page/src/filesystem.ts` drives the durable part of that file system
(IDBFS) from the UI.

`PROJECT.json` lists every component, each run and what it shows, the mutants
that show each property can fail, the source lines each definition models, the
findings and the hazards.

## The system

| Part | Code (linux-analyzer.js) | State | Operations |
|---|---|---|---|
| Suspension engine | `Asyncify` 5690–5908, `handleSleep`, `handleAsync`, `callMain` 7243, `exitJS` 5371, `maybeExit` 5656, keep-alive 5682 | `state`, `currData`, `exportCallStack`, `runtimeKeepaliveCounter`, `EXITSTATUS`, `ABORT`, `runtimeExited` | export wrappers (push/pop, `maybeStopUnwind`), unwind, `wakeUp`/`doRewind`, rewind end |
| Blocking imports | `_emscripten_sleep` 5292, `___syscall_poll` 4850 | one promise per call, a timer | count ready fds, arm timer, resolve |
| Descriptor table | `FS.streams`, `nextfd` 2057, `createStream`, `dupStream` 2086, `close` 2708, `___syscall_fcntl64` 4292 | fd → stream (node, flags, position, shared by dup) | open, dup, close, llseek, read, write, fcntl |
| Node tree and mounts | `FS.lookupPath` 1808, `hashAddNode`…, `mount` 2165, `rename` 2342, `unlink`, `rmdir`, `symlink` | nodes, parent links, `nameTable`, mounts | create, rename, unlink, rmdir, symlink, mount, unmount |
| Path helpers | `PATH` 567, `PATH_FS` 625 | none | normalise, join, resolve, relative |
| MEMFS | 957–1305 | node contents (capacity), `usedBytes` | read, write, llseek, expand/resize storage, mmap/msync |
| IDBFS | 1313–1670; `filesystem.ts` | `queuePersist` timer state, IndexedDB store | syncfs, reconcile |
| PIPEFS | 4632–4832 | buckets (`offset`, `roffset`), `refcnt` | createPipe, read, write, dup, close, poll |
| SOCKFS + DNS | 3338–4008 | peers, `recv_queue`, WebSockets, address map | socket, bind, sendto, recvfrom, handleOpen/handleMessage, poll, close, lookup_name, lookup_addr, inetPton4/inetNtop4 |
| TTY | 823–945 | output line buffers, one per device, shared by its streams | write (put_char), fsync, close |

How the parts interact:
- Every system call runs inside a guest call stack.
- Calls that wait (poll, sleep) go through the suspension engine. The engine unwinds the wasm stack, returns to the event loop, and rewinds when the import's promise resolves.
- Host events run only when the JS stack is empty. These are timers, WebSocket messages that fill a socket's receive queue, and IndexedDB callbacks.
- Promise continuations (microtasks) run before the next host event.

The behaviours that make the code hard:
- unwinds and rewinds through nested exports;
- the keep-alive count across repeated suspensions;
- the exit status across a suspension;
- pipe reads and writes at bucket boundaries;
- reference counts shared by dup'ed streams;
- concurrent `FS.syncfs` passes and IDBFS reconcile against stale snapshots;
- symlinks and the lexical rename check (which a hidden name defeats);
- descriptor allocation at `MAX_OPEN_FDS`;
- terminal line buffers shared by every stream of a device;
- the name hash table as the only index of the tree, and `lookupPath` across symlinks and mount roots.

## Modules

### `Asyncify` (MC: `MCAsyncify`)

The engine, with the guest abstracted to its stack of frames:
- `"main"`;
- `"wasm"` for an ordinary call;
- `"invoke"` for a call that leaves through an `invoke_*` import and re-enters through an instrumented export.

The engine's variables map directly to the code: `state`, `exportCallStack`, `currData`, `keepalive`, `exitStatus`, and `exited` (for `runtimeExited`/`ABORT`). `saved` is what asyncify writes into the unwind buffer, and `rewindFunc` is `setDataRewindFunc`'s record. `pending` is the promise of the suspended import: its kind, the poll timeout, whether it has resolved, and its value. `sockFd`, `sock` and `conns` are the guest's one socket descriptor, its SOCKFS `sock` and the WebSockets its peers opened (see `Sockfs`). `nSent`, `srvMsgs`, `srvSeq` and `lastGot` count datagrams sent and server frames made, and remember the last datagram the guest received from each connection.

The actions:
- `CallMain`, `GuestCall`, `GuestReturn`, `MainReturn` and `GuestExit` are the guest. `GuestSocket`, `GuestBind`, `GuestSend`, `GuestRecv` and `GuestClose` are the socket system calls, each a `Sockfs` operator applied in one step.
- `Block` is the import entering `handleSleep`. It calls `startAsync`, and for poll it counts readiness and possibly resolves at once; the state becomes Unwinding; `allocateData` runs.
- `UnwindStep` pops one frame. An export's wrapper pops the export stack and runs `maybeStopUnwind`.
- `TimerFire` is a host event, and so are the network events `WsOpen` (`handleOpen`), `ServerSend`, `WsMessage` (`handleMessage`, or a close frame) and `WsCloseDone` (onerror/onclose). They run only when the JS stack is empty and no resolved promise's continuation is waiting (`NetTask`): `handleAsync` resumes the guest in a microtask.
- `Wake` is the `wakeUp` continuation followed by `doRewind`.
- `RewindStep` replays one frame.
- `Resume` is `handleSleep` in the Rewinding state.

When the bottom export returns, `ReturnToHost` applies what its JS caller does. Under `callMain`, that is `exitJS(ret)`. Under `doRewind`, `callUserCallback` drops the value and `maybeExit` runs.

### `Sockfs` (used by `Asyncify`)

SOCKFS as the browser build reaches it. `wasmImports` has no `___syscall_connect`, so `sock.daddr` is never set: a stream socket has no peer (send and recv are ENOTCONN), and a datagram socket opens one WebSocket per destination it sends to (`createPeer`). The module has no variables: its operators take the socket and the connections and return an errno, the new socket and connections, and what `recvmsg` returned.
- The socket is `type`, `bound` (bind set `sport`), `peers` (`sock.peers`, destination → connection), `recvq` (`recv_queue`) and `error`.
- A connection is one WebSocket: its readyState (`"failing"` is CLOSING reached from CONNECTING), the key its peer is filed under, `first`, `msg_send_queue`, the frames the server received and the server's frames in flight.
- Operators: `Bind`, `CreatePeer`, `SendMsg`, `HandleOpen`, `HandleMessage` (empty frames dropped; a first port message re-keys the peer), `RecvMsg` (EAGAIN on empty; only a stream socket pushes back an unread rest), `Poll`, `SockClose` and `WsClosed`.
- Payloads are frames: a datagram by its number and length, an empty frame, a port message, a close.

`sock_ops.poll` takes `dest` from `daddr`, which is never set, so it reports POLLIN|POLLOUT at once for every socket: a poll on a socket never waits, and a guest that polls and reads in a loop never yields to the event loop that would deliver its data (hazard at line 3629).

### `DNS` (MC: `MCDNS`)

`DNS` is the path of a hostname from `_getaddrinfo` to `___syscall_sendto`:
- `id` is `DNS.address_map.id`; `hostAddr` is the id `lookup_name` gave the one hostname followed, `Host`; every other hostname is `Other`, and only how many there were matters, so `GetaddrinfoOther` just takes the next id.
- An address string is its four decimal fields (`Addr(i)` is `172.29.(i & 255).(i & 65280)`), and a 32-bit address is its four bytes as HEAP32 stores them. `InetPton4` ORs the fields shifted by 0, 8, 16 and 24 bits, keeping 32 bits as JavaScript's `<<` does; `InetNtop4` reads the bytes back.
- `GetaddrinfoHost` is `lookup_name`, `inetPton4` and `allocaddrinfo` (`inetNtop4`, then `writeSockaddr`'s `inetPton4`). `SendtoHost` is `readSockaddr`'s `inetNtop4` and `getSocketAddress`'s `lookup_addr(addr) || addr`, which names the peer `sendmsg` opens a WebSocket to.

### `Pipe` and `PipeFIFO` (MC: `MCPipe`)

`Pipe` models one pipe as `createPipe` leaves it. Its `Write` and `Read` are `stream_ops.write`/`read` in full:
- filling the last bucket;
- appending full buckets and a remainder bucket;
- the drain loop (`Drain`, RECURSIVE);
- resetting the last bucket when every bucket is used up.

`Dup` and `Close` are `FS.dupStream`/`FS.close` on a pipe stream, with `stream_ops.dup`/`close` adjusting `refcnt`.

Bytes are named by their position in the written stream, so any loss, duplication or reordering is visible.

`PipeFIFO` is the abstract promise: a queue of bytes, reads take its head, an empty queue reads as EAGAIN, and the last close drops it. `Pipe` instantiates it with the refinement mapping `q <- PipeContents` (the unread bytes of every bucket, in order).

### `Streams` (MC: `MCStreams`)

The descriptor table `FS.streams`, as the calls that reach it without a path use it.

State:
- `fds` maps each descriptor to a stream or `NoStream`. A stream records its node and its `shared` object. The node is the terminal, or one end of a pipe.
- `flags` holds the flags of each shared object. `FSStream` keeps `flags` and `position` in `shared`, and `Object.assign` in `createStream` copies that object by reference, so every dup of a stream shares its flags.
- `refcnt`, `freed` and `queued` are each pipe's `refcnt`, `buckets = null`, and the number of bytes it holds.
- `pipeRet` is the history of what the step's `pipe()` returned.

Actions:
- `Init` is what `createStandardStreams` leaves: stdin read-only on 0, stdout and stderr write-only on 1 and 2.
- `SysPipe` is `___syscall_pipe` with `createPipe`. It creates two streams, one after the other, each on `nextfd` (`NextFd`). Its three disjuncts are: no slot; a slot for the read end only, where the `EMFILE` is thrown after the read stream is created; and both ends.
- `FdClose` is `_fd_close` with `FS.close`.
- `DupFd` is `fcntl(F_DUPFD)`: the upward search (`FirstFreeFrom`), then `dupStream` and `stream_ops.dup` (`StreamDup`).
- `SetFl` is `fcntl(F_SETFL)`.
- `FdWrite` and `FdRead` are `_fd_write`/`_fd_read` on a pipe descriptor: `FS.write`'s and `FS.read`'s access-mode test, then the pipe's write, or its read with `EAGAIN`.

- `SysOpen` is `___syscall_openat` of the one MEMFS file: `FS.open` truncates an O_TRUNC open (through `resizeFileStorage`) before `createStream` looks for a slot, and strips O_EXCL, O_TRUNC and O_NOFOLLOW from the stream's flags.
- `SysTruncate` is `___syscall_truncate64` (`FS.truncate`, `doTruncate`, `setattr`).
- `FdSeek` is `_fd_seek` with `FS.llseek`: ESPIPE for the terminal and pipes, EINVAL for a negative result, else the shared position is set.
- `FileWrite` and `FileRead` are `_fd_write`/`_fd_read` on the file: the access-mode test, O_APPEND's seek to the end, MEMFS `write`/`read` at the shared position, and the position advanced.

State for the file: `position` is each shared object's position, `file` the node's storage (see `MemFile`), `got` what the step's read returned, `nOpens` and `nWrites` count opens and writes. A behaviour uses pipes or the file, not both. They meet only in the descriptor table, where the terminal streams already take slots, and the product of the two is beyond TLC's budget.

- `TtyWriteFd` is `_fd_write` on a descriptor of a terminal (`OnTty`): `FS.write`'s access-mode test, then TTY `stream_ops.write`, that is `put_char` byte by byte on the device's one `tty` object (`TtyWrite`). `FdClose` of a terminal descriptor runs TTY `stream_ops.close`, which flushes the device's pending line, whichever stream of the device is closed.

State for the terminal: `tty` is each device's line buffer (see `TTY`), `ttyPut` the printable bytes written to each device so far, and `nTtyWrites` counts terminal writes. Terminal writes happen in behaviours with no pipe and no open file, for the same reason as above. Terminal reads are not actions: the build's `FS_stdin_getChar` always returns null, so a read of stdin returns 0 bytes and changes nothing.

### `TTY` (used by `Streams`)

The two devices `createStandardStreams` opens: `/dev/tty` under stdin and stdout, with `default_tty_ops` printing through `out`, and `/dev/tty1` under stderr, printing through `err`. A device's state is the length of its pending line (`tty.output`) and the number of bytes printed. `PutChar` prints and empties the line on a newline, drops NUL, and buffers anything else. `Fsync` prints a non-empty line. `TtyClose` is `stream_ops.close`, which is `fsync`. The bytes themselves and their UTF-8 decoding are left out: the property counts bytes.

### `MemFile` and `FileData` (used by `Streams`)

`MemFile` holds pure operators for one MEMFS regular file's storage. `node.contents` is a function from the offsets a model reaches to bytes, with its capacity (the typed array's length, 0 for `null`) and `usedBytes`.
- `ExpandFileStorage`: nothing if the array is long enough, else at least double it and at least 256 bytes unless it was null, keeping the first `usedBytes`.
- `ResizeFileStorage`: exact size, `null` at 0.
- `MemWrite`: no bytes is a no-op; a first write at 0 to an empty file takes a copy of exactly those bytes; a write inside the used range is set in place; anything else expands and extends `usedBytes`.
- `MemRead` and `MemLlseek` are `stream_ops.read` and `llseek`.

`FileData` is what a file promises: a byte sequence where writes overwrite, fill holes with zeros, truncate keeps a prefix or zero-extends, and reads return the bytes from a position. `Streams` instantiates it with `data <- FileBytes(file)` (`getFileDataAsTypedArray`), so every step on the file must be a step of the abstract file.


| Run | What it checks | Result |
|---|---|---|
| `asyncify` | `SuspensionConsistent`: the guest never runs while an unwind buffer is outstanding. `SuspendedKeepsRuntimeAlive`: while suspended, the keep-alive count is exactly 1 and the runtime has not exited. `RewindReplaysStack`: a rewind rebuilds a prefix of the recorded stack at every step. `BlockedCallReturns`: every sleep and finite-timeout poll returns (liveness). `SentExactlyOnce`: every datagram sent is on exactly one WebSocket, queued or delivered, in order. `ReceivedInOrder`: the datagrams the guest receives from one connection come in the order the server sent them. | pass, 1491134 states |
| `asyncify_exit_status` | `ExitStatusIsMainResult` | violated: after one suspension, the exit status is callMain's dummy 0 |
| `asyncify_closed_socket` | `ClosedSocketClosesConnections` | violated: send to d1 and d2 opens two WebSockets; the first announces port d2, and the re-key files it under d2, dropping the second from `sock.peers`; `close` then leaves that WebSocket connecting for good |
| `pipe` | `FIFOIntegrity`: reads so far plus what is buffered equal the bytes written, in order. `OpenEndKeepsBuffer`: no buffer is freed while a stream is open. `PipeImplementsFIFO`: refinement of `PipeFIFO`. | pass, 2190 states |
| `pipe_eof` | `EmptyReadAfterWritersCloseIsEOF` (spec.md §8) | violated: closing the write end's only stream and then reading the empty pipe throws EAGAIN (an action property on the read step) |
| `streams` | `NoUseAfterFree`: no descriptor reaches a pipe whose buffers were freed, whatever the order of dups and closes. `FileImplementsFileData`: the MEMFS file, through opens, dups, seeks, appends, truncates, reads and writes, refines `FileData`, whatever its storage's capacity does. `TtyOutputExact`: every printable byte written to a terminal is printed or still pending, and a device with no descriptor left on it has nothing pending. | pass, 868582 states |
| `idbfs` | `OnePersistPassInFlight`: `queuePersist` never lets two persist passes run at once. `ChangesPersisted`: once the guest stops, the store comes to hold every path of the tree with its mtime, unless the last persist pass failed (no retry), whatever the order of changes, local sets, cursors, commits and aborts (liveness). | pass, 123371 states |
| `idbfs_sync_race` | `SyncedTreeWhenIdle` (spec.md §5) | violated: `rename(a, b)` then `rename(b, a)` from the page; the first pass fails early and calls back, the second finds nothing to do and reports success, then the first pass's delete of `a` commits; `a` is in the tree and not in the store |
| `idbfs_truncate` | `ContentsPersisted` (spec.md §3) | violated: `writeFile(p, empty)` over a persisted file truncates it through `setattr`, which ignores the `timestamp` `doTruncate` passes; the wrapped write and close do queue a persist, but `reconcile` compares mtimes only, so the pass stores nothing and the store keeps the old contents |
| `fsnodes` | `HashMatchesContents`: for every directory and name, `FS.lookupNode`'s hash chains give exactly the node MEMFS's `contents` holds, after any sequence of creates, renames over existing names (and failed ones, which re-hash the source), unlinks and rmdirs. `LookupPathNamesNode`: the path `lookupPath` returns with a node is that node's `getPath`, whatever symlinks, `.`, `..` at a mount root and the IDBFS mount jump it went through. `NormalizeMatchesReference`: on the paths `lookupPath` builds when it follows a symlink of the tree (target, then the rest), `PATH.normalizeArray` equals a left-to-right stack and `normalize` is idempotent. `RelativeRoundTrips`: `PATH_FS.relative(a, b)` from any node's path `a`, resolved after `a`, gives `b`. `TypeOK` also checks that the ids in use are exactly those below `FS.nextInode`. | pass, 27477 states |
| `dns_address_wrap` | `DestIsResolvedHost` (spec.md: names round-trip through the synthetic address space) | violated: after 255 other hostnames, `getaddrinfo(Host)` gives Host `172.29.0.256`; `inetPton4` shifts 256 left by 24 bits and keeps none of it, so the sockaddr is `172.29.0.0`, which `lookup_addr` knows no name for, and `sendto` goes to that literal address. The 257th name would get `172.29.1.0`, the first hostname's |
| `idbfs_rename_cycle` | `NoRenameLosesEntries` (spec.md §2: parent/child edges form a tree) | violated: after `mkdir /1` and `mkdir /1/.h`, `rename(/1, /1/.h/1)` passes the ancestor check, because `PATH_FS.relative(/1, /1/.h)` is `.h` and begins with `.`; MEMFS files `/1` under its own child, and the whole subtree leaves the tree. Paths `{/1, /1/2, /1/2/1}` with name 2 hidden, an empty store |

### `MemTree` and `IDBFS` (MC: `MCIDBFS`)

`MemTree` holds pure operators for the path operations on one mount's tree. `IDBFS` is the durable backend that reconciles that tree with an IndexedDB object store, together with its two drivers.

`MemTree`:
- A tree is a function from paths to an entry or `NoEntry`. Paths are sequences of integer names, closed under prefixes. An entry keeps what IDBFS persists: kind, mtime, and contents (one value per write).
- Each operation returns an error flag, the new tree, and whether it passed a node_op that autoPersist wraps with `queuePersist`. The operations are:
  - `Mknod` (`FS.mknod` plus `MEMFS.createNode`, which stamps node and parent);
  - `MkdirTree` (ignores EEXIST only);
  - `WriteFile`, which is `Open` (create, or truncate through `setattr`, which keeps the mtime), then `Write` (no bytes returns before stamping, but the wrapped write has already marked the node, so the close always queues a persist);
  - `Unlink`, `Rmdir` and `Rename`, with `FS.rename`'s checks in the code's order. `MayCreate` and `MayDelete` are `FS.mayCreate`/`mayDelete`. `RelativeStartsWithDot` is rename's ancestor test: `PATH_FS.relative(from, to).charAt(0) === "."` on resolved paths. The constant `DotNames` holds the names that begin with `.`; with it empty the test is the prefix test it is meant to be. `Moved` files a subtree under its own descendant the way MEMFS does: the subtree is cut off;
  - `UnlinkRecursive` (`filesystem.ts`).

`IDBFS` state:
- `local` is the tree and `remote` is the committed store.
- `passes` records every `syncfs` pass: by whom, its local set, errored, done.
- `txq` holds the IndexedDB transactions not yet finished, in creation order. A readonly one may finish once every earlier one is readonly.
- `persistState` is `idbPersistState`, `syncReqs` is `FS.syncFSRequests`, and `lastSync` is what the last `FS.syncfs` callback reported.

`IDBFS` actions:
- `Init` is the state after the mount's populate pass (`initializeIDBFS` awaits it).
- Guest operations (`GuestWrite`, `GuestMkdir`, `GuestUnlink`, `GuestRmdir`, `GuestRename`) run on an autoPersist mount. `TimerFire` is `startPersist`.
- Page methods (`PageStoreFile`, `PageCreateFolder`, `PageRename`, `PageUnlink`) run on the page's mount without autoPersist, each followed by `FsSyncfs`. A method whose FS call throws does not sync.
- `RemoteSetRead` is the readonly cursor's end plus `reconcile`. It has three outcomes:
  - nothing to do, which calls back;
  - a create whose local entry is gone, which calls back with an error and still queues the readwrite transaction;
  - otherwise the readwrite transaction is queued.
- `Commit` is `oncomplete`, which calls back unless the pass already errored. `Abort` is `onabort`.
- `Tick` advances `Date.now()`.

`AutoSpec` uses the guest and timer actions; `PageSpec` uses the page methods.

`filesystem.ts` drives the `@irori/idbfs` build of the same Emscripten runtime. Its `FS` and `IDBFS` are taken to be the ones in `linux-analyzer.js`.

### `PathOps` and `FSNodes` (MC: `MCFSNodes`)

`PathOps` holds `PATH` and `PATH_FS` (567–674) as operators on a path split into its components, the strings between slashes (every helper does `split("/").filter(p => !!p)` first). `NormalizeArray` is the code's scan from the end with a count of pending `..`s; `Normalize`, `Dirname`, `Basename`, `Join2`, `Resolve` (the cwd is always `/`) and `Relative` (the common prefix, then a `..` per remaining component of `from`) follow. `RefNormalizeArray` is the usual left-to-right stack, the reference `NormalizeArray` is checked against.

`FSNodes` is the node graph the path system calls change, across the MEMFS root and the IDBFS mount the page makes on `/root`:
- `node` holds each `FSNode` (parent, name, kind, symlink target, mount) by id; `contents` is each MEMFS directory's contents object; `nameTable` is `FS.nameTable`, a sequence of ids per bucket, front first; `nextInode` is `FS.nextInode`.
- `HashName`, `HashAdd` and `HashRemove` are `hashName` (with the names' real string hashes as the constant `NameHash`), `hashAddNode` (in front) and `hashRemoveNode` (the first occurrence). `LookupNode` searches the chain only: MEMFS's `node_ops.lookup` always throws ENOENT, so the table is the only index of the tree.
- `LookupPath` is `lookupPath`'s linkloop: `Walk` is one pass over the components, ending with `Again` on a new path where the code does `continue linkloop` (a symlink, which counts, or `..` at a root, which does not), and `LinkLoop` repeats it until a result or ELOOP after 40 links.
- The actions are `___syscall_mkdirat` (`Mkdir`), `symlinkat` (`Symlink`), `unlinkat` without and with `AT_REMOVEDIR` (`Unlink`, `Rmdir`), `renameat` (`Rename`, with every check of `FS.rename` in the code's order, MEMFS rename's ENOTEMPTY and the `finally` re-hash) and the read-only `stat64`/`newfstatat`/`readlinkat` (`Stat`). Each looks the parent up with `{parent: true}` and fails as the code does; a failed call changes nothing.

 in `PROJECT.json`: a plausible slip in a mapped definition under which TLC finds that property violated. Examples:
- `maybeStopUnwind` stopping while one export is still on the stack;
- `runtimeKeepalivePush` missing;
- `setDataRewindFunc` recording the top export instead of the bottom one;
- poll not completing a zero-timeout call;
- a write that does not drop the bytes it put in the current bucket;
- a partial read that does not advance `roffset`;
- `close` freeing one reference early.

### Bounds

**`MCAsyncify`**:
- `MaxDepth = 2`, so an import can block inside a nested `wasm` or `invoke` frame. An `invoke` frame is an export between main and the import, the case `maybeStopUnwind`'s emptiness test exists for.
- `MaxBlocks = 2`, so a second suspension happens under `doRewind` rather than under `callMain`. This is where the keep-alive balance and the exit-status handling differ.
- `Results = {0, 1}`, so a lost return value is visible.
- `Timeouts = {0, 1}` covers the immediate and the timer paths.
- `Dests = {d1, d2}` and `MaxConns = 2`: two destinations, so a port message can re-key one peer onto the other's key; two WebSockets, so a second peer exists.
- `MaxSends = 2` and `MaxSrvMsgs = 2`: two datagrams each way, the fewest for an order to be wrong.

**`MCPipe`**:
- `BucketSize = 2` with transfer lengths `{0, 1, 2, 3}`. This reaches an exact fill, a spill into a full bucket plus a remainder, a partial bucket read, a multi-bucket read, and the reset of the last bucket.
- `MaxWritten = 6` allows three such rounds.
- `MaxRefs = 3` allows a dup on either end.

**`MCStreams`**:
- `MaxOpenFds = FdLimit = 3`. With 0–2 on the terminal, one slot is left, which is the EMFILE-between-the-two-ends case. After a close or two, `pipe()` fits, and dups and closes of its ends follow.
- `MaxPipes = 1`. A pipe's refcount does not interact with another pipe's.
- `MaxBytes = 1` is enough for reads to tell an empty pipe from a non-empty one.
- `DupArgs = {-1, 0}` covers EINVAL, and a search from the bottom that skips open slots.
- `SetflArgs = {1}` is `O_WRONLY`, the one flag that changes the access mode.
- The file: `MaxOpens = 1` (dups share its position), `OpenArgs` O_RDONLY, O_RDWR and O_WRONLY|O_TRUNC|O_APPEND, `SeekArgs` SEEK_END+1 (to leave a hole) and SEEK_CUR-1 (EINVAL at 0), `TruncArgs = {1}`, `MaxWrites = 3` and `MaxSize = 3`. Three one-byte writes are the fewest that grow the array past `usedBytes` (a copy of 1 byte, then the 256-byte expansion), truncate below a written byte, and write past the end within the capacity: the sequence where stale bytes would show. The written byte alternates between 1 and 2.
- The terminal: `TtyWriteArgs` are `<<65>>` (a partial line), `<<0>>` (a NUL) and `<<65, 10, 65>>` (a line and the start of the next), and `MaxTtyWrites = 2`. Two writes reach a line split across calls, and a close of stdin flushing the line stdout left pending.

**`MCDNS`**: `MaxId = 257`, the fewest ids for the 256th hostname (the first whose `id & 65280` is not 0) and the 257th (the first to alias an earlier one).

**`MCFSNodes`**:
- Names `root` (the mountpoint), `a` and `b`, with `HashSize = 2`, so chains hold nodes of different parents and names and `hashRemoveNode` must unlink from the middle.
- Paths `/a`, `/b`, `/a/b`, `/b/a`, `/root/a`, `/a/..` and `/root/../b`. These reach a move into and out of a directory, a rename over an existing entry and over a non-empty directory (ENOTEMPTY), EXDEV across the mount, `..` at the IDBFS root, a rename through a symlink (`/b` a link to `/a`, then `rename(/a, /b/a)`), and a name `..` filed by `symlink`.
- Symlink targets `/a`, `..` and `a`: absolute, relative upward, and a link to itself (`/a` → `a`), which loops to ELOOP at the real limit of 40.
- `MaxNodes = 6`, three nodes beyond the start-up ones. The properties look up every path of up to two components over the names and `..`, and three with `.`, under the three option sets the callers pass (`{parent: true}`, the default, `{follow: true}`).

**`MCIDBFS`**:
- Paths `<<1>>`, `<<2>>` and the four two-level paths under them. This allows a file and a directory, a directory with a child, a rename of a subtree, and a rename into a sibling.
- The store starts with the file `<<1>>`, so populate, rename and delete of a stored entry all happen.
- `MaxOps = 3` operations and `MaxTime = 2`. This gives changes within one millisecond and across two, and a change made between a pass's local set, its cursor and its commit.
- `WriteData = {TRUE, FALSE}` gives writes with bytes and empty writes.
- `Aborts` is TRUE in the `idbfs` run only. The violation runs show their disagreement without it.
- `DotNames = {}` in all runs but `idbfs_rename_cycle`. That run needs a third level (`<<1, 2, 1>>`) under a hidden `<<1, 2>>` and nothing else, so its paths are the three on that line.

F_DUPFD's search stops at `FdLimit`. In the code it has no upper bound, so descriptors above `MAX_OPEN_FDS` are not reached here; see the hazard at line 4304.

`8192` bytes per bucket changes no branch taken, only how many bytes each branch needs.

### Fairness

In `Asyncify`, the engine's steps get weak fairness: `UnwindStep`, `RewindStep`, `Resume`, `Wake` and `TimerFire`. They are synchronous JavaScript, or a timer or microtask the event loop eventually runs. The guest, the server and the network events get no fairness: nothing makes a peer send data or a WebSocket open.

In `IDBFS`, `TimerFire`, `RemoteSetRead` and `Commit` get weak fairness: a timer, an IndexedDB cursor event and a transaction's completion are delivered by the event loop. `Abort` gets none, since it is a fault. The guest and the page get none either, since they may stop. The IDBFS cfgs turn deadlock checking off because, once the operation budget is spent and every pass has finished, nothing applies.

`Pipe` and `Streams` have no liveness property. `Streams` checks deadlock, because some operation always applies (a close, at least). `Pipe`'s cfg turns deadlock checking off because the pipe really does stop: after both ends are closed, no operation applies.

## Not modelled (yet) and the plan

Next sittings, in this order:
1. **Streams**, the rest: F_DUPFD past `MAX_OPEN_FDS`, and poll over pipe descriptors. `SetFl` runs in `streams` and reaches a read-only stream made writable (`flags |=`, hazard at 4323), but no run states that the access mode is fixed.
2. **FSNodes**, the rest: regular files and `open` with `O_CREAT` through `noent_okay` symlinks, getdents' snapshot (with `Streams`), and an abstract tree of names that `FSNodes` refines. Two code bugs it reaches have no run yet: an entry named `..` filed by `symlink`/`rename` (hazard at 2332), and the rename cycle through a symlink (hazard at 2366).
3. **MEMFS**, the rest: directory streams and `getdents`' snapshot. The build imports no mmap, only `__munmap_js`.
4. **SOCKFS/DNS**, the rest: `getpeername`, `ioctl(FIONREAD)`, and the socket descriptor under dup and close. `DNS` has no passing run: the run slots are spent; a run that a hostname among the first 255 round-trips would hold.
5. **PATH**: done in `PathOps`, except `splitPath`'s regular expression and the trailing slash, which no caller here reads.
6. **TTY**, the rest: reads through `get_char` (the build's stdin always returns null), `ioctl` on the terminal (`TCGETS`, `TIOCGWINSZ`), and `FS.quit`'s flush at exit.

Reached by the models but without a run of their own (each would be a violation run, and the twelve runs are spent; `PROJECT.json` lists them as hazards):
- `pipe()` failing with EMFILE on its write end and leaving the read end open with refcnt 2 (`Streams`' `SysPipe`, line 4666);
- an entry named `..` filed by `symlink` or `rename`, which no lookup reaches (`FSNodes`, line 2332);
- `rename` moving a directory under itself through a symlink (`FSNodes`, line 2366);
- `Filesystem.delete` unlinking `/root`'s names as bare names, relative to `/` (`filesystem.ts:182`; `FSNodes` has both mounts but no `delete` action).

Left out for good:
- the settings menu (`settings-menu.tsx`, UI only);
- the FlatBuffers message class (`application-exit.ts`, generated encoding);
- marshalling helpers that only copy bytes between guest memory and JS values.
