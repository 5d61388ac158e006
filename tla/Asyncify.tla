------------------------------ MODULE Asyncify ------------------------------
(***************************************************************************)
(* The suspension engine of src/page/public/linux64/linux-analyzer.js: the *)
(* Asyncify object, the two blocking imports built on it                   *)
(* (_emscripten_sleep and ___syscall_poll, both through handleAsync), the  *)
(* export wrappers, callMain and the exit / keep-alive machinery.          *)
(*                                                                         *)
(* The guest is abstracted to its wasm call stack: a sequence of frames,   *)
(* "main" at the bottom, "wasm" for an ordinary call and "invoke" for a    *)
(* call that goes out through an invoke_* import and back in through an    *)
(* instrumented dynCall export.  Unwinding pops one frame per step and     *)
(* rewinding pushes them back; host events (timers, socket data, the       *)
(* promise continuation that calls wakeUp) only run when the JS stack is   *)
(* empty, i.e. when no guest frame is live.                                *)
(*                                                                         *)
(* poll watches one descriptor, a socket the guest creates with           *)
(* ___syscall_socket and drives with bind, sendto, recvfrom and close (the *)
(* Sockfs module).  The events of the WebSockets it opens, and the server  *)
(* at their other end, are host tasks: the server receives what goes on   *)
(* the wire and sends numbered datagrams, empty ones, port messages and   *)
(* its close.                                                              *)
(***************************************************************************)
EXTENDS Integers, Sequences, SequencesExt, Sockfs

CONSTANTS
  MaxDepth,   \* most guest frames live at once, main included
  MaxBlocks,  \* blocking imports the guest calls in one run
  Results,    \* values main returns or passes to exit()
  Timeouts,   \* poll timeouts the guest passes: -1 infinite, 0, 1 a delay
  MaxSends,   \* datagrams the guest sends
  MaxSrvMsgs, \* frames the server sends, over all connections
  NoData,     \* Asyncify.currData = null
  NoStatus    \* EXITSTATUS before anything assigned it

ASSUME MaxDepth \in Nat \ {0} /\ MaxBlocks \in Nat
ASSUME Timeouts \subseteq {-1, 0, 1}

\* An unwinding wasm function returns zero to its caller.
UnwindDummy == 0

States == {"Normal", "Unwinding", "Rewinding", "Disabled"}
ExportFrames == {"main", "invoke"}
Frames == ExportFrames \cup {"wasm"}
Kinds == {"none", "sleep", "poll"}
NoPending == [kind |-> "none", timeout |-> 0, resolved |-> FALSE, value |-> 0]
\* The server's datagrams are two bytes long, the guest reads one byte at
\* a time and sends one-byte datagrams.
SrvLen == 2

VARIABLES
  state,            \* Asyncify.state
  frames,           \* the guest's live wasm frames
  exportCallStack,  \* Asyncify.exportCallStack
  currData,         \* Asyncify.currData: the id of the allocated unwind buffer
  saved,            \* the frames asyncify recorded in currData while unwinding
  rewindFunc,       \* the bottom export recorded by setDataRewindFunc
  keepalive,        \* runtimeKeepaliveCounter
  exitStatus,       \* EXITSTATUS
  exited,           \* runtimeExited (ABORT is set with it on every exit path)
  mainResult,       \* history: what main returned or passed to exit()
  pending,          \* the promise of the suspended import, and its result
  sockFd,           \* the socket's descriptor: "none" before socket(), "open", "closed"
  sock,             \* the socket (Sockfs's record)
  conns,            \* the WebSockets createPeer opened (Sockfs's connections)
  nConns,           \* WebSockets opened so far
  nSent,            \* datagrams sendto reported sent
  srvMsgs,          \* frames the server has sent
  srvSeq,           \* datagrams the server has sent (their numbers)
  lastGot,          \* the number of the last datagram received from each connection
  caller,           \* JS code that invoked the bottom export: callMain or doRewind
  blocks            \* blocking imports called so far

net == <<sockFd, sock, conns, nConns, nSent, srvMsgs, srvSeq, lastGot>>
vars == <<state, frames, exportCallStack, currData, saved, rewindFunc,
          keepalive, exitStatus, exited, mainResult, pending, net,
          caller, blocks>>

FrameSet == [kind : {"data", "empty", "port", "close"}, n : 0 .. MaxSrvMsgs + MaxSends,
             len : 0 .. 10, to : SUBSET Dests]

TypeOK ==
  /\ state \in States
  /\ frames \in Seq(Frames) /\ Len(frames) <= MaxDepth
  /\ exportCallStack \in Seq(ExportFrames)
  /\ currData \in (1 .. MaxBlocks) \cup {NoData}
  /\ saved \in Seq(Frames)
  /\ rewindFunc \in ExportFrames
  /\ keepalive \in 0 .. 1
  /\ exitStatus \in Results \cup {UnwindDummy, NoStatus}
  /\ exited \in BOOLEAN
  /\ mainResult \in Results \cup {NoStatus}
  /\ pending \in [kind : Kinds, timeout : Timeouts \cup {0},
                  resolved : BOOLEAN, value : 0 .. 1]
  /\ sockFd \in {"none", "open", "closed"}
  /\ sock \in [type : {STREAM, DGRAM}, bound : BOOLEAN, peers : [Dests -> Conns \cup {NoConn}],
               recvq : Seq([conn : Conns, n : 0 .. MaxSrvMsgs, len : 0 .. 10]),
               error : BOOLEAN]
  /\ conns \in [Conns -> [ws : WsStates, key : SUBSET Dests, first : BOOLEAN,
                          sendq : Seq(FrameSet), out : Seq(FrameSet), in : Seq(FrameSet)]]
  /\ nConns \in 0 .. MaxConns
  /\ nSent \in 0 .. MaxSends
  /\ srvMsgs \in 0 .. MaxSrvMsgs
  /\ srvSeq \in 0 .. MaxSrvMsgs
  /\ lastGot \in [Conns -> 0 .. MaxSrvMsgs]
  /\ caller \in {"none", "callMain", "rewind"}
  /\ blocks \in 0 .. MaxBlocks

(***************************************************************************)
(* Mutants: plausible slips in the helpers that follow.                  *)
(***************************************************************************)

\* maybeStopUnwind testing exportCallStack.length <= 1.
StopsUnwindEarly(ecs) ==
  currData /= NoData /\ state = "Unwinding" /\ Len(ecs) <= 1

\* maybeStopUnwind without runtimeKeepalivePush.
NoKeepalivePush(n) == n

\* doRewind without runtimeKeepalivePop.
NoKeepalivePop(n) == n

\* setDataRewindFunc recording the top of the export call stack.
RewindFuncTop(ecs) == ecs[Len(ecs)]

\* poll resolving at once only when a descriptor is ready.
PollCompletesOnlyWhenReady(count, t) == count > 0

(***************************************************************************)
(* Helpers translated from the runtime.                                    *)
(***************************************************************************)

\* runtimeKeepalivePush / runtimeKeepalivePop.
RuntimeKeepalivePush(n) == n + 1
RuntimeKeepalivePop(n) == n - 1

\* maybeStopUnwind, on the export call stack left after a wrapper's pop.
StopsUnwind(ecs) ==
  currData /= NoData /\ state = "Unwinding" /\ ecs = <<>>

\* setDataRewindFunc: the function at the bottom of the export call stack.
RewindFuncOf(ecs) == ecs[1]

\* ___syscall_poll completes during the call when a descriptor is ready or
\* the timeout is zero (if (count || !timeout) asyncPollComplete(count)).
PollCompletesAtCall(count, t) == count > 0 \/ t = 0

\* What ___syscall_poll stores in revents for the socket descriptor when
\* the guest asks for POLLIN: sock_ops.poll's mask & (events | POLLERR |
\* POLLHUP).  A descriptor with no stream gives POLLNVAL, which the same
\* mask clears.
PollRevents(fd, s, cs) ==
  IF fd = "open" THEN Poll(s, cs) \cap {"POLLIN", "POLLHUP"} ELSE {}

\* The guest executes: the engine is Normal and a frame is live.
Running == state = "Normal" /\ frames /= <<>> /\ ~exited

\* The JS stack is empty, so the event loop may run a task or microtask.
Idle == frames = <<>>

\* The bottom export returned ret to its JS caller, with keep-alive count ka.
\* callMain passes it to exitJS, which stores it in EXITSTATUS and exits the
\* runtime unless kept alive.  Under doRewind, callUserCallback drops it
\* and maybeExit calls _exit(EXITSTATUS) unless kept alive.
ReturnToHost(ret, ka) ==
  /\ keepalive' = ka
  /\ exitStatus' = IF caller = "callMain" THEN ret ELSE exitStatus
  /\ exited' = ~(ka > 0)

(***************************************************************************)
(* Actions.                                                                *)
(***************************************************************************)

Init ==
  /\ state = "Normal"
  /\ frames = <<>>
  /\ exportCallStack = <<>>
  /\ currData = NoData
  /\ saved = <<>>
  /\ rewindFunc = "main"
  /\ keepalive = 0
  /\ exitStatus = NoStatus
  /\ exited = FALSE
  /\ mainResult = NoStatus
  /\ pending = NoPending
  /\ sockFd = "none"
  /\ sock = NewSock(DGRAM)
  /\ conns = [c \in Conns |-> Unused]
  /\ nConns = 0
  /\ nSent = 0
  /\ srvMsgs = 0
  /\ srvSeq = 0
  /\ lastGot = [c \in Conns |-> 0]
  /\ caller = "none"
  /\ blocks = 0

\* The host calls callMain: the main export's wrapper pushes it on the
\* export call stack and saves its arguments for a later rewind.
CallMain ==
  /\ caller = "none"
  /\ frames' = <<"main">>
  /\ exportCallStack' = Append(exportCallStack, "main")
  /\ caller' = "callMain"
  /\ UNCHANGED <<state, currData, saved, rewindFunc, keepalive, exitStatus,
                 exited, mainResult, pending, net, blocks>>

\* The guest calls a wasm function, or an invoke_* import that re-enters
\* through an instrumented dynCall export (pushed by its wrapper).
GuestCall(f) ==
  /\ Running
  /\ Len(frames) < MaxDepth
  /\ frames' = Append(frames, f)
  /\ exportCallStack' = IF f = "invoke" THEN Append(exportCallStack, f)
                        ELSE exportCallStack
  /\ UNCHANGED <<state, currData, saved, rewindFunc, keepalive, exitStatus,
                 exited, mainResult, pending, net, caller, blocks>>

\* A frame above main returns; an export wrapper pops its entry and runs
\* maybeStopUnwind, which does nothing in the Normal state.
GuestReturn ==
  /\ Running
  /\ Len(frames) > 1
  /\ frames' = Front(frames)
  /\ exportCallStack' = IF Last(frames) = "invoke" THEN Front(exportCallStack)
                        ELSE exportCallStack
  /\ UNCHANGED <<state, currData, saved, rewindFunc, keepalive, exitStatus,
                 exited, mainResult, pending, net, caller, blocks>>

\* The guest's socket calls, each a synchronous import; one that returns
\* an error changes nothing, and is left out.
SocketStep(fd, r) ==
  /\ Running
  /\ r.err = "ok"
  /\ sockFd' = fd
  /\ sock' = r.sock
  /\ conns' = r.conns
  /\ UNCHANGED <<state, frames, exportCallStack, currData, saved, rewindFunc,
                 keepalive, exitStatus, exited, mainResult, pending, caller,
                 blocks, srvMsgs, srvSeq>>

\* ___syscall_socket(AF_INET, type, 0): createSocket and its stream.
GuestSocket(type) ==
  /\ sockFd = "none"
  /\ SocketStep("open", SRes("ok", NewSock(type), conns, <<>>))
  /\ UNCHANGED <<nConns, nSent, lastGot>>

\* ___syscall_bind: sock_ops.bind.
GuestBind ==
  /\ sockFd = "open"
  /\ SocketStep("open", Bind(sock, conns))
  /\ UNCHANGED <<nConns, nSent, lastGot>>

\* ___syscall_sendto of the next datagram to d: sendmsg, which may open a
\* WebSocket for d (one of MaxConns).
GuestSend(d) ==
  /\ sockFd = "open"
  /\ nSent < MaxSends
  /\ LET r == SendMsg(sock, conns, d, DataFrame(nSent + 1, 1), nConns + 1)
         opened == r.sock.peers /= sock.peers
     IN /\ opened => nConns < MaxConns
        /\ SocketStep("open", r)
        /\ nConns' = IF opened THEN nConns + 1 ELSE nConns
  /\ nSent' = nSent + 1
  /\ UNCHANGED lastGot

\* ___syscall_recvfrom of one byte: recvmsg.
GuestRecv ==
  /\ sockFd = "open"
  /\ LET r == RecvMsg(sock, conns, 1)
     IN /\ SocketStep("open", r)
        /\ lastGot' = IF r.out[1].n > 0 THEN [lastGot EXCEPT ![r.out[1].conn] = r.out[1].n]
                      ELSE lastGot
  /\ UNCHANGED <<nConns, nSent>>

\* _fd_close on the socket: FS.close runs sock_ops.close and frees the slot.
GuestClose ==
  /\ sockFd = "open"
  /\ SocketStep("closed", SockClose(sock, conns))
  /\ UNCHANGED <<nConns, nSent, lastGot>>

\* The guest calls _emscripten_sleep or ___syscall_poll.  handleAsync
\* hands handleSleep an async function that awaits the import's promise, so
\* wakeUp never runs during startAsync: the state becomes Unwinding, an
\* unwind buffer is allocated and the bottom export is recorded.  poll
\* counts the ready descriptors and resolves its promise at once when one
\* is ready or the timeout is zero; otherwise a positive timeout arms a
\* timer.  sleep always arms a timer.
Block(kind, t) ==
  /\ Running
  /\ blocks < MaxBlocks
  /\ LET count == IF PollRevents(sockFd, sock, conns) /= {} THEN 1 ELSE 0
     IN pending' = IF kind = "sleep"
                   THEN [kind |-> "sleep", timeout |-> 0, resolved |-> FALSE,
                         value |-> 0]
                   ELSE [kind |-> "poll", timeout |-> t,
                         resolved |-> PollCompletesAtCall(count, t),
                         value |-> count]
  /\ state' = "Unwinding"
  /\ currData' = blocks + 1
  /\ rewindFunc' = RewindFuncOf(exportCallStack)
  /\ saved' = frames
  /\ blocks' = blocks + 1
  /\ UNCHANGED <<frames, exportCallStack, keepalive, exitStatus, exited,
                 mainResult, net, caller>>

\* One frame unwinds.  An export frame's wrapper pops the export call stack
\* and runs maybeStopUnwind: when the stack is empty the state returns to
\* Normal and the runtime is kept alive.  When main's frame goes, its JS
\* caller sees the dummy return value.
UnwindStep ==
  /\ state = "Unwinding"
  /\ frames /= <<>>
  /\ LET top  == Last(frames)
         ecs  == IF top \in ExportFrames THEN Front(exportCallStack)
                 ELSE exportCallStack
         stop == top \in ExportFrames /\ StopsUnwind(ecs)
         ka   == IF stop THEN RuntimeKeepalivePush(keepalive) ELSE keepalive
     IN /\ frames' = Front(frames)
        /\ exportCallStack' = ecs
        /\ state' = IF stop THEN "Normal" ELSE state
        /\ IF Len(frames) = 1
           THEN ReturnToHost(UnwindDummy, ka)
           ELSE /\ keepalive' = ka
                /\ UNCHANGED <<exitStatus, exited>>
  /\ UNCHANGED <<currData, saved, rewindFunc, mainResult, pending, net,
                 caller, blocks>>

\* A timer armed by sleep or by a poll with a positive timeout fires and
\* resolves the promise with 0.
TimerFire ==
  /\ Idle
  /\ pending.kind = "sleep" \/ (pending.kind = "poll" /\ pending.timeout > 0)
  /\ ~pending.resolved
  /\ pending' = [pending EXCEPT !.resolved = TRUE, !.value = 0]
  /\ UNCHANGED <<state, frames, exportCallStack, currData, saved, rewindFunc,
                 keepalive, exitStatus, exited, mainResult, net, caller,
                 blocks>>

\* The WebSockets' events and the server's sends are tasks: they run when
\* the JS stack is empty, and a resolved promise's continuation (a
\* microtask) runs before any of them.  The socket's stream poll ignores
\* the notify callback poll gave it, so an event never wakes a poll.
NetTask ==
  /\ Idle
  /\ ~pending.resolved
  /\ UNCHANGED <<state, frames, exportCallStack, currData, saved, rewindFunc,
                 keepalive, exitStatus, exited, mainResult, pending, caller,
                 blocks, sockFd, nConns, nSent, lastGot>>

\* A handler's effect on the socket and the connections.
Handled(r) == sock' = r.sock /\ conns' = r.conns

\* The server accepts connection c: onopen runs handleOpen.
WsOpen(c) ==
  /\ conns[c].ws = "connecting"
  /\ Handled(HandleOpen(sock, conns, c))
  /\ UNCHANGED <<srvMsgs, srvSeq>>

\* Connection c fails or its close handshake ends: readyState is CLOSED,
\* onerror (for a failure) and onclose run.
WsCloseDone(c) ==
  /\ conns[c].ws \in {"connecting", "closing", "failing"}
  /\ Handled(WsClosed(sock, conns, c))
  /\ UNCHANGED <<srvMsgs, srvSeq>>

\* The server sends frame f on connection c; nothing follows its close.
ServerSend(c, f) ==
  /\ conns[c].ws = "open"
  /\ srvMsgs < MaxSrvMsgs
  /\ \A i \in 1 .. Len(conns[c].in) : conns[c].in[i] /= CloseFrame
  /\ conns' = [conns EXCEPT ![c].in = Append(@, f)]
  /\ srvMsgs' = srvMsgs + 1
  /\ srvSeq' = IF IsData(f) THEN srvSeq + 1 ELSE srvSeq
  /\ UNCHANGED sock

\* The next frame reaches connection c while it is OPEN: onmessage runs
\* handleMessage, or the close frame starts the closing handshake.
WsMessage(c) ==
  /\ conns[c].ws = "open"
  /\ conns[c].in /= <<>>
  /\ LET f == Head(conns[c].in)
         cs == [conns EXCEPT ![c].in = Tail(@)]
     IN IF f = CloseFrame THEN Handled(SRes("ok", sock, [cs EXCEPT ![c].ws = "closing"], <<>>))
        ELSE Handled(HandleMessage(sock, cs, c, f))
  /\ UNCHANGED <<srvMsgs, srvSeq>>

NetEvent ==
  /\ NetTask
  /\ \E c \in Conns :
       \/ WsOpen(c) \/ WsCloseDone(c) \/ WsMessage(c)
       \/ \E f \in {DataFrame(srvSeq + 1, SrvLen), EmptyFrame, CloseFrame}
                   \cup {PortFrame({d}) : d \in Dests} : ServerSend(c, f)

\* The continuation of handleAsync calls wakeUp with the result: the state
\* becomes Rewinding and doRewind drops the keep-alive and calls, through
\* callUserCallback, the wrapper of the recorded bottom export.
Wake ==
  /\ Idle
  /\ pending.resolved
  /\ ~exited
  /\ state' = "Rewinding"
  /\ keepalive' = RuntimeKeepalivePop(keepalive)
  /\ frames' = <<rewindFunc>>
  /\ exportCallStack' = Append(exportCallStack, rewindFunc)
  /\ caller' = "rewind"
  /\ UNCHANGED <<currData, saved, rewindFunc, exitStatus, exited, mainResult,
                 pending, net, blocks>>

\* Replay re-enters the next recorded frame; an invoke_* import re-enters
\* through a dynCall export whose wrapper pushes it again.
RewindStep ==
  /\ state = "Rewinding"
  /\ Len(frames) < Len(saved)
  /\ LET f == saved[Len(frames) + 1]
     IN /\ frames' = Append(frames, f)
        /\ exportCallStack' = IF f = "invoke" THEN Append(exportCallStack, f)
                              ELSE exportCallStack
  /\ UNCHANGED <<state, currData, saved, rewindFunc, keepalive, exitStatus,
                 exited, mainResult, pending, net, caller, blocks>>

\* Replay reaches the import again: handleSleep in the Rewinding state stops
\* the rewind, frees the buffer and returns the saved result.
Resume ==
  /\ state = "Rewinding"
  /\ frames /= <<>>
  /\ Len(frames) = Len(saved)
  /\ state' = "Normal"
  /\ currData' = NoData
  /\ pending' = NoPending
  /\ UNCHANGED <<frames, exportCallStack, saved, rewindFunc, keepalive,
                 exitStatus, exited, mainResult, net, caller, blocks>>

\* main returns v; its wrapper pops the export call stack.
MainReturn(v) ==
  /\ Running
  /\ frames = <<"main">>
  /\ frames' = <<>>
  /\ exportCallStack' = Front(exportCallStack)
  /\ mainResult' = v
  /\ ReturnToHost(v, keepalive)
  /\ UNCHANGED <<state, currData, saved, rewindFunc, pending, net,
                 caller, blocks>>

\* The guest calls exit(v): exitJS stores EXITSTATUS, exits the runtime and
\* throws ExitStatus through every frame; the wrappers skip their pop
\* because ABORT is set.
GuestExit(v) ==
  /\ Running
  /\ frames' = <<>>
  /\ exitStatus' = v
  /\ exited' = ~(keepalive > 0)
  /\ mainResult' = v
  /\ UNCHANGED <<state, exportCallStack, currData, saved, rewindFunc,
                 keepalive, pending, net, caller, blocks>>

\* After exit nothing runs.
Halted ==
  /\ exited
  /\ UNCHANGED vars

Next ==
  \/ CallMain
  \/ \E f \in {"wasm", "invoke"} : GuestCall(f)
  \/ GuestReturn
  \/ \E type \in {STREAM, DGRAM} : GuestSocket(type)
  \/ GuestBind
  \/ \E d \in Dests : GuestSend(d)
  \/ GuestRecv
  \/ GuestClose
  \/ Block("sleep", 0)
  \/ \E t \in Timeouts : Block("poll", t)
  \/ UnwindStep
  \/ TimerFire
  \/ NetEvent
  \/ Wake
  \/ RewindStep
  \/ Resume
  \/ \E v \in Results : MainReturn(v)
  \/ \E v \in Results : GuestExit(v)
  \/ Halted

\* The engine's own steps are synchronous JS and run to completion; timers
\* and promise continuations are eventually run by the event loop.  The
\* guest and the network are not assumed to do anything.
Fairness ==
  /\ WF_vars(UnwindStep)
  /\ WF_vars(RewindStep)
  /\ WF_vars(Resume)
  /\ WF_vars(Wake)
  /\ WF_vars(TimerFire)

Spec == Init /\ [][Next]_vars /\ Fairness

(***************************************************************************)
(* Properties.                                                             *)
(***************************************************************************)

\* The guest never executes while a suspension is outstanding: whenever a
\* guest frame runs in the Normal state, no unwind buffer is allocated
\* (maybeStopUnwind must not stop the unwind before the bottom export has
\* returned, and handleSleep must clear currData when the rewind ends).
SuspensionConsistent == Running => currData = NoData

\* While the guest is suspended (its stack fully unwound, a buffer
\* outstanding) the runtime is kept alive by exactly one keep-alive count
\* and has not exited, so the wakeUp can still rewind it.
SuspendedKeepsRuntimeAlive ==
  (Idle /\ currData /= NoData /\ state = "Normal")
     => keepalive = 1 /\ ~exited

\* A rewind re-creates the call stack that was unwound: at every step of
\* the replay the live frames are a prefix of the recorded ones, starting
\* with the export at the bottom.
RewindReplaysStack == state = "Rewinding" => IsPrefix(frames, saved)

\* Every sleep and every poll with a finite timeout eventually returns to
\* the guest.
BlockedCallReturns == (pending.kind /= "none") ~> (pending.kind = "none")

\* The exit status the runtime reports is the value main returned or
\* passed to exit().
ExitStatusIsMainResult == exited => exitStatus = mainResult

\* The datagrams sendto reported sent: each is on the wire of exactly one
\* WebSocket or still in its peer's msg_send_queue, and every WebSocket
\* carries them in the order they were sent.  handleOpen's flush, the
\* peers createPeer replaces and the re-keying of a peer must neither
\* send one twice nor put one behind a later one.
Carried(c) ==
  LET q == SelectSeq(conns[c].out \o conns[c].sendq, IsData)
  IN [k \in 1 .. Len(q) |-> q[k].n]

SentExactlyOnce ==
  /\ \A i \in 1 .. nSent :
       \E c \in Conns : /\ \E k \in 1 .. Len(Carried(c)) : Carried(c)[k] = i
                       /\ \A c2 \in Conns \ {c} : \A k \in 1 .. Len(Carried(c2)) : Carried(c2)[k] /= i
  /\ \A c \in Conns : \A k \in 1 .. Len(Carried(c)) - 1 : Carried(c)[k] < Carried(c)[k + 1]

\* The guest receives each connection's datagrams in the order the server
\* sent them, each at most once: what recvfrom last returned from it, then
\* its entries in recv_queue, then its frames in flight are increasing.
\* recvmsg must drop, not push back, the unread rest of a datagram.
Received(c) ==
  LET q == SelectSeq(sock.recvq, LAMBDA e : e.conn = c /\ e.n > 0)
      w == SelectSeq(conns[c].in, IsData)
  IN <<lastGot[c]>> \o [k \in 1 .. Len(q) |-> q[k].n] \o [k \in 1 .. Len(w) |-> w[k].n]

ReceivedInOrder ==
  \A c \in Conns : LET r == Received(c) IN \A k \in 1 .. Len(r) - 1 : r[k] < r[k + 1]

\* Once the guest has closed the socket, every WebSocket it opened is
\* closing or closed: sock_ops.close must reach each one, whatever the
\* port messages did to sock.peers.
ClosedSocketClosesConnections ==
  sockFd = "closed" => \A c \in Conns : conns[c].ws \in {"none", "closing", "failing", "closed"}

=============================================================================
