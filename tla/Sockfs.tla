------------------------------- MODULE Sockfs -------------------------------
(***************************************************************************)
(* SOCKFS of src/page/public/linux64/linux-analyzer.js as the browser      *)
(* build reaches it: createSocket, websocket_sock_ops bind, sendmsg,       *)
(* recvmsg, poll and close, and the WebSocket handlers handlePeerEvents    *)
(* installs (handleOpen, handleMessage, onerror).  wasmImports has no      *)
(* ___syscall_connect, so sock.daddr is never set: a stream socket never   *)
(* has a peer, and a datagram socket opens one WebSocket per destination   *)
(* the guest sends to (createPeer), keyed in sock.peers by address:port.   *)
(* listen throws EOPNOTSUPP outside Node, so there is no server side.      *)
(*                                                                         *)
(* A socket is a record (its type, whether bind set sport, sock.peers as a *)
(* function from destinations to connection numbers, sock.recv_queue and   *)
(* sock.error).  Each WebSocket createPeer makes is a connection: its      *)
(* readyState ("failing" is CLOSING reached by close() on a CONNECTING     *)
(* socket, which fires error before close), the key its peer was last      *)
(* added under, handlePeerEvents' `first`, the peer's msg_send_queue, the  *)
(* frames the server has received on it and the server's frames in flight. *)
(* Payloads are abstracted to frames: a datagram by its number and length, *)
(* an empty one, a port message naming the port it announces, a close.     *)
(***************************************************************************)
EXTENDS Integers, Sequences, SequencesExt

CONSTANTS
  Dests,     \* destination address:port pairs, all of one host
  MaxConns   \* WebSockets createPeer may open

STREAM == 1
DGRAM == 2
NoConn == 0
Conns == 1 .. MaxConns
WsStates == {"none", "connecting", "open", "closing", "failing", "closed"}
Closing(ws) == ws \in {"closing", "failing", "closed"}   \* CLOSING or CLOSED

Frame(k, n, len, to) == [kind |-> k, n |-> n, len |-> len, to |-> to]
DataFrame(n, len) == Frame("data", n, len, {})
EmptyFrame == Frame("empty", 0, 0, {})
CloseFrame == Frame("close", 0, 0, {})
\* The ten-byte port message ([255,255,255,255,'p','o','r','t',hi,lo]); a
\* bound socket's own names no destination.
PortFrame(to) == Frame("port", 0, 10, to)
IsData(f) == f.kind = "data"

Unused == [ws |-> "none", key |-> {}, first |-> FALSE, sendq |-> <<>>,
           out |-> <<>>, in |-> <<>>]

\* createSocket's sock: no peers, nothing queued, no error.
NewSock(type) ==
  [type |-> type, bound |-> FALSE, peers |-> [d \in Dests |-> NoConn],
   recvq |-> <<>>, error |-> FALSE]

\* An outcome: errno or "ok", the socket and the connections after, and
\* what recvmsg returned.
SRes(e, s, cs, x) == [err |-> e, sock |-> s, conns |-> cs, out |-> x]

(***************************************************************************)
(* Mutants: plausible slips in the operators that follow.                  *)
(***************************************************************************)

\* handleOpen sending the queued messages without shifting them off.
HandleOpenKeepsQueue(s, cs, c) ==
  SRes("ok", s, [cs EXCEPT ![c].ws = "open", ![c].out = @ \o cs[c].sendq], <<>>)

\* recvmsg pushing back the unread rest of a datagram too (the TCP branch
\* without its sock.type === 1 test).
RecvMsgPushesBackDatagram(s, cs, len) ==
  IF s.recvq = <<>>
  THEN SRes(IF s.type = STREAM THEN "ENOTCONN" ELSE "EAGAIN", s, cs, <<>>)
  ELSE LET h == Head(s.recvq)
           rest == IF len < h.len THEN <<[h EXCEPT !.len = h.len - len]>> ELSE <<>>
       IN SRes("ok", [s EXCEPT !.recvq = rest \o Tail(@)], cs, <<h>>)

(***************************************************************************)
(* websocket_sock_ops.                                                     *)
(***************************************************************************)

\* bind: a second bind is EINVAL; otherwise sport is set (a datagram
\* socket's listen throws EOPNOTSUPP in the browser, which bind swallows).
Bind(s, cs) ==
  IF s.bound THEN SRes("EINVAL", s, cs, <<>>)
  ELSE SRes("ok", [s EXCEPT !.bound = TRUE], cs, <<>>)

\* createPeer(sock, d) on connection c: a new WebSocket (CONNECTING) whose
\* peer addPeer files under d, replacing whatever was there; a bound
\* datagram socket queues its port message first.
CreatePeer(s, cs, d, c) ==
  SRes("ok", [s EXCEPT !.peers[d] = c],
       [cs EXCEPT ![c] = [Unused EXCEPT !.ws = "connecting", !.key = {d}, !.first = TRUE,
                           !.sendq = IF s.type = DGRAM /\ s.bound THEN <<PortFrame({})>>
                                     ELSE <<>>]], <<>>)

\* sendmsg of frame f to d (sendto with an address), c the number a new
\* WebSocket would take.  A stream socket uses sock.daddr, which is never
\* set: ENOTCONN.  A datagram socket sends on an OPEN peer; otherwise it
\* makes a peer when there is none or it is closing, queues the frame on
\* the peer and reports it sent.
SendMsg(s, cs, d, f, c) ==
  LET p == s.peers[d]
  IN IF s.type = STREAM THEN SRes("ENOTCONN", s, cs, <<>>)
     ELSE IF p /= NoConn /\ cs[p].ws = "open"
     THEN SRes("ok", s, [cs EXCEPT ![p].out = Append(@, f)], <<>>)
     ELSE IF p = NoConn \/ Closing(cs[p].ws)
     THEN LET r == CreatePeer(s, cs, d, c)
          IN SRes("ok", r.sock, [r.conns EXCEPT ![c].sendq = Append(@, f)], <<>>)
     ELSE SRes("ok", s, [cs EXCEPT ![p].sendq = Append(@, f)], <<>>)

\* handleOpen on connection c: its queue is flushed in order (socket.send
\* does not throw on an OPEN WebSocket).
HandleOpen(s, cs, c) ==
  SRes("ok", s, [cs EXCEPT ![c].ws = "open", ![c].out = @ \o cs[c].sendq,
                           ![c].sendq = <<>>], <<>>)

\* handleMessage of frame f on connection c: an empty one is dropped
\* before `first` is cleared; a first message that is a port message
\* re-keys the peer (removePeer deletes whatever is filed under its old
\* key, addPeer files it under the announced one); anything else joins
\* recv_queue with its connection.
HandleMessage(s, cs, c, f) ==
  IF f.kind = "empty" THEN SRes("ok", s, cs, <<>>)
  ELSE IF cs[c].first /\ f.kind = "port"
  THEN SRes("ok", [s EXCEPT !.peers = [d \in Dests |-> IF d \in f.to THEN c
                                                      ELSE IF d \in cs[c].key THEN NoConn
                                                      ELSE @[d]]],
            [cs EXCEPT ![c].first = FALSE, ![c].key = f.to], <<>>)
  ELSE SRes("ok", [s EXCEPT !.recvq = Append(@, [conn |-> c, n |-> f.n, len |-> f.len])],
            [cs EXCEPT ![c].first = FALSE], <<>>)

\* recvmsg(len): with nothing queued a stream socket finds no peer for
\* daddr (ENOTCONN) and a datagram socket throws EAGAIN; else the first
\* entry is shifted off and up to len of its bytes returned.  Only a
\* stream socket pushes back an unread rest: a datagram's is dropped.
RecvMsg(s, cs, len) ==
  IF s.recvq = <<>>
  THEN SRes(IF s.type = STREAM THEN "ENOTCONN" ELSE "EAGAIN", s, cs, <<>>)
  ELSE LET h == Head(s.recvq)
           rest == IF s.type = STREAM /\ len < h.len THEN <<[h EXCEPT !.len = h.len - len]>>
                   ELSE <<>>
       IN SRes("ok", [s EXCEPT !.recvq = rest \o Tail(@)], cs, <<h>>)

\* sock_ops.poll, as the set of bits it sets.  dest is getPeer(sock,
\* daddr, dport) for a stream socket and null for a datagram one; with no
\* daddr it is null for both.
Poll(s, cs) ==
  LET dest == NoConn
      closed == dest /= NoConn /\ Closing(cs[dest].ws)
      readable == s.recvq /= <<>> \/ dest = NoConn \/ closed
      writable == dest = NoConn \/ cs[dest].ws = "open"
  IN {b \in {"POLLIN", "POLLOUT", "POLLHUP"} :
        \/ b = "POLLIN" /\ readable
        \/ b = "POLLOUT" /\ writable
        \/ b = "POLLHUP" /\ closed}

\* sock_ops.close: socket.close() on every peer in sock.peers (CONNECTING
\* fails, OPEN starts the closing handshake) and removePeer.  A WebSocket
\* no longer filed there is not closed.
SockClose(s, cs) ==
  LET filed == {s.peers[d] : d \in Dests} \ {NoConn}
  IN SRes("ok", [s EXCEPT !.peers = [d \in Dests |-> NoConn]],
          [c \in Conns |-> IF c \in filed
                           THEN [cs[c] EXCEPT !.ws = CASE @ = "connecting" -> "failing"
                                                       [] @ = "open" -> "closing"
                                                       [] OTHER -> @]
                           ELSE cs[c]], <<>>)

\* Connection c reaches CLOSED: a failed one (refused, or closed while
\* connecting) fires onerror first, which sets sock.error = ECONNREFUSED;
\* frames still in flight are lost.
WsClosed(s, cs, c) ==
  SRes("ok", [s EXCEPT !.error = @ \/ cs[c].ws \in {"connecting", "failing"}],
       [cs EXCEPT ![c].ws = "closed", ![c].in = <<>>], <<>>)

=============================================================================
