----------------------------- MODULE MCAsyncify -----------------------------
(***************************************************************************)
(* Model-checking instance of Asyncify: a guest stack of up to two frames *)
(* (main and the frame an invoke_* re-entry pushes above it), two          *)
(* suspensions per run (so a second block happens under doRewind rather   *)
(* than callMain), and main returning one of two values.  The socket has   *)
(* two destinations and two WebSockets, so a port message can re-key one   *)
(* peer onto the other's key, and two datagrams go each way, so their      *)
(* order shows.                                                            *)
(***************************************************************************)
EXTENDS Asyncify

CONSTANTS d1, d2

MCMaxDepth == 2
MCMaxBlocks == 2
MCResults == {0, 1}
MCTimeouts == {0, 1}
MCDests == {d1, d2}
MCMaxConns == 2
MCMaxSends == 2
MCMaxSrvMsgs == 2

====
