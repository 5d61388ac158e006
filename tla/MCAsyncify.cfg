CONSTANTS
  MaxDepth <- MCMaxDepth
  MaxBlocks <- MCMaxBlocks
  Results <- MCResults
  Timeouts <- MCTimeouts
  Dests <- MCDests
  MaxConns <- MCMaxConns
  MaxSends <- MCMaxSends
  MaxSrvMsgs <- MCMaxSrvMsgs
  d1 = d1
  d2 = d2
  NoData = NoData
  NoStatus = NoStatus
SPECIFICATION Spec
INVARIANT TypeOK
INVARIANT SuspensionConsistent
INVARIANT SuspendedKeepsRuntimeAlive
INVARIANT RewindReplaysStack
PROPERTY BlockedCallReturns
INVARIANT ReceivedInOrder
INVARIANT SentExactlyOnce
