CONSTANTS
  MaxDepth <- MCMaxDepth
  MaxBlocks <- MCMaxBlocks
  Results <- MCResults
  Timeouts <- MCTimeouts
  Dests <- MCDests
  MaxConns <- MCMaxConns
  MaxSends <- MCMaxSends
  MaxSrvMsgs <- MCMaxSrvMsgs
  d1 = d1
  d2 = d2
  NoData = NoData
  NoStatus = NoStatus
SPECIFICATION Spec
INVARIANT ExitStatusIsMainResult
