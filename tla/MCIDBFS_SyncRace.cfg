CONSTANTS
  Paths <- MCPaths
  NoEntry = NoEntry
  DotNames = {}
  InitStore <- MCInitStore
  AutoPersist = FALSE
  Aborts = FALSE
  MaxOps <- MCMaxOps
  MaxTime <- MCMaxTime
  WriteData <- MCWriteData
SPECIFICATION PageSpec
INVARIANT SyncedTreeWhenIdle
CHECK_DEADLOCK FALSE
