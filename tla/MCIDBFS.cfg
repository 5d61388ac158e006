CONSTANTS
  Paths <- MCPaths
  NoEntry = NoEntry
  DotNames = {}
  InitStore <- MCInitStore
  AutoPersist = TRUE
  Aborts = TRUE
  MaxOps <- MCMaxOps
  MaxTime <- MCMaxTime
  WriteData <- MCWriteData
SPECIFICATION AutoSpec
INVARIANT TypeOK
INVARIANT OnePersistPassInFlight
PROPERTY ChangesPersisted
CHECK_DEADLOCK FALSE
