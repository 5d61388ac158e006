CONSTANTS
  Paths <- MCPaths
  NoEntry = NoEntry
  DotNames = {}
  InitStore <- MCInitStore
  AutoPersist = TRUE
  Aborts = FALSE
  MaxOps <- MCMaxOps
  MaxTime <- MCMaxTime
  WriteData <- MCWriteData
SPECIFICATION AutoSpec
PROPERTY ContentsPersisted
CHECK_DEADLOCK FALSE
