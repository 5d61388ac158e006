CONSTANTS
  Paths <- MCDotPaths
  NoEntry = NoEntry
  DotNames = {2}
  InitStore <- MCEmptyStore
  AutoPersist = TRUE
  Aborts = FALSE
  MaxOps <- MCMaxOps
  MaxTime <- MCMaxTime
  WriteData <- MCWriteData
SPECIFICATION AutoSpec
INVARIANT NoRenameLosesEntries
CHECK_DEADLOCK FALSE
