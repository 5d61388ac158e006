CONSTANTS
  MaxOpenFds <- MCMaxOpenFds
  FdLimit <- MCFdLimit
  MaxPipes <- MCMaxPipes
  MaxBytes <- MCMaxBytes
  DupArgs <- MCDupArgs
  SetflArgs <- MCSetflArgs
  MaxSize <- MCMaxSize
  MaxOpens <- MCMaxOpens
  OpenArgs <- MCOpenArgs
  SeekArgs <- MCSeekArgs
  TruncArgs <- MCTruncArgs
  MaxWrites <- MCMaxWrites
  TtyWriteArgs <- MCTtyWriteArgs
  MaxTtyWrites <- MCMaxTtyWrites
  NoStream = NoStream
SPECIFICATION Spec
INVARIANT TypeOK
INVARIANT NoUseAfterFree
PROPERTY FileImplementsFileData
INVARIANT TtyOutputExact
