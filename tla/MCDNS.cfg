CONSTANTS
  Host = Host
  Other = Other
  NoAddr = NoAddr
  MaxId <- MCMaxId
SPECIFICATION Spec
INVARIANT DestIsResolvedHost
