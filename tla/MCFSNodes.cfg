CONSTANTS
  Names <- MCNames
  DotNames = {}
  MountPoint = "root"
  NameHash <- MCNameHash
  HashSize = 2
  MaxNodes = 6
  SymloopMax = 40
  NoNode = NoNode
  PathArgs <- MCPathArgs
  TargetArgs <- MCTargetArgs
  LookupArgs <- MCLookupArgs
SPECIFICATION Spec
INVARIANT TypeOK
INVARIANT HashMatchesContents
INVARIANT LookupPathNamesNode
INVARIANT NormalizeMatchesReference
INVARIANT RelativeRoundTrips
