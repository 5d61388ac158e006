CONSTANTS
  BucketSize <- MCBucketSize
  Lengths <- MCLengths
  MaxWritten <- MCMaxWritten
  MaxRefs <- MCMaxRefs
  EAGAIN = EAGAIN
  NoBuckets = NoBuckets
SPECIFICATION Spec
CHECK_DEADLOCK FALSE
PROPERTY EmptyReadAfterWritersCloseIsEOF
