SPECIFICATION MemorySpec
CONSTANTS
  NumSegments = 2
  MaxSegments = 5
  BufSize = 2
  WriteLens = {1, 2, 3}
  ReadLens <- MCReadLens
  Offsets <- MCOffsets
  MaxInt = 9
  MaxWritten = 6
  ReallocMayFail = TRUE
INVARIANTS
  MemoryTypeOK
  FoundUnlessHit
  WritesFit
  ReadsOnlyWritten
  CompleteReadsSafe
PROPERTIES
  ImplementsQueue
  WalkEnds
CHECK_DEADLOCK FALSE
