SPECIFICATION HlsSpec
CONSTANTS
  NumSegments = 2
  MaxSegments = 5
  SegLens = {1}
  MaxLen = 2
  SetupMayFail = FALSE
  IndexMayFail = FALSE
  OpenMayFail = FALSE
  Conns = {c1}
  Ranges <- MCRanges
  BlockSize = 1
INVARIANTS
  HlsTypeOK
  RangeFromStart
PROPERTY RepliesEnd
CHECK_DEADLOCK FALSE
