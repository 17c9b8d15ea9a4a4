SPECIFICATION HlsSpec
CONSTANTS
  NumSegments = 2
  MaxSegments = 5
  SegLens = {1}
  MaxLen = 2
  SetupMayFail = FALSE
  IndexMayFail = FALSE
  OpenMayFail = FALSE
  Conns = {c1, c2}
  Ranges <- MCNoRanges
  BlockSize = 1
SYMMETRY MCSymmetry
INVARIANTS
  OnlyReaderGetsAll
  HandleLiveWhileNamed
  SharedReadPointer
CHECK_DEADLOCK FALSE
