SPECIFICATION StoreSpec
CONSTANTS
  NumSegments = 2
  MaxSegments = 6
  SegLens = {0, 1}
  MaxLen = 2
  SetupMayFail = TRUE
  IndexMayFail = TRUE
  OpenMayFail = TRUE
INVARIANTS
  StoreTypeOK
  IndexNamesKeptSegments
  BoundedWhileIndexed
  ReadyWithThree
  NoLeak
PROPERTIES
  PlaylistSlides
  EndsClean
CHECK_DEADLOCK FALSE
