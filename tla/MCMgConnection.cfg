SPECIFICATION Spec
CONSTANTS
  Kinds = {"get", "miss", "post", "old", "odd", "junk", "ws"}
  MaxRequests = 2
  FileLen = 3
  BlockSize = 2
  MaxRequestSize = 1
INVARIANTS
  ConnTypeOK
  BodiesFramed
  LoneGetServed
PROPERTIES
  DrainedBeforeClose
  ConnectionEnds
CHECK_DEADLOCK FALSE
