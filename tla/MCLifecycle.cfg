SPECIFICATION Spec
CONSTANTS
  MaxSignals = 2
  RingUnits = 2
  DeadIsESRCH = TRUE
INVARIANTS
  LifecycleTypeOK
  RingOutlivesUsers
  ServerHasIndex
  BufReadInTime
  ReturnsAlone
PROPERTY ShutsDown
CHECK_DEADLOCK FALSE
