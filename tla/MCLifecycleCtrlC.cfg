SPECIFICATION Spec
CONSTANTS
  MaxSignals = 2
  RingUnits = 2
  DeadIsESRCH = TRUE
PROPERTY CtrlCTerminates
CHECK_DEADLOCK FALSE
