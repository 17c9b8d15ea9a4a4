SPECIFICATION Spec
CONSTANTS
  BufferSize = 6
  PacketSize = 2
  WriteLens = {0, 2, 3, 4}
  ReadLens = {1, 2, 3}
  TargetSize = 3
  MaxStream = 13
INVARIANTS
  TypeOK
  OrderedUntilTorn
  ConservedUntilBrimmed
PROPERTY ImplementsByteQueue
CHECK_DEADLOCK FALSE
