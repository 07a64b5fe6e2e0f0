SPECIFICATION Spec
CONSTANTS
  Header = 2
  Lengths <- AnyLength
  RecvSize = 6
  BufSize = 10
  MaxPackets = 5
INVARIANTS
  BufferFits
  InOrder
  NoneWaits
CHECK_DEADLOCK FALSE
