SPECIFICATION FairSpec
CONSTANTS
  Pi = Pi
  PCs = {p1}
  MaxMeasured = 2
  MaxPressed = 1
  MaxFlight = 2
INVARIANTS
  ReplyIsFresh
PROPERTIES
  NeverGoesBack
  PiCatchesUp
CHECK_DEADLOCK FALSE
