SPECIFICATION PcFairSpec
CONSTANTS
  MaxPoints = 2
  MaxValue = 2
  MaxPresses = 1
  MaxFlight = 2
INVARIANTS
  CrashNeedsCut
  ChartInOrder
PROPERTIES
  DisplayRecovers
CHECK_DEADLOCK FALSE
