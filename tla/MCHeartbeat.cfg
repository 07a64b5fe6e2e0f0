SPECIFICATION Spec
CONSTANTS
  Beat = 2
  DataEvery = 3
  PiLimit = 8
  HbLimit = 8
  Pass = 1
  Joining = 1
  Delay = 0
  MaxLost = 1
  MaxOutages = 1
INVARIANTS
  NoFalseAlarm
  SilentAreDropped
  PiNotices
PROPERTIES
  OnlyTheSilent
