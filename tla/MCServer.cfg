SPECIFICATION FairSpec
CONSTANTS
  Groups = 3
  Period = 2
  MaxConns = 3
  MaxDrift = 1
  MaxUploads = 2
INVARIANTS
  LoopListens
  CrashNeedsFailedInit
  RowIsFresh
PROPERTIES
  FewestClients
  SavesGoOn
CHECK_DEADLOCK FALSE
