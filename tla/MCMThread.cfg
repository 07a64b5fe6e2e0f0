SPECIFICATION FairSpec
CONSTANTS
  Callers = {c1, c2, c3}
  Workers = {w1, w2}
  Exiters = {c1, c2}
  SelfExit = TRUE
  MaxPermits = 2
INVARIANTS
  EnoughWakeups
PROPERTIES
  ImplementsSafeThread
CHECK_DEADLOCK FALSE
