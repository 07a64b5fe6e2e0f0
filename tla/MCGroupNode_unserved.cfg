SPECIFICATION Spec
CONSTANTS
  Conns = {c1, c2}
  Workers = {w1, w2}
  MaxFd = 2
  MaxPackets = 1
  MaxErrors = 0
  None = None
INVARIANT
  WorkerForClients
CHECK_DEADLOCK FALSE
