SPECIFICATION FairSpec
CONSTANTS
  Conns = {c1, c2}
  Workers = {w1, w2}
  MaxFd = 2
  MaxPackets = 1
  MaxErrors = 1
  None = None
INVARIANTS
  NoLeak
  WorkerUntilFault
  TnodeForWorker
  OneWorker
  ClientOfEvent
  AimedAtAsker
PROPERTIES
  SomeoneAnswered
  SomeoneDropped
  IdleStops
  AddReturns
CHECK_DEADLOCK FALSE
