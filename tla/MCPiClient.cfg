SPECIFICATION FairSpec
CONSTANTS
  MaxFd = 2
  MaxStarts = 2
  MaxErrors = 1
  MaxIllu = 1
INVARIANTS
  EpollClosed
  CloseNotStuck
  FreedIsUnused
  LearnedIsWritten
PROPERTIES
  CutEnds
  UnconnectedEnds
  IlluCatchesUp
CHECK_DEADLOCK FALSE
