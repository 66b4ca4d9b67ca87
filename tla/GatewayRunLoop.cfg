SPECIFICATION FairSpec
CONSTANTS
  Requests = {r1, r2}
  MaxStarts = 3
INVARIANTS
  Inv
  OpenQueueUnlessEarly
PROPERTIES
  ShutdownEnds
  StopEnds
CHECK_DEADLOCK FALSE
