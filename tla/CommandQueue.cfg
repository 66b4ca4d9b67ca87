SPECIFICATION FairSpec
CONSTANTS
  main = main
  session = session
  t1 = t1
  t2 = t2
  t3 = t3
  t4 = t4
  Lanes = {main, session}
  LaneOf <- LaneOfTask
  Tasks = {t1, t2, t4}
  Requested = {0, 2}
  MaxGeneration = 1
INVARIANTS
  TypeOK
  NoWedgedLane
  WorkConserving
  SlotsAccounted
  DrainedMeansFinished
PROPERTIES
  ImplementsContract
  EveryTaskLeavesQueue
