SPECIFICATION FairSpec
CONSTANTS
  m1 = m1
  m2 = m2
  m3 = m3
  m4 = m4
  here = here
  there = there
  RouteOf <- RouteOfMessage
  Messages = {m1, m2, m4}
  Modes = {"collect", "followup"}
  Policies = {"summarize", "old"}
  Cap = 2
  MaxQueues = 2
  MaxClears = 1
INVARIANTS
  Inv
  NothingLostQuiet
  DeliveredOnce
PROPERTIES
  EveryMessageLeaves
CHECK_DEADLOCK FALSE
