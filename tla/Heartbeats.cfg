SPECIFICATION FairSpec
CONSTANTS
  Agents = {a1, a2}
  All = All
  Reasons = {2}
  MaxRunners = 2
  MaxRequests = 1
  MaxChanges = 1
INVARIANTS
  Inv
  NoWakeLost
PROPERTIES
  HeartbeatsKeepFiring
CHECK_DEADLOCK FALSE
