SPECIFICATION FairSpec
CONSTANTS
  Agents = {a1}
  All = All
  Reasons = {2}
  MaxRunners = 1
  MaxRequests = 0
  MaxChanges = 2
PROPERTIES
  EnableTurnsBackOn
CHECK_DEADLOCK FALSE
