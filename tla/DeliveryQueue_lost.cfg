SPECIFICATION Spec
CONSTANTS
  d1 = d1
  d2 = d2
  Deliveries = {d1}
  Leftover = {}
  Parts <- MCParts
  BestEffort = {d1}
  Observed = {d1}
  MaxRetries = 2
  Backoff <- MCBackoff
  MaxPasses = 1
  MaxFaults = 0
INVARIANT BestEffortNotForgotten
CHECK_DEADLOCK FALSE
