SPECIFICATION Spec
CONSTANTS
  d1 = d1
  d2 = d2
  Deliveries = {d1, d2}
  Leftover = {d2}
  Parts <- MCParts
  BestEffort = {}
  Observed = {}
  MaxRetries = 2
  Backoff <- MCBackoff
  MaxPasses = 2
  MaxFaults = 1
INVARIANTS
  Inv
  NothingForgotten
  DoubledForAReason
  SettledForGood
PROPERTIES
  BackoffKept
  ReadyIsReached
CHECK_DEADLOCK FALSE
