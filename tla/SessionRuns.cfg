SPECIFICATION Spec
CONSTANTS
  A = A
  C = C
  a1 = a1
  a2 = a2
  c1 = c1
  Sessions = {A, C}
  Runs = {a1, a2, c1}
  SessionOf <- SessionOfRun
  LaneParam <- LaneOfRun
  FromCron = {c1}
  Requested = {2}
  MaxRestarts = 1
INVARIANTS
  Inv
  OneRunUnlessTimedOut
  CleanRestartIsQuiet
  NoCircularWait
CHECK_DEADLOCK FALSE
