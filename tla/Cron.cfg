SPECIFICATION Spec
CONSTANTS
  Jobs = {1, 2, 3}
  Stored <- Files
  Schedules <- Added
  Outcomes = {"ok", "error"}
  Modes = {"due", "force"}
  Every = 2
  Backoff = 1
  MaxAttempts = 1
  MaxImmediate = 1
  Stagger = 1
  Stuck = 1
  Workers = 1
  MaxTime = 3
  MaxServices = 2
  MaxEvents = 3
INVARIANTS
  Inv
  NeverAsleep
PROPERTIES
  DueSlotsKept
  OnceIsOnce
CHECK_DEADLOCK FALSE
