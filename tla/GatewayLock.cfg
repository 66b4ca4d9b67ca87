SPECIFICATION LockSpec
CONSTANTS
    Starts <- ThreeStarts
    Foreign = Foreign
    MaxRetries = 1
    None = None
INVARIANTS LockInv FailsForAReason
PROPERTIES StartEnds
CHECK_DEADLOCK FALSE
