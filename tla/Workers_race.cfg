SPECIFICATION FairSpec
CONSTANTS
    Calls = {a, b}
INVARIANTS NotClosedInUse
PROPERTIES CallsKept DeadIsReleased CallsReturn StopIsEnforced
CHECK_DEADLOCK FALSE
