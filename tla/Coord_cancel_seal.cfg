SPECIFICATION Spec
CONSTANTS
    None = None
    up = up
    down = down
    upStream = upStream
    downStream = downStream
    c1 = c1
    Partitions = {up, down}
    Streams = {}
    Bound <- SharedBound
    Deps <- SharedDeps
    Routes <- Chain
    Lifecycle = {}
    Cohorts = {}
    Reactive = {up, down}
    Grid <- NoGrid
    Lag <- NoLag
    Commands = {c1}
    Target <- ToDown
    Rejecting = {}
    InitialMark <- ZeroMark
    TimerOwners = {}
    MaxNs = 2
    MaxMicro = 3
PROPERTIES SealLeavesNoReservation
CHECK_DEADLOCK FALSE
