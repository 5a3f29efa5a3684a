SPECIFICATION Spec
CONSTANTS
    None = None
    up = up
    down = down
    upStream = upStream
    downStream = downStream
    c1 = c1
    Partitions = {up, down, mid}
    Streams = {}
    Bound <- SharedBound
    Deps <- SharedDeps
    Routes <- Loop
    Lifecycle = {up}
    Cohorts = {{up, mid}}
    Reactive = {up, mid}
    Grid <- DownGrid
    Lag <- UpLag
    Commands = {c1}
    Target <- ToUp
    Rejecting = {}
    InitialMark <- ZeroMark
    TimerOwners = {up}
    MaxNs = 2
    MaxMicro = 3
INVARIANTS CohortsTogether
PROPERTIES CommonSeal
CHECK_DEADLOCK FALSE
