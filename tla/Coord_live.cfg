SPECIFICATION Spec
CONSTANTS
    None = None
    up = up
    down = down
    upStream = upStream
    downStream = downStream
    c1 = c1
    Partitions = {up, down}
    Streams = {upStream, downStream}
    Bound <- ChainBound
    Deps <- ChainDeps
    Routes <- Chain
    Lifecycle = {}
    Cohorts = {}
    Reactive = {up, down}
    Grid <- NoGrid
    Lag <- NoLag
    Commands = {c1}
    Target <- ToDown
    Rejecting = {upStream}
    InitialMark <- ZeroMark
    TimerOwners = {}
    MaxNs = 2
    MaxMicro = 2
INVARIANTS TypeOK ClosedPrefix NoStrandedCommand LimitCoversOpenInstant GrantsAreLegal WorkAhead
PROPERTIES CommonSeal PromiseKept
CHECK_DEADLOCK FALSE
