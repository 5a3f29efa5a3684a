SPECIFICATION FairSpec
CONSTANTS
    None = None
    up = up
    down = down
    upStream = upStream
    downStream = downStream
    c1 = c1
    Partitions = {up, down}
    Streams = {downStream}
    Bound <- ChainBound
    Deps <- ChainDeps
    Routes <- Chain
    Lifecycle = {}
    Cohorts = {}
    Reactive = {up, down}
    Grid <- NoGrid
    Lag <- NoLag
    Commands = {c1}
    Target <- ToDown
    Rejecting = {downStream}
    InitialMark <- ZeroMark
    TimerOwners = {}
    MaxNs = 2
    MaxMicro = 2
PROPERTIES RunReturns
CHECK_DEADLOCK FALSE
