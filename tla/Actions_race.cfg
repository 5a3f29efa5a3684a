SPECIFICATION Spec
CONSTANTS
    None = None
    Host = Host
    boss = boss
    worker = worker
    order = order
    task = task
    k1 = k1
    k2 = k2
    Partitions = {boss, worker}
    Rank <- MCRank
    Commands = {order, task}
    Cancels = {k1, k2}
    Source <- MCSource
    Target <- MCTarget
    CancelSources = {boss}
    Supporting = {order, task}
    Lean = FALSE
    MaxOps = 2
SYMMETRY CancelSymmetry
INVARIANTS StatusFollowsDispatch OneCancellation RequesterToldOnce
PROPERTIES ContractKept
CHECK_DEADLOCK FALSE
