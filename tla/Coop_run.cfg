SPECIFICATION FairSpec
CONSTANTS
    None = None
    a = a
    b = b
    c = c
    fire = fire
    flood = flood
    j1 = j1
    j2 = j2
    Fleet <- ThreeVehicles
    Scene <- TwoIncidents
    Jobs = {j1, j2}
    Policies <- AllPolicies
INVARIANTS KnownFaults OnePart
PROPERTIES CustodyKept CooperationEnds
CHECK_DEADLOCK FALSE
