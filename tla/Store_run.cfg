SPECIFICATION Spec
CONSTANTS
    Owners = {"service", "experiment"}
    MaxRecords = 4
INVARIANTS RecoveryKeepsAcked ViewerServed SettledIsAcked FailureSettled
PROPERTIES PromiseKept
CHECK_DEADLOCK FALSE
