SPECIFICATION FairSpec
CONSTANTS
    Owners = {"service"}
    MaxRecords = 4
PROPERTIES ObservedFailureStands
CHECK_DEADLOCK FALSE
