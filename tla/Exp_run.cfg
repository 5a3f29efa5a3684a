SPECIFICATION FairSpec
CONSTANTS
    Total = 3
    Jobs = 2
INVARIANTS OneRowEach SuccessIsReal SurvivorsReported QuietWhenClosed
PROPERTIES WritersUntouched SiblingsFirst CloseReturns
CHECK_DEADLOCK FALSE
