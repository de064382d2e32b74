CONSTANTS
    N = 2
    MaxOps = 1
SPECIFICATION GroupSpec
INVARIANTS
    FailedGroupIsUndone
CHECK_DEADLOCK FALSE
