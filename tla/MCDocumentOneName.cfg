CONSTANTS
    N = 3
    MaxOps = 1
    Name <- ThreeNames
    name <- OneName
SPECIFICATION Spec
INVARIANTS
    InTransactionIsTrue
CHECK_DEADLOCK FALSE
