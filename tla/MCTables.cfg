SPECIFICATION TablesSpec
\* Three transactions, each its own name; a cache of two; two renters.
CONSTANTS
    N = 3
    MaxOps = 1
    Name <- ThreeNames
    name <- OwnNames
    a = a
    b = b
    c = c
    Key = {a, b, c}
    TypeKey <- ByType
    Dep = {d1, d2}
    MaxSize = 2
    Policy = "lru"
    Renter = {r1, r2}
    MaxInterpreters = 2
    MaxCreated = 3
SYMMETRY Alike
INVARIANTS
    InTransactionIsTrue
    IndexesAgree
    OnePlaceEach
    SlotsCount
PROPERTIES
    KeepsContract
CHECK_DEADLOCK FALSE
