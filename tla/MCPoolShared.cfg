\* The three interpreters of the pool's tests, and three callers.
CONSTANTS
    Renter = {r1, r2, r3}
    MaxInterpreters = 3
    MaxCreated = 3
SPECIFICATION PoolSpec
INVARIANTS
    RentedOnce
CHECK_DEADLOCK FALSE
