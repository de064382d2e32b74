\* Two tasks, as two jobs of a batch that run in parallel.
CONSTANTS
    Sender = {s1, s2}
    MaxRequests = 2
    Window = 4
    MaxRetries = 2
    MaxTime = 9
SPECIFICATION ClientSpec
INVARIANTS
    RateIsKept
CHECK_DEADLOCK FALSE
