SPECIFICATION ServicesSpec
\* One caller of the dispatcher, whose stops wait for the thread to end.
CONSTANTS
    Caller = {"c"}
    Stopper = {"c"}
    MaxQueueSize = 2
    BatchSize = 2
    MaxEvents = 5
    JoinTimeouts = FALSE
    HandlerStops = FALSE
    Task = {"body", "timer", "helper"}
    MaxCalls = 3
    Name = {"p", "q", "r"}
    Extension = {"x", "y"}
    DependsOn <- YOnX
    MaxManagerCalls = 4
    Jobs = 2
    MaxParallel = 1
    RetryCount = 1
    Sender = {"s"}
    MaxRequests = 2
    Window = 4
    MaxRetries = 2
    MaxTime = 14
INVARIANTS
    AtMostOneLoop
    StoppedIsQuiet
    OrderIsRight
    ActiveIsListed
    RateIsKept
    CallTellsTheEnd
PROPERTIES
    InOrder
    QueuedIsProcessed
    OneOutcome
    LockServes
    BatchEnds
    CancelIsHeard
CHECK_DEADLOCK FALSE
