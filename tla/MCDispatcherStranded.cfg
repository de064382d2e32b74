SPECIFICATION FairSpec
CONSTANTS
    Caller = {"c"}
    Stopper = {"c"}
    MaxQueueSize = 2
    BatchSize = 2
    MaxEvents = 3
    JoinTimeouts = TRUE
    HandlerStops = FALSE
PROPERTIES
    QueuedIsProcessed
CHECK_DEADLOCK FALSE
