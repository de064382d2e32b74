SPECIFICATION Spec
CONSTANTS
    Caller = {"c1", "c2"}
    Stopper = {}
    MaxQueueSize = 2
    BatchSize = 1
    MaxEvents = 2
    JoinTimeouts = FALSE
    HandlerStops = FALSE
INVARIANTS
    AtMostOneLoop
CHECK_DEADLOCK FALSE
