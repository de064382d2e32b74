\* Two threads dispatch, stop and clear; joins time out; handlers stop.  The
\* one that handles an event and another change the handlers.
SPECIFICATION DispatcherSpec
CONSTANTS
    Caller = {"c", "d"}
    Stopper = {"c", "d"}
    MaxQueueSize = 2
    BatchSize = 2
    MaxEvents = 3
    JoinTimeouts = TRUE
    HandlerStops = TRUE
    Handler = {"h1", "h2"}
    Urgent = {"h2"}
    Changer = {"events", "other"}
    MaxErrors = 1
    MaxChanges = 3
INVARIANTS
    EachEventOnce
    HandlersAreCalled
PROPERTIES
    KeepsChannel
CHECK_DEADLOCK FALSE
