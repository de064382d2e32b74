SPECIFICATION AsyncSpec
\* A transaction, its timeout task, and cancellation.
CONSTANTS
    Task = {"body", "timer"}
    MaxCalls = 0
PROPERTY LeavingEnds
CHECK_DEADLOCK FALSE
