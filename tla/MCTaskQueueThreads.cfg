\* A synchronous function with a timeout and a retry, one worker.
CONSTANTS
    N = 1
    Priority <- NewestFirst
    Token = {1}
    Sync = {1}
    Retries = 1
    MaxConcurrent = 1
    MaxQueueSize = 1
    MaxStarts = 1
SPECIFICATION Spec
INVARIANT
    CallsAtMostMax
CHECK_DEADLOCK FALSE
