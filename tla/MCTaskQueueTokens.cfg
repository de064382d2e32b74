\* A synchronous function with a token, running when stop() is called.
CONSTANTS
    N = 1
    Priority <- NewestFirst
    Token = {1}
    Sync = {1}
    Retries = 1
    MaxConcurrent = 1
    MaxQueueSize = 1
    MaxStarts = 1
SPECIFICATION Spec
PROPERTY
    StopCancelsTokens
CHECK_DEADLOCK FALSE
