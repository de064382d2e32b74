\* Two tasks, a retry, a queue of one place, one worker, started three times.
CONSTANTS
    N = 2
    Priority <- NewestFirst
    Token = {1}
    Sync = {1}
    Retries = 1
    MaxConcurrent = 1
    MaxQueueSize = 1
    MaxStarts = 3
SPECIFICATION FairSpec
INVARIANTS
    OnePlace
    NoWorkerAfterStop
PROPERTIES
    OnlyCancellationLoses
    NotFoundIsTrue
    PendingIsFinished
    StopEnds
CHECK_DEADLOCK FALSE
