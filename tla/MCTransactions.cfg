\* Up to two operations on each transaction.
CONSTANTS
    N = 3
    MaxOps = 2
SPECIFICATION CallersSpec
INVARIANTS
    OutcomeIsNative
    AllOperationsBeforeCommit
    HandlersMatchOutcome
    CommittedGroupIsWhole
    ReturnedMeansCommitted
    RetryCommitsOnce
    ScopeEndsTransaction
    CancelledBodyNeverCommits
PROPERTIES
    FinalStatus
    RollbackAllLeavesNoneStarted
CHECK_DEADLOCK FALSE
