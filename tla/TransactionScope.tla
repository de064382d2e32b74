-------------------------- MODULE TransactionScope --------------------------
(***************************************************************************)
(* How callers use a Transaction: the context manager (__enter__ and       *)
(* __exit__, and their async twins), transaction_scope(), async_transaction*)
(* with a cancellation token, and retry_transaction(), which runs its      *)
(* operation in a fresh scope until one attempt does not raise.            *)
(*                                                                         *)
(* Attempt k uses transaction k of Transaction.tla.  kind says which of the*)
(* three it is: only "retry" has more than one attempt, only "async" a     *)
(* token, and the operation given to retry_transaction() does not see the  *)
(* transaction.                                                            *)
(***************************************************************************)
EXTENDS Transaction

ASSUME AttemptsAssumption == N # 0   \* max_retries is positive

VARIABLES
    kind,       \* "scope", "async" or "retry"
    auto,       \* options.auto_commit
    attempt,    \* the attempt running
    at,         \* where the caller is
    raising,    \* the exception in flight: none, Exception, BaseException
    outcome,    \* what the whole call did: "none" while it runs
    cancelled   \* the token: "no", or what the transaction was doing then

scope == <<kind, auto, attempt, at, raising, outcome, cancelled>>
scopeVars == <<vars, scope>>

ScopeInit ==
    /\ Init
    /\ kind \in {"scope", "async", "retry"}
    /\ auto \in IF kind = "retry" THEN {TRUE} ELSE BOOLEAN
    /\ attempt = 1
    /\ at = "enter"
    /\ raising = "none"
    /\ outcome = "none"
    /\ cancelled = "no"

Attempts == IF kind = "retry" THEN N ELSE 1

Finish(result) == at' = "done" /\ outcome' = result /\ UNCHANGED attempt

(* Mutant: the last attempt's exception is not raised again.               *)
RaiseSwallowed(exception) ==
    /\ raising' = "none"
    /\ \/ /\ exception = "Exception" /\ attempt < Attempts
          /\ attempt' = attempt + 1
          /\ at' = "enter"
          /\ UNCHANGED outcome
       \/ /\ exception # "Exception" \/ attempt = Attempts
          /\ Finish("returned")
    /\ UNCHANGED <<kind, auto, cancelled>>

(* The attempt ends with an exception.  retry_transaction() catches every  *)
(* Exception, not KeyboardInterrupt or CancelledError.                     *)
Raise(exception) ==
    /\ raising' = "none"
    /\ \/ /\ exception = "Exception" /\ attempt < Attempts
          /\ attempt' = attempt + 1
          /\ at' = "enter"
          /\ UNCHANGED outcome
       \/ /\ exception # "Exception" \/ attempt = Attempts
          /\ Finish("raised")
    /\ UNCHANGED <<kind, auto, cancelled>>

-----------------------------------------------------------------------------
(* __enter__: a start() that raises leaves no exit to run.                 *)
EnterScope ==
    /\ at = "enter"
    /\ StartOk(attempt)
    /\ at' = "body"
    /\ UNCHANGED <<kind, auto, attempt, raising, outcome, cancelled>>

EnterRaises ==
    /\ at = "enter"
    /\ StartRaises(attempt)
    /\ Raise("Exception")

(* The body uses the transaction it was given: it may also end it.         *)
InBody == at = "body" /\ kind # "retry"

(* Mutant: the context manager's exit is not run for a failed body.        *)
BodyRaisesUnseen ==
    /\ at = "body"
    /\ phase[attempt] = "idle"
    /\ raising' = "none"
    /\ Raise("Exception")
    /\ UNCHANGED vars

BodyCall ==
    /\ InBody
    /\ \/ AddOperation(attempt) \/ Rollback(attempt)
       \/ BeginCommit(attempt) \/ CommitStep(attempt)
    /\ UNCHANGED scope

(* Operations called by the commit() of __exit__ may call it too.          *)
ExitCall ==
    /\ at = "commit"
    /\ phase[attempt] = "operation"
    /\ AddOperation(attempt) \/ Rollback(attempt)
    /\ UNCHANGED scope

(* Mutant: the callback only marks the token.                              *)
CancelOnlyMarks ==
    /\ kind = "async"
    /\ cancelled = "no"
    /\ UserCode(attempt)
    /\ cancelled' = IF status[attempt] # "started" THEN "inactive"
                    ELSE IF phase[attempt] = "operation" THEN "operation"
                    ELSE "body"
    /\ UNCHANGED <<vars, kind, auto, attempt, at, raising, outcome>>

(* The token fires: cancel_transaction() rolls back an active transaction, *)
(* and what that raises is logged.  Before start() there is nothing to do, *)
(* and start() does not look at the token.                                 *)
Cancel ==
    /\ kind = "async"
    /\ cancelled = "no"
    /\ UserCode(attempt)
    /\ cancelled' = IF status[attempt] # "started" THEN "inactive"
                    ELSE IF phase[attempt] = "operation" THEN "operation"
                    ELSE "body"
    /\ IF status[attempt] = "started"
       THEN RollbackBody(attempt)
       ELSE UNCHANGED <<status, native, rollbackRuns>>
    /\ UNCHANGED <<queued, ran, phase, commitRuns,
                   kind, auto, attempt, at, raising, outcome>>

(* The body ends, and __exit__ commits or rolls back.                      *)
BodyReturns ==
    /\ at = "body"
    /\ phase[attempt] = "idle"
    /\ at' = IF auto THEN "exit_commit" ELSE "exit_rollback"
    /\ UNCHANGED <<vars, kind, auto, attempt, raising, outcome, cancelled>>

BodyRaises ==
    /\ at = "body"
    /\ phase[attempt] = "idle"
    /\ raising' \in {"Exception", "BaseException"}
    /\ at' = "exit_rollback"
    /\ UNCHANGED <<vars, kind, auto, attempt, outcome, cancelled>>

(* The commit() of __exit__ raises at once when the body ended the         *)
(* transaction or the token did.                                           *)
ExitCommit ==
    /\ at = "exit_commit"
    /\ BeginCommit(attempt)
    /\ at' = "commit"
    /\ UNCHANGED <<kind, auto, attempt, raising, outcome, cancelled>>

ExitCommitRefused ==
    /\ at = "exit_commit"
    /\ status[attempt] # "started"
    /\ Raise("Exception")
    /\ UNCHANGED vars

ExitOperation ==
    /\ at = "commit"
    /\ OperationReturns(attempt)
    /\ UNCHANGED scope

(* Mutant: retry_transaction() goes on after an attempt that committed.    *)
ExitCommitsRetries ==
    /\ at = "commit"
    /\ CommitOk(attempt)
    /\ Raise("Exception")

ExitCommits ==
    /\ at = "commit"
    /\ CommitOk(attempt)
    /\ Finish("returned")
    /\ UNCHANGED <<kind, auto, raising, cancelled>>

ExitCommitRaises ==
    /\ at = "commit"
    /\ OperationRaises(attempt) \/ CommitFails(attempt)
    /\ Raise("Exception")

(* KeyboardInterrupt in an operation: neither commit() nor __exit__ catches*)
(* it, and nobody rolls back.                                              *)
ExitInterrupted ==
    /\ at = "commit"
    /\ OperationInterrupted(attempt)
    /\ Finish("interrupted")
    /\ UNCHANGED <<kind, auto, raising, cancelled>>

(* The rollback() of __exit__: what it raises replaces what the body       *)
(* raised; otherwise the body's exception goes on, or the scope returns.   *)
ExitRollback ==
    /\ at = "exit_rollback"
    /\ RollbackOk(attempt) \/ RollbackRefused(attempt)
       \/ (~CanRollback(attempt) /\ UNCHANGED <<status, native, rollbackRuns>>)
    /\ UNCHANGED <<queued, ran, phase, commitRuns>>
    /\ \/ raising # "none" /\ Raise(raising)
       \/ /\ raising = "none" /\ Finish("returned")
          /\ UNCHANGED <<kind, auto, raising, cancelled>>

ExitRollbackRaises ==
    /\ at = "exit_rollback"
    /\ RollbackRaises(attempt)
    /\ UNCHANGED <<queued, ran, phase, commitRuns>>
    /\ Raise("Exception")

ScopeStep ==
    \/ EnterScope \/ EnterRaises \/ BodyReturns \/ BodyRaises
    \/ ExitCommit \/ ExitCommitRefused \/ ExitOperation \/ ExitCommits
    \/ ExitCommitRaises \/ ExitInterrupted
    \/ ExitRollback \/ ExitRollbackRaises

ScopeNext == ScopeStep \/ BodyCall \/ ExitCall \/ Cancel

ScopeSpec == ScopeInit /\ [][ScopeNext]_scopeVars

-----------------------------------------------------------------------------
ScopeTypeOK ==
    /\ TypeOK
    /\ kind \in {"scope", "async", "retry"}
    /\ auto \in BOOLEAN
    /\ attempt \in 1 .. N
    /\ at \in {"enter", "body", "exit_commit", "commit", "exit_rollback", "done"}
    /\ raising \in {"none", "Exception", "BaseException"}
    /\ outcome \in {"none", "returned", "raised", "interrupted"}
    /\ cancelled \in {"no", "inactive", "body", "operation"}

(* retry_transaction(), and an auto-committing scope, return to the caller *)
(* only when the host has committed the attempt that returned.             *)
ReturnedMeansCommitted ==
    outcome = "returned" /\ auto => native[attempt] = "committed"

(* retry_transaction() never runs its operation again after an attempt that*)
(* committed, and never raises over a commit.                              *)
RetryCommitsOnce ==
    kind = "retry" =>
        /\ \A t \in 1 .. attempt - 1 : native[t] # "committed"
        /\ outcome = "raised" => native[attempt] # "committed"

(* However a scope ends, by return, by any exception of the body, by an    *)
(* Exception of an operation or by cancellation, every transaction it      *)
(* started has reported an outcome.                                        *)
ScopeEndsTransaction ==
    \A t \in Txn : t < attempt \/ outcome \in {"returned", "raised"}
                      => status[t] # "started"

(* A token cancelled while the body of async_transaction() runs decides    *)
(* the transaction: whatever the provider answers to the rollback and what-*)
(* ever the body does next, it is not committed and no auto-commit returns.*)
CancelledBodyNeverCommits ==
    cancelled = "body" =>
        native[attempt] # "committed" /\ (auto => outcome # "returned")
=============================================================================
