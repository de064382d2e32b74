---------------------------- MODULE Transaction ----------------------------
(***************************************************************************)
(* The transaction wrapper of src/revitpy/api/transaction.py: N            *)
(* Transaction objects over one ITransactionProvider.                      *)
(*                                                                         *)
(* commit() is not atomic: it calls the queued operations, which are user  *)
(* code and may, before they return, queue more operations, roll the       *)
(* transaction back or cancel the token whose callback rolls it back       *)
(* (async_transaction in context_managers.py).  phase[t] says where        *)
(* commit() of t is; the other calls are atomic.                           *)
(*                                                                         *)
(* native[t] is what the host application holds for t.  The provider is    *)
(* external and keeps its contract: a call that answers False or raises    *)
(* has changed nothing, and only an open transaction can be ended.         *)
(*                                                                         *)
(* A call the code refuses at once (an exception or a logged warning and   *)
(* no assignment) is a stuttering step and is not written out.             *)
(***************************************************************************)
EXTENDS Naturals

CONSTANTS
    N,       \* how many Transaction objects there are
    MaxOps   \* bound on the operations queued on one transaction

ASSUME NAssumption == N \in Nat
ASSUME MaxOpsAssumption == MaxOps \in Nat

Txn == 1 .. N

TransactionStatus ==
    {"not_started", "started", "committed", "rolled_back", "failed"}

VARIABLES
    status,     \* _status
    native,     \* the host's transaction behind _transaction; "none" is None
    queued,     \* len(_operations)
    ran,        \* operations the latest commit() has seen return
    phase,      \* commit(): not running, inside an operation, at the provider
    commitRuns,   \* times the commit handlers were called
    rollbackRuns  \* times the rollback handlers were called

vars == <<status, native, queued, ran, phase, commitRuns, rollbackRuns>>

Init ==
    /\ status = [t \in Txn |-> "not_started"]
    /\ native = [t \in Txn |-> "none"]
    /\ queued = [t \in Txn |-> 0]
    /\ ran = [t \in Txn |-> 0]
    /\ phase = [t \in Txn |-> "idle"]
    /\ commitRuns = [t \in Txn |-> 0]
    /\ rollbackRuns = [t \in Txn |-> 0]

-----------------------------------------------------------------------------
(* Mutant: a failed start() may be tried again.                            *)
StartOkAgain(t) ==
    /\ status[t] \in {"not_started", "failed"}
    /\ status' = [status EXCEPT ![t] = "started"]
    /\ native' = [native EXCEPT ![t] = "open"]
    /\ UNCHANGED <<queued, ran, phase, commitRuns, rollbackRuns>>

(* The body of start(): the provider opens the transaction, or raises.     *)
StartOk(t) ==
    /\ status[t] = "not_started"
    /\ status' = [status EXCEPT ![t] = "started"]
    /\ native' = [native EXCEPT ![t] = "open"]
    /\ UNCHANGED <<queued, ran, phase, commitRuns, rollbackRuns>>

StartRaises(t) ==
    /\ status[t] = "not_started"
    /\ status' = [status EXCEPT ![t] = "failed"]
    /\ UNCHANGED <<native, queued, ran, phase, commitRuns, rollbackRuns>>

(* The body of rollback().  A transaction that never opened is only marked;*)
(* False from the provider is logged and the transaction is marked too;    *)
(* only an exception leaves it failed, to be rolled back again.            *)
CanRollback(t) == status[t] \in {"started", "failed"}

MarkRolledBack(t) ==
    /\ status' = [status EXCEPT ![t] = "rolled_back"]
    /\ rollbackRuns' = [rollbackRuns EXCEPT ![t] = @ + 1]

RollbackOk(t) ==
    /\ CanRollback(t)
    /\ native[t] \in {"none", "open"}
    /\ native' = [native EXCEPT ![t] = IF @ = "open" THEN "rolled_back" ELSE @]
    /\ MarkRolledBack(t)

RollbackRefused(t) ==
    /\ CanRollback(t)
    /\ native[t] # "none"
    /\ MarkRolledBack(t)
    /\ UNCHANGED native

(* Mutant: the handlers run before the provider is asked.                  *)
RollbackRaisesLate(t) ==
    /\ CanRollback(t)
    /\ native[t] # "none"
    /\ status' = [status EXCEPT ![t] = "failed"]
    /\ rollbackRuns' = [rollbackRuns EXCEPT ![t] = 1]
    /\ UNCHANGED native

RollbackRaises(t) ==
    /\ CanRollback(t)
    /\ native[t] # "none"
    /\ status' = [status EXCEPT ![t] = "failed"]
    /\ UNCHANGED <<native, rollbackRuns>>

RollbackBody(t) == RollbackOk(t) \/ RollbackRefused(t) \/ RollbackRaises(t)

(* rollback() as commit(), a token's callback and rollback_all() call it:  *)
(* with any other status it logs a warning and returns.                    *)
RollbackCall(t) ==
    \/ RollbackBody(t)
    \/ ~CanRollback(t) /\ UNCHANGED <<status, native, rollbackRuns>>

-----------------------------------------------------------------------------
(* What the user's code may call on t: anything while commit() of t is not *)
(* running, and the same from inside an operation.                         *)
UserCode(t) == phase[t] \in {"idle", "operation"}

Start(t) == StartOk(t) \/ StartRaises(t)

AddOperation(t) ==
    /\ UserCode(t)
    /\ status[t] = "started"
    /\ queued[t] < MaxOps
    /\ queued' = [queued EXCEPT ![t] = @ + 1]
    /\ UNCHANGED <<status, native, ran, phase, commitRuns, rollbackRuns>>

Rollback(t) ==
    /\ UserCode(t)
    /\ RollbackBody(t)
    /\ UNCHANGED <<queued, ran, phase, commitRuns>>

(* commit() up to its first operation.                                     *)
BeginCommit(t) ==
    /\ phase[t] = "idle"
    /\ status[t] = "started"
    /\ phase' = [phase EXCEPT ![t] = IF queued[t] = 0 THEN "provider"
                                                      ELSE "operation"]
    /\ ran' = [ran EXCEPT ![t] = 0]
    /\ UNCHANGED <<status, native, queued, commitRuns, rollbackRuns>>

(* Mutant: the loop stops one operation early.                             *)
OperationReturnsEarly(t) ==
    /\ phase[t] = "operation"
    /\ ran' = [ran EXCEPT ![t] = @ + 1]
    /\ phase' = [phase EXCEPT ![t] = IF ran[t] + 2 < queued[t] THEN "operation"
                                                               ELSE "provider"]
    /\ UNCHANGED <<status, native, queued, commitRuns, rollbackRuns>>

(* An operation returns.  The loop walks the live list, so an operation    *)
(* queued meanwhile is reached, and it does not look at the status again.  *)
OperationReturns(t) ==
    /\ phase[t] = "operation"
    /\ ran' = [ran EXCEPT ![t] = @ + 1]
    /\ phase' = [phase EXCEPT ![t] = IF ran[t] + 1 < queued[t] THEN "operation"
                                                               ELSE "provider"]
    /\ UNCHANGED <<status, native, queued, commitRuns, rollbackRuns>>

(* An operation raises an Exception: commit() rolls back and raises.       *)
OperationRaises(t) ==
    /\ phase[t] = "operation"
    /\ phase' = [phase EXCEPT ![t] = "idle"]
    /\ RollbackCall(t)
    /\ UNCHANGED <<queued, ran, commitRuns>>

(* An operation raises KeyboardInterrupt or another BaseException, which   *)
(* commit() does not catch: the transaction stays started, and a second    *)
(* commit() would call its operations from the first again.                *)
OperationInterrupted(t) ==
    /\ phase[t] = "operation"
    /\ phase' = [phase EXCEPT ![t] = "idle"]
    /\ UNCHANGED <<status, native, queued, ran, commitRuns, rollbackRuns>>

(* The provider commits: the status is overwritten whatever it is by now.  *)
CommitOk(t) ==
    /\ phase[t] = "provider"
    /\ native[t] = "open"
    /\ phase' = [phase EXCEPT ![t] = "idle"]
    /\ native' = [native EXCEPT ![t] = "committed"]
    /\ status' = [status EXCEPT ![t] = "committed"]
    /\ commitRuns' = [commitRuns EXCEPT ![t] = @ + 1]
    /\ UNCHANGED <<queued, ran, rollbackRuns>>

(* Mutant: the provider's False is not looked at.                          *)
CommitFailsUnseen(t) ==
    /\ phase[t] = "provider"
    /\ phase' = [phase EXCEPT ![t] = "idle"]
    /\ status' = [status EXCEPT ![t] = "committed"]
    /\ commitRuns' = [commitRuns EXCEPT ![t] = @ + 1]
    /\ UNCHANGED <<native, queued, ran, rollbackRuns>>

(* The provider answers False or raises: rollback() if still started.      *)
CommitFails(t) ==
    /\ phase[t] = "provider"
    /\ phase' = [phase EXCEPT ![t] = "idle"]
    /\ IF status[t] = "started" THEN RollbackBody(t)
                                ELSE UNCHANGED <<status, native, rollbackRuns>>
    /\ UNCHANGED <<queued, ran, commitRuns>>

CommitStep(t) ==
    \/ OperationReturns(t) \/ OperationRaises(t) \/ OperationInterrupted(t)
    \/ CommitOk(t) \/ CommitFails(t)

Next ==
    \E t \in Txn :
        \/ Start(t)
        \/ AddOperation(t)
        \/ Rollback(t)
        \/ BeginCommit(t)
        \/ CommitStep(t)

Spec == Init /\ [][Next]_vars

-----------------------------------------------------------------------------
TypeOK ==
    /\ status \in [Txn -> TransactionStatus]
    /\ native \in [Txn -> {"none", "open", "committed", "rolled_back"}]
    /\ queued \in [Txn -> 0 .. MaxOps]
    /\ ran \in [Txn -> 0 .. MaxOps]
    /\ phase \in [Txn -> {"idle", "operation", "provider"}]
    /\ commitRuns \in [Txn -> 0 .. 1]
    /\ rollbackRuns \in [Txn -> 0 .. 1]

(* A transaction reports committed exactly when the host has committed it: *)
(* in particular one that a cancellation rolled back inside an operation   *)
(* is never reported committed over a host that dropped it, and one that   *)
(* reports rolled_back or failed has left nothing committed in the model.  *)
OutcomeIsNative ==
    \A t \in Txn : status[t] = "committed" <=> native[t] = "committed"

(* commit() reaches the provider only after every queued operation has     *)
(* returned, the ones queued by operations of the same commit included.    *)
AllOperationsBeforeCommit ==
    \A t \in Txn : native[t] = "committed" => ran[t] = queued[t]

(* Rollback handlers are called when and only when a transaction has been  *)
(* marked rolled back, once, however often rollback() is called; commit    *)
(* handlers once and only for a commit.                                    *)
HandlersMatchOutcome ==
    \A t \in Txn :
        /\ commitRuns[t] = 1 <=> status[t] = "committed"
        /\ status[t] = "rolled_back" => rollbackRuns[t] = 1
        /\ status[t] \in {"not_started", "started", "failed"}
              => rollbackRuns[t] = 0

(* A failed transaction is never reported open again, a committed one      *)
(* never changes, and one marked rolled back only becomes committed inside *)
(* a commit() whose operation asked for a rollback that the host refused.  *)
FinalStatus ==
    [][\A t \in Txn :
          /\ status[t] = "committed" => status'[t] = "committed"
          /\ status[t] = "rolled_back" /\ status'[t] # "rolled_back"
                => native[t] = "open" /\ phase[t] = "provider"
          /\ status[t] # "not_started" => status'[t] # "not_started"
          /\ status[t] # "started" /\ status'[t] = "started"
                => status[t] = "not_started"]_vars
=============================================================================
