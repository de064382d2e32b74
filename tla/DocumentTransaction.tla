------------------------ MODULE DocumentTransaction ------------------------
(***************************************************************************)
(* Transaction objects over the provider this repository ships:            *)
(* RevitDocumentProvider of src/revitpy/api/wrapper.py, which keeps the    *)
(* open transactions on _transaction_stack and hands out the string        *)
(* Transaction_<name>_<depth> as the handle.                               *)
(*                                                                         *)
(* A handle is the pair <<name, depth>>.  The list is searched for an equal*)
(* handle and the first one is removed, so nothing depends on its order:   *)
(* entries[h] is how often h is on it and depth is its length.             *)
(*                                                                         *)
(* With distinct names this implements Transaction.tla, whose provider is  *)
(* only a contract.                                                        *)
(***************************************************************************)
EXTENDS Naturals

CONSTANTS
    N, MaxOps,  \* as in Transaction.tla
    Name,       \* the names callers give
    name        \* name[t], options.name of transaction t

Txn == 1 .. N

ASSUME NAssumption == N \in Nat
ASSUME MaxOpsAssumption == MaxOps \in Nat
ASSUME NameAssumption == name \in [Txn -> Name]

VARIABLES
    status, queued, ran, phase, commitRuns, rollbackRuns,  \* Transaction.tla
    handle,   \* _transaction; NoHandle is None
    entries,  \* how often each handle is on _transaction_stack
    depth     \* len(_transaction_stack)

object == <<queued, ran, phase, commitRuns, rollbackRuns>>
stack == <<entries, depth>>
vars == <<status, object, handle, stack>>

NoHandle == <<>>
Handle == Name \X (0 .. N)

OnStack(h) == h # NoHandle /\ entries[h] > 0

(* What the transaction's handle says became of it, in the vocabulary of   *)
(* Transaction.tla.                                                        *)
Outcome(t) ==
    IF handle[t] = NoHandle THEN "none"
    ELSE IF OnStack(handle[t]) THEN "open"
    ELSE IF status[t] = "committed" THEN "committed" ELSE "rolled_back"

T == INSTANCE Transaction WITH native <- [t \in Txn |-> Outcome(t)]

Init ==
    /\ status = [t \in Txn |-> "not_started"]
    /\ queued = [t \in Txn |-> 0]
    /\ ran = [t \in Txn |-> 0]
    /\ phase = [t \in Txn |-> "idle"]
    /\ commitRuns = [t \in Txn |-> 0]
    /\ rollbackRuns = [t \in Txn |-> 0]
    /\ handle = [t \in Txn |-> NoHandle]
    /\ entries = [h \in Handle |-> 0]
    /\ depth = 0

-----------------------------------------------------------------------------
(* start_transaction(), commit_transaction() and rollback_transaction().   *)
(* The last two do the same to the list and answer False without it.       *)
Push(h) ==
    /\ entries' = [entries EXCEPT ![h] = @ + 1]
    /\ depth' = depth + 1

Pop(h) ==
    /\ OnStack(h)
    /\ entries' = [entries EXCEPT ![h] = @ - 1]
    /\ depth' = depth - 1

(* start(): this provider never raises.                                    *)
Start(t) ==
    /\ status[t] = "not_started"
    /\ status' = [status EXCEPT ![t] = "started"]
    /\ handle' = [handle EXCEPT ![t] = <<name[t], depth>>]
    /\ Push(<<name[t], depth>>)
    /\ UNCHANGED object

(* Mutant: rollback_transaction() leaves the handle on the stack.          *)
RollbackBodyKeeps(t) ==
    /\ status[t] = "started"
    /\ UNCHANGED stack
    /\ status' = [status EXCEPT ![t] = "rolled_back"]
    /\ rollbackRuns' = [rollbackRuns EXCEPT ![t] = @ + 1]

(* rollback(): status and handlers do not depend on the provider's answer. *)
RollbackBody(t) ==
    /\ status[t] = "started"
    /\ Pop(handle[t]) \/ (~OnStack(handle[t]) /\ UNCHANGED stack)
    /\ status' = [status EXCEPT ![t] = "rolled_back"]
    /\ rollbackRuns' = [rollbackRuns EXCEPT ![t] = @ + 1]

RollbackCall(t) ==
    \/ RollbackBody(t)
    \/ status[t] # "started" /\ UNCHANGED <<status, stack, rollbackRuns>>

(* What does not reach the provider is as in Transaction.tla.              *)
AddOperation(t) == UNCHANGED <<handle, stack>> /\ T!AddOperation(t)

Rollback(t) ==
    /\ T!UserCode(t)
    /\ RollbackBody(t)
    /\ UNCHANGED <<queued, ran, phase, commitRuns, handle>>

BeginCommit(t) == UNCHANGED <<handle, stack>> /\ T!BeginCommit(t)

OperationReturns(t) == UNCHANGED <<handle, stack>> /\ T!OperationReturns(t)

OperationInterrupted(t) ==
    UNCHANGED <<handle, stack>> /\ T!OperationInterrupted(t)

OperationRaises(t) ==
    /\ phase[t] = "operation"
    /\ phase' = [phase EXCEPT ![t] = "idle"]
    /\ RollbackCall(t)
    /\ UNCHANGED <<queued, ran, commitRuns, handle>>

(* Mutant: commit_transaction() answers True for a handle it has not got.  *)
CommitOkUnchecked(t) ==
    /\ phase[t] = "provider"
    /\ Pop(handle[t]) \/ (~OnStack(handle[t]) /\ UNCHANGED stack)
    /\ phase' = [phase EXCEPT ![t] = "idle"]
    /\ status' = [status EXCEPT ![t] = "committed"]
    /\ commitRuns' = [commitRuns EXCEPT ![t] = @ + 1]
    /\ UNCHANGED <<queued, ran, rollbackRuns, handle>>

CommitOk(t) ==
    /\ phase[t] = "provider"
    /\ Pop(handle[t])
    /\ phase' = [phase EXCEPT ![t] = "idle"]
    /\ status' = [status EXCEPT ![t] = "committed"]
    /\ commitRuns' = [commitRuns EXCEPT ![t] = @ + 1]
    /\ UNCHANGED <<queued, ran, rollbackRuns, handle>>

(* The handle is not found: False, which commit() turns into an exception. *)
CommitFails(t) ==
    /\ phase[t] = "provider"
    /\ ~OnStack(handle[t])
    /\ phase' = [phase EXCEPT ![t] = "idle"]
    /\ RollbackCall(t)
    /\ UNCHANGED <<queued, ran, commitRuns, handle>>

CommitStep(t) ==
    \/ OperationReturns(t) \/ OperationRaises(t) \/ OperationInterrupted(t)
    \/ CommitOk(t) \/ CommitFails(t)

Next ==
    \E t \in Txn :
        \/ Start(t)
        \/ AddOperation(t)
        \/ Rollback(t)
        \/ BeginCommit(t)
        \/ CommitStep(t)

Spec == Init /\ [][Next]_vars

-----------------------------------------------------------------------------
TypeOK ==
    /\ T!TypeOK
    /\ handle \in [Txn -> Handle \cup {NoHandle}]
    /\ entries \in [Handle -> 0 .. N]
    /\ depth \in 0 .. N

(* Every transaction over the document behaves as Transaction.tla allows:  *)
(* the string handles and the shared list keep the provider's contract.    *)
KeepsContract == T!Spec

(* Over this provider a rollback is never refused, so even a commit() whose*)
(* operation rolled the transaction back leaves it rolled back.            *)
RolledBackForGood ==
    [][\A t \in Txn : status[t] = "rolled_back"
                         => status'[t] = "rolled_back"]_vars

(* src/revitpy/api/transaction.py:68, "Check if currently in a             *)
(* transaction.": is_in_transaction() tells whether one is started.        *)
InTransactionIsTrue ==
    depth > 0 <=> \E t \in Txn : status[t] = "started"
=============================================================================
