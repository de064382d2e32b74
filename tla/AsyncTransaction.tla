-------------------------- MODULE AsyncTransaction --------------------------
(***************************************************************************)
(* AsyncTransaction of src/revitpy/orm/async_support.py: one transaction   *)
(* used by tasks of an event loop - "body", which enters and leaves it     *)
(* with `async with`, "timer", its timeout task, and others that call its  *)
(* methods - under one asyncio.Lock.                                       *)
(*                                                                         *)
(* asyncio.Lock is fair and not re-entrant.  commit() and rollback() hold  *)
(* it while they await the unit of work; when a commit fails it calls      *)
(* rollback(), which waits for the lock that its own task holds.  A task   *)
(* may be cancelled at every await of a method: CancelledError passes the  *)
(* handlers of Exception, so that the lock is released and the context     *)
(* stays as it is.  The unit of work is external: a call of it returns or  *)
(* raises, and one that is cancelled may have done its work or not.        *)
(* Savepoints, which keep names and restore nothing, and the merging of    *)
(* the operations' lists are left out.                                     *)
(***************************************************************************)
EXTENDS AsyncLock, Integers

CONSTANT
    MaxCalls  \* bound on the calls made beside entering and leaving

ASSUME AsyncAssumption ==
    /\ {"body", "timer"} \subseteq Task
    /\ MaxCalls \in Nat

Op == {"begin", "commit", "rollback"}

VARIABLES
    active,    \* _context is active
    nested,    \* length of _nested_transactions
    method,    \* method[t]: the method t is in
    scope,     \* where the body's async with stands
    timer,     \* the timeout task
    auto,      \* _auto_commit
    outcome,   \* what the unit of work made of the latest context
    cut,       \* an await of the unit of work for it was cancelled
    calls      \* calls so far beside entering and leaving

asyncVars == <<lockVars, active, nested, method, scope, timer, auto, outcome,
               cut, calls>>
transactionVars == <<active, nested, auto, outcome, cut>>

AsyncInit ==
    /\ active = FALSE
    /\ nested = 0
    /\ LockInit
    /\ method = [t \in Task |-> "none"]
    /\ scope = "before"
    /\ timer = "off"
    /\ auto \in BOOLEAN
    /\ outcome = "none"
    /\ cut = FALSE
    /\ calls = 0
-----------------------------------------------------------------------------
(* A method begins with `async with self._lock`.                           *)
Calls(t, op) ==
    /\ method' = [method EXCEPT ![t] = op]
    /\ Acquires(t)

(* The task is out of the method; how says whether it returned or raised.  *)
MethodEnds(t, how) ==
    /\ method' = [method EXCEPT ![t] = "none"]
    /\ scope' = IF t # "body" THEN scope ELSE
                CASE scope = "enters" /\ how = "returned" -> "inside"
                  [] scope = "enters" /\ how = "raised"   -> "raised"
                  [] scope = "leaves"        -> how
                  [] scope = "leaves_raised" -> "raised"
                  [] OTHER                   -> scope
    /\ timer' = CASE t = "timer" -> "ended"
                  [] t = "body" /\ scope = "enters" /\ how = "returned" -> "sleeps"
                  [] OTHER -> timer

(* It leaves its lock with it, which goes to the next waiter.              *)
Leaves(t, how) == MethodEnds(t, how) /\ Releases

Has(t, op) == Holds(t) /\ method[t] = op

BeginRuns(t) ==
    /\ Has(t, "begin")
    /\ active' = TRUE
    /\ IF active
       THEN nested' = nested + 1 /\ UNCHANGED <<outcome, cut>>
       ELSE outcome' = "open" /\ cut' = FALSE /\ UNCHANGED nested
    /\ Leaves(t, "returned")
    /\ UNCHANGED <<auto, calls>>

(* Nothing active: commit() raises, rollback() warns and returns.          *)
RefusedCall(t) ==
    /\ ~active
    /\ \/ Has(t, "commit") /\ Leaves(t, "raised")
       \/ Has(t, "rollback") /\ Leaves(t, "returned")
    /\ UNCHANGED <<transactionVars, calls>>

EndNested(t) ==
    /\ active /\ nested > 0
    /\ Has(t, "commit") \/ Has(t, "rollback")
    /\ nested' = nested - 1
    /\ Leaves(t, "returned")
    /\ UNCHANGED <<active, auto, outcome, cut, calls>>

(* Mutant: is_active is read before the lock is taken, not after.          *)
AwaitsUnitUnchecked(t, op, await) ==
    /\ Has(t, op) /\ nested = 0
    /\ method' = [method EXCEPT ![t] = await]
    /\ UNCHANGED <<lockVars, transactionVars, scope, timer, calls>>

(* The method awaits the unit of work, with the lock.                      *)
AwaitsUnit(t, op, await) ==
    /\ Has(t, op) /\ active /\ nested = 0
    /\ method' = [method EXCEPT ![t] = await]
    /\ UNCHANGED <<lockVars, transactionVars, scope, timer, calls>>

CommitStarts(t) == AwaitsUnit(t, "commit", "commits")
RollbackStarts(t) == AwaitsUnit(t, "rollback", "rolls_back")

CommitOk(t) ==
    /\ Has(t, "commits")
    /\ active' = FALSE
    /\ outcome' = "committed"
    /\ Leaves(t, "returned")
    /\ UNCHANGED <<nested, auto, cut, calls>>

(* rollback() waits for the lock of this very call.                        *)
CommitFails(t) ==
    /\ Has(t, "commits")
    /\ WaitsForItself(t)
    /\ UNCHANGED <<transactionVars, method, scope, timer, calls>>

RollbackOk(t) ==
    /\ Has(t, "rolls_back")
    /\ active' = FALSE
    /\ outcome' = "rolled_back"
    /\ Leaves(t, "returned")
    /\ UNCHANGED <<nested, auto, cut, calls>>

(* Mutant: the lock is not released when rollback() raises.                *)
RollbackFailsLocked(t) ==
    /\ Has(t, "rolls_back")
    /\ active' = FALSE
    /\ outcome' = "unknown"
    /\ MethodEnds(t, "raised")
    /\ UNCHANGED <<nested, auto, cut, lockVars, calls>>

RollbackFails(t) ==
    /\ Has(t, "rolls_back")
    /\ active' = FALSE
    /\ outcome' = "unknown"
    /\ Leaves(t, "raised")
    /\ UNCHANGED <<nested, auto, cut, calls>>

MethodRuns(t) ==
    \/ BeginRuns(t)
    \/ RefusedCall(t)
    \/ EndNested(t)
    \/ CommitStarts(t)
    \/ CommitOk(t)
    \/ CommitFails(t)
    \/ RollbackStarts(t)
    \/ RollbackOk(t)
    \/ RollbackFails(t)

(* The task is cancelled while it awaits the unit of work, while it waits  *)
(* for the lock, or for itself.  (When it is cancelled after the lock was  *)
(* passed to it and before it runs, that is as if it had been before.)     *)
AwaitCancelled(t) ==
    /\ \/ Has(t, "commits") /\ outcome' \in {outcome, "committed"}
       \/ Has(t, "rolls_back") /\ outcome' \in {outcome, "rolled_back"}
    /\ cut' = TRUE
    /\ Leaves(t, "raised")
    /\ UNCHANGED <<active, nested, auto, calls>>

LockCancelled(t) ==
    /\ \/ method[t] # "none" /\ holder # t /\ GivesUp(t)
       \/ holder = t /\ t \in stuck /\ GivesUpBoth(t)
    /\ MethodEnds(t, "raised")
    /\ UNCHANGED <<transactionVars, calls>>
-----------------------------------------------------------------------------
(* __aenter__ and __aexit__.                                               *)
Enter ==
    /\ scope = "before"
    /\ scope' = "enters"
    /\ Calls("body", "begin")
    /\ UNCHANGED <<transactionVars, timer, calls>>

LeaveBody ==
    /\ scope = "inside" /\ method["body"] = "none"
    /\ IF auto /\ active
       THEN scope' = "leaves" /\ Calls("body", "commit")
       ELSE scope' = "returned" /\ UNCHANGED <<method, lockVars>>
    /\ UNCHANGED <<transactionVars, timer, calls>>

BodyRaises ==
    /\ scope = "inside" /\ method["body"] = "none"
    /\ scope' = "leaves_raised"
    /\ Calls("body", "rollback")
    /\ UNCHANGED <<transactionVars, timer, calls>>

(* timeout_handler(), once its sleep is over.                              *)
TimerFires ==
    /\ timer = "sleeps"
    /\ IF active
       THEN timer' = "fired" /\ Calls("timer", "rollback")
       ELSE timer' = "ended" /\ UNCHANGED <<method, lockVars>>
    /\ UNCHANGED <<transactionVars, scope, calls>>

CallMethod(t, op) ==
    /\ method[t] = "none"
    /\ t = "body" => scope = "inside"
    /\ scope # "before"
    /\ calls < MaxCalls
    /\ calls' = calls + 1
    /\ Calls(t, op)
    /\ UNCHANGED <<transactionVars, scope, timer>>

AsyncNext ==
    \/ Enter
    \/ LeaveBody
    \/ BodyRaises
    \/ TimerFires
    \/ \E t \in Task \ {"timer"}, op \in Op : CallMethod(t, op)
    \/ \E t \in Task : MethodRuns(t) \/ AwaitCancelled(t) \/ LockCancelled(t)

(* The event loop runs what is ready, and the unit of work answers.        *)
AsyncFairness == \A t \in Task : WF_asyncVars(MethodRuns(t))

AsyncSpec == AsyncInit /\ [][AsyncNext]_asyncVars /\ AsyncFairness
-----------------------------------------------------------------------------
(* A transaction is committed or rolled back, once, whatever task, timeout *)
(* or exit comes first while another awaits the unit of work: what that    *)
(* has answered stands until the next transaction begins - unless an await *)
(* of it was cancelled, so that nobody has heard the answer.               *)
OneOutcome ==
    [][(outcome \in {"committed", "rolled_back", "unknown"} /\ ~cut)
         => outcome' = outcome \/ (outcome' = "open" /\ active')]_asyncVars

(* Committed on success, rolled back on an exception: a body that leaves   *)
(* the async with has ended the transaction.  False when it is cancelled   *)
(* while the transaction ends, which leaves that active.                   *)
LeavingEnds ==
    [][(scope \in {"leaves", "leaves_raised"} /\ scope' \in {"returned", "raised"})
         => ~(active')]_asyncVars
=============================================================================
