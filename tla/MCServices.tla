----------------------------- MODULE MCServices -----------------------------
(***************************************************************************)
(* Parts of the library that do not share state - the event queue with one *)
(* caller, the asynchronous transaction, the order of loading, the         *)
(* extension manager, the cloud batch, the cloud client used by one task,  *)
(* and with_cancellation() - each checked in the behaviours that have it as*)
(* their subject.                                                          *)
(***************************************************************************)
EXTENDS EventDispatcher, AsyncTransaction, LoadOrder, ExtensionManager,
        CloudBatch, CloudClient, Cancellation

VARIABLE subject

lifeVars == <<tables, status, objects, doing, stopping, initialized,
              overlapped, managerCalls>>
methodVars == <<active, nested, method, scope, timer, auto, outcome, cut, calls>>

(* The extension y depends on x; two tasks, not three, call the manager.   *)
YOnX == [e \in Extension |-> IF e = "y" THEN {"x"} ELSE {}]

ServicesInit ==
    /\ subject \in {"events", "transaction", "order", "extensions", "batch",
                    "requests", "cancellation"}
    /\ Init
    /\ AsyncInit
    /\ subject # "transaction" => auto
    /\ OrderInit
    /\ subject # "order" => graph = <<>>
    /\ ManagerInit
    /\ BatchInit
    /\ subject # "batch" => continueOnError /\ cancel = "none"
    /\ ClientInit
    /\ CancellationInit
    /\ subject # "cancellation" => source = "timeout"

ServicesNext ==
    \/ /\ subject = "events" /\ Next
       /\ UNCHANGED <<subject, asyncVars, orderVars, lifeVars, batchVars,
                      clientVars, cancellationVars>>
    \/ /\ subject = "transaction" /\ AsyncNext
       /\ UNCHANGED <<subject, vars, orderVars, lifeVars, batchVars,
                      clientVars, cancellationVars>>
    \/ /\ subject = "order" /\ OrderNext
       /\ UNCHANGED <<subject, vars, asyncVars, lifeVars, batchVars,
                      clientVars, cancellationVars>>
    \/ /\ subject = "extensions" /\ ManagerNext
       /\ doing'["timer"] = Idle
       /\ UNCHANGED <<subject, vars, methodVars, orderVars, batchVars,
                      clientVars, cancellationVars>>
    \/ /\ subject = "batch" /\ BatchNext
       /\ UNCHANGED <<subject, vars, asyncVars, orderVars, lifeVars,
                      clientVars, cancellationVars>>
    \/ /\ subject = "requests" /\ ClientNext
       /\ UNCHANGED <<subject, vars, asyncVars, orderVars, lifeVars,
                      batchVars, cancellationVars>>
    \/ /\ subject = "cancellation" /\ CancellationNext
       /\ UNCHANGED <<subject, vars, asyncVars, orderVars, lifeVars,
                      batchVars, clientVars>>

allVars == <<subject, vars, asyncVars, orderVars, lifeVars, batchVars,
             clientVars, cancellationVars>>

ServicesSpec ==
    /\ ServicesInit /\ [][ServicesNext]_allVars
    /\ Fairness /\ AsyncFairness /\ ManagerFairness /\ BatchFairness
    /\ CancellationFairness
=============================================================================
