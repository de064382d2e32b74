---------------------------- MODULE Cancellation ----------------------------
(***************************************************************************)
(* with_cancellation() of src/revitpy/async_support/cancellation.py: an    *)
(* operation and a monitor of the token run as two tasks, and whichever    *)
(* ends first decides.  Meanwhile the token may be cancelled, its timeout  *)
(* may pass, and the task that called may itself be cancelled.             *)
(*                                                                         *)
(* All tasks share one event loop: a task that ends is noticed later, when *)
(* the other may have ended too.  Combined tokens are cancelled in the same*)
(* step as the one they combine.  The operation is user code: it may       *)
(* return, raise, and do either when it is asked to stop.                  *)
(***************************************************************************)
EXTENDS Naturals

VARIABLES
    source,     \* "token" was given, "timeout" was, or "both"
    token,      \* the token that is watched: "live", "cancelled"
    deadline,   \* the timeout's task: "none", "armed", "over"
    operation,  \* the task of the coroutine
    monitor,    \* the task that watches the token
    caller      \* where with_cancellation() is, or how it has ended

cancellationVars == <<source, token, deadline, operation, monitor, caller>>

Ended == {"returned", "raised", "stopped"}
CallEnded == {"returned", "raised", "cancelled", "interrupted"}

CancellationInit ==
    /\ source \in {"token", "timeout", "both"}
    /\ token \in IF source = "timeout" THEN {"live"} ELSE {"live", "cancelled"}
    /\ deadline = IF source = "token" THEN "none" ELSE "armed"
    /\ operation = "runs"
    /\ monitor = "runs"
    /\ caller = "waits"

(* A token that was made here is given to nobody else.                     *)
TokenCancelled ==
    /\ source # "timeout" /\ token = "live"
    /\ token' = "cancelled"
    /\ UNCHANGED <<source, deadline, operation, monitor, caller>>

(* The timer of a combined token is never disposed of, and may fire after  *)
(* the call.                                                               *)
DeadlinePasses ==
    /\ deadline = "armed"
    /\ deadline' = "over"
    /\ token' = "cancelled"
    /\ UNCHANGED <<source, operation, monitor, caller>>

OperationEnds ==
    /\ \/ operation = "runs" /\ operation' \in {"returned", "raised"}
       \/ operation = "asked" /\ operation' \in Ended
    /\ UNCHANGED <<source, token, deadline, monitor, caller>>

(* Mutant: the monitor watches the token that was given, not the combined  *)
(* one.                                                                    *)
MonitorEndsOnToken ==
    /\ \/ /\ monitor = "runs" /\ token = "cancelled" /\ monitor' = "raised"
          /\ source = "both" => deadline # "over"
       \/ monitor = "asked" /\ monitor' = "stopped"
    /\ UNCHANGED <<source, token, deadline, operation, caller>>

MonitorEnds ==
    /\ \/ monitor = "runs" /\ token = "cancelled" /\ monitor' = "raised"
       \/ monitor = "asked" /\ monitor' = "stopped"
    /\ UNCHANGED <<source, token, deadline, operation, caller>>

(* The finally of with_cancellation(): a source of its own is disposed of, *)
(* and the dispose cancels its token.                                      *)
CallEnds(how) ==
    /\ caller' = how
    /\ IF source = "timeout" THEN deadline' = "over" /\ token' = "cancelled"
                             ELSE UNCHANGED <<deadline, token>>

(* The first of the two to end is seen, and the other is told to stop.     *)
WaitSeesOperation ==
    /\ caller = "waits"
    /\ operation \in Ended /\ monitor \notin Ended
    /\ monitor' = "asked"
    /\ caller' = "stops_monitor"
    /\ UNCHANGED <<source, token, deadline, operation>>

(* Mutant: the operation is told to stop and not waited for.               *)
WaitSeesMonitorLeaves ==
    /\ caller = "waits"
    /\ monitor \in Ended /\ operation \notin Ended
    /\ operation' = "asked"
    /\ CallEnds("cancelled")
    /\ UNCHANGED <<source, monitor>>

WaitSeesMonitor ==
    /\ caller = "waits"
    /\ monitor \in Ended /\ operation \notin Ended
    /\ operation' = "asked"
    /\ caller' = "stops_operation"
    /\ UNCHANGED <<source, token, deadline, monitor>>

(* Both have ended: done.pop() of a set takes either.                      *)
WaitSeesBoth ==
    /\ caller = "waits"
    /\ operation \in Ended /\ monitor \in Ended
    /\ CallEnds(operation) \/ CallEnds("cancelled")
    /\ UNCHANGED <<source, operation, monitor>>

MonitorStopped ==
    /\ caller = "stops_monitor" /\ monitor \in Ended
    /\ CallEnds(operation)
    /\ UNCHANGED <<source, operation, monitor>>

(* The await of the operation passes on what it raises, except its own     *)
(* cancellation and unless the calling task is cancelled just then; what it*)
(* returns is dropped.                                                     *)
OperationStopped ==
    /\ caller = "stops_operation" /\ operation \in Ended
    /\ (operation = "raised" /\ CallEnds("raised")) \/ CallEnds("cancelled")
    /\ UNCHANGED <<source, operation, monitor>>

(* The calling task is cancelled.  During the wait that ends the call and  *)
(* leaves the two tasks; while it waits for the one that it told to stop,  *)
(* the CancelledError is taken for that task's.                            *)
CallerCancelled ==
    /\ caller = "waits"
    /\ CallEnds("interrupted")
    /\ UNCHANGED <<source, operation, monitor>>

CancellationNext ==
    \/ TokenCancelled \/ DeadlinePasses
    \/ OperationEnds \/ MonitorEnds
    \/ WaitSeesOperation \/ WaitSeesMonitor \/ WaitSeesBoth
    \/ MonitorStopped \/ OperationStopped
    \/ CallerCancelled

(* The event loop runs what is ready; the monitor's sleep ends.  The       *)
(* operation need not end by itself, but does when it is asked to.         *)
CancellationFairness ==
    /\ WF_cancellationVars(MonitorEnds)
    /\ WF_cancellationVars(operation = "asked" /\ OperationEnds)
    /\ WF_cancellationVars(\/ WaitSeesOperation \/ WaitSeesMonitor
                           \/ WaitSeesBoth
                           \/ MonitorStopped \/ OperationStopped)

CancellationSpec ==
    CancellationInit /\ [][CancellationNext]_cancellationVars
      /\ CancellationFairness
-----------------------------------------------------------------------------
(* A call that was not itself cancelled leaves nothing running and reports *)
(* what happened: the operation's own end, or OperationCancelledError and  *)
(* then the token was cancelled or its time was over.                      *)
CallTellsTheEnd ==
    caller \in CallEnded \ {"interrupted"} =>
      /\ operation \in Ended /\ monitor \in Ended
      /\ IF caller = "cancelled" THEN monitor = "raised"
                                 ELSE operation = caller

(* A cancelled token ends the call, whatever the operation is doing, and   *)
(* stops the operation; one whose caller was cancelled is left alone.      *)
CancelIsHeard ==
    token = "cancelled" ~>
      /\ caller \in CallEnded
      /\ operation \in Ended \/ caller = "interrupted"
=============================================================================
