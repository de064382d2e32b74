---------------------------- MODULE MCDispatcher ----------------------------
(***************************************************************************)
(* The two sides of the dispatcher, its queue with the threads that serve  *)
(* it and the handlers of one event, each in the behaviours that have it as*)
(* their subject.                                                          *)
(***************************************************************************)
EXTENDS EventDispatcher, EventHandlers

VARIABLE subject

DispatcherInit ==
    /\ subject \in {"queue", "handlers"}
    /\ Init
    /\ HandlersInit

DispatcherNext ==
    \/ /\ subject = "queue" /\ Next
       /\ UNCHANGED <<subject, handlerVars>>
    \/ /\ subject = "handlers" /\ HandlersNext
       /\ UNCHANGED <<subject, vars>>

DispatcherSpec ==
    DispatcherInit /\ [][DispatcherNext]_<<subject, vars, handlerVars>>
=============================================================================
