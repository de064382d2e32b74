---------------------------- MODULE EventChannel ----------------------------
(***************************************************************************)
(* What the queued dispatch of src/revitpy/events/dispatcher.py promises   *)
(* whoever dispatches: an accepted event is handled at most once, or lost  *)
(* for good, and never both.  EventDispatcher implements it.               *)
(*                                                                         *)
(* The order of events is not part of it: with several processing threads  *)
(* the dispatcher does not keep one.                                       *)
(***************************************************************************)
CONSTANT Event

VARIABLES
    waiting,  \* accepted and neither handled nor lost
    handled,  \* given to the handlers
    lost      \* dropped, cleared, or discarded at shutdown

cvars == <<waiting, handled, lost>>

Init ==
    /\ waiting = {}
    /\ handled = {}
    /\ lost = {}

(* A new event; room for it may cost one that is waiting.                  *)
Accept(e) ==
    /\ e \notin waiting \cup handled \cup lost
    /\ \/ /\ waiting' = waiting \cup {e}
          /\ lost' = lost
       \/ \E old \in waiting :
             /\ waiting' = (waiting \ {old}) \cup {e}
             /\ lost' = lost \cup {old}
    /\ UNCHANGED handled

Handle(e) ==
    /\ e \in waiting
    /\ waiting' = waiting \ {e}
    /\ handled' = handled \cup {e}
    /\ UNCHANGED lost

Lose(S) ==
    /\ waiting' = waiting \ S
    /\ lost' = lost \cup S
    /\ UNCHANGED handled

Next ==
    \/ \E e \in Event : Accept(e) \/ Handle(e)
    \/ \E S \in SUBSET waiting : Lose(S)

Spec == Init /\ [][Next]_cvars
=============================================================================
