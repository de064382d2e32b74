--------------------------- MODULE EventHandlers ---------------------------
(***************************************************************************)
(* The handlers of EventDispatcher, src/revitpy/events/dispatcher.py, and  *)
(* what becomes of one event: _process_event_immediate() on one thread,    *)
(* over the lists that register_handler() and unregister_handler() change  *)
(* from any thread, a handler's own calls among them.  The lists have no   *)
(* lock: every access is a step, and list.sort() takes the items out of    *)
(* the list while it calls the key function, so that others see none.      *)
(*                                                                         *)
(* One type of event: "typed" is its list in _handlers, "global" is        *)
(* _global_handlers.  Priorities are high, for handlers in Urgent, and     *)
(* normal.  Handlers and filters are user code.                            *)
(***************************************************************************)
EXTENDS Naturals, Sequences, FiniteSets

CONSTANTS
    Handler,
    Urgent,      \* handlers of high priority
    Changer,     \* threads that change the lists; the one that processes
                 \* events, "events", does it in handlers and between events
    MaxErrors,   \* max_errors
    MaxChanges   \* bound on the calls that change something

ASSUME HandlersAssumption ==
    /\ Urgent \subseteq Handler /\ "events" \in Changer
    /\ MaxErrors \in Nat \ {0} /\ MaxChanges \in Nat

VARIABLES
    lists,      \* the two lists
    enabled,    \* metadata.enabled
    errors,     \* metadata.error_count
    change,     \* change[c]: the call that thread c is in
    changes,    \* calls so far
    event,      \* where _process_event_immediate() is
    snapshot,   \* handlers that it has yet to call
    called,     \* handlers that it has called
    registered, \* how often each handler is registered
    owed,       \* how often it was when the event began
    touched,    \* handlers disabled then, or changed or failed since
    upset       \* calls that overlapped: "no", with the reading of the lists
                \* for this "event", or with one another: the "lists"

listVars == <<lists, change, changes, registered>>
eventVars == <<event, snapshot, called, owed>>
handlerVars == <<listVars, enabled, errors, eventVars, touched, upset>>

NoChange == [at |-> "none", h |-> "none", left |-> <<>>, items |-> <<>>]

HandlersInit ==
    /\ lists = [l \in {"typed", "global"} |-> <<>>]
    /\ enabled = [h \in Handler |-> TRUE]
    /\ errors = [h \in Handler |-> 0]
    /\ change = [c \in Changer |-> NoChange]
    /\ changes = 0
    /\ event = "none"
    /\ snapshot = <<>>
    /\ called = <<>>
    /\ registered = [h \in Handler |-> 0]
    /\ owed = registered
    /\ touched = {}
    /\ upset = "no"

IsEnabled(h) == enabled[h] /\ errors[h] < MaxErrors

(* sort(key=lambda h: h.priority.value, reverse=True) is stable: an item   *)
(* comes after the higher ones, and those of its own priority before it.   *)
ComesFirst(s, j, i) ==
    IF s[j] \in Urgent <=> s[i] \in Urgent THEN j < i ELSE s[j] \in Urgent

Rank(s, i) == 1 + Cardinality({j \in DOMAIN s : ComesFirst(s, j, i)})

ByPriority(s) ==
    [k \in DOMAIN s |-> s[CHOOSE i \in DOMAIN s : Rank(s, i) = k]]

Without(s, h) ==
    LET i == CHOOSE i \in DOMAIN s : s[i] = h /\ \A j \in 1 .. i - 1 : s[j] # h
    IN SubSeq(s, 1, i - 1) \o SubSeq(s, i + 1, Len(s))

IsIn(h, s) == \E i \in DOMAIN s : s[i] = h
-----------------------------------------------------------------------------
(* Calls that change the lists or a handler                                *)
MayCall(c) ==
    /\ change[c].at = "none" /\ changes < MaxChanges
    /\ c = "events" => event \in {"none", "handler"}

Begins(c, h, at, ls) ==
    /\ MayCall(c)
    /\ change' = [change EXCEPT ![c] =
                    [at |-> at, h |-> h, left |-> ls, items |-> <<>>]]
    /\ changes' = changes + 1
    /\ touched' = touched \cup {h}
    /\ upset' = IF \E d \in Changer \ {c} : change[d].at # "none" THEN "lists"
                ELSE IF event = "reading" /\ upset = "no" THEN "event"
                ELSE upset
    /\ UNCHANGED <<registered, enabled, errors, eventVars>>

RegisterHandler(c, h, l) ==
    /\ Begins(c, h, "sort", <<l>>)
    /\ lists' = [lists EXCEPT ![l] = Append(@, h)]

(* With event types, or with None: all lists.                              *)
UnregisterHandler(c, h, ls) ==
    /\ Begins(c, h, "find", ls)
    /\ UNCHANGED lists

SetEnabled(c, h, on) ==
    /\ MayCall(c)
    /\ enabled' = [enabled EXCEPT ![h] = on]
    /\ errors' \in {errors, [errors EXCEPT ![h] = 0]}
    /\ changes' = changes + 1
    /\ touched' = touched \cup {h}
    /\ UNCHANGED <<lists, change, registered, eventVars, upset>>

Sort(c) ==
    LET l == Head(change[c].left) IN
    /\ change[c].at = "sort"
    /\ change' = [change EXCEPT ![c].at = "sorting", ![c].items = lists[l]]
    /\ lists' = [lists EXCEPT ![l] = <<>>]
    /\ UNCHANGED <<changes, registered, enabled, errors, eventVars, touched,
                   upset>>

(* What others put into the list meanwhile is lost, and raises ValueError. *)
SortEnds(c) ==
    LET l == Head(change[c].left) IN
    /\ change[c].at = "sorting"
    /\ lists' = [lists EXCEPT ![l] = ByPriority(change[c].items)]
    /\ registered' = [registered EXCEPT ![change[c].h] = @ + 1]
    /\ change' = [change EXCEPT ![c] = NoChange]
    /\ UNCHANGED <<changes, enabled, errors, eventVars, touched, upset>>

NextList(c) ==
    LET left == change[c].left IN
    IF Len(left) = 1 THEN change' = [change EXCEPT ![c] = NoChange]
    ELSE change' = [change EXCEPT ![c].at = "find", ![c].left = Tail(left)]

Find(c) ==
    /\ change[c].at = "find"
    /\ IF IsIn(change[c].h, lists[Head(change[c].left)])
       THEN change' = [change EXCEPT ![c].at = "remove"]
       ELSE NextList(c)
    /\ UNCHANGED <<lists, changes, registered, enabled, errors, eventVars,
                   touched, upset>>

(* list.remove() raises when the handler has gone.                         *)
Remove(c) ==
    LET l == Head(change[c].left)
        h == change[c].h
    IN /\ change[c].at = "remove"
       /\ IF IsIn(h, lists[l])
          THEN /\ lists' = [lists EXCEPT ![l] = Without(@, h)]
               /\ registered' = [registered EXCEPT ![h] =
                                   IF @ > 0 THEN @ - 1 ELSE 0]
               /\ NextList(c)
          ELSE /\ change' = [change EXCEPT ![c] = NoChange]
               /\ UNCHANGED <<lists, registered>>
       /\ UNCHANGED <<changes, enabled, errors, eventVars, touched, upset>>

ChangeStep(c) == Sort(c) \/ SortEnds(c) \/ Find(c) \/ Remove(c)

CallChange(c) ==
    \E h \in Handler :
      \/ \E l \in DOMAIN lists : RegisterHandler(c, h, l)
      \/ \E ls \in {<<"typed">>, <<"global", "typed">>} :
           UnregisterHandler(c, h, ls)
      \/ \E on \in BOOLEAN : SetEnabled(c, h, on)
-----------------------------------------------------------------------------
(* An event.  get_handlers_for_event() reads the two lists in turn.        *)
BeginEvent ==
    /\ event = "none" /\ change["events"].at = "none"
    /\ event' = "reading"
    /\ snapshot' = lists["typed"]
    /\ called' = <<>>
    /\ owed' = registered
    /\ touched' = {h \in Handler : ~IsEnabled(h)}
    /\ upset' = IF upset = "lists" THEN upset
                ELSE IF \E c \in Changer : change[c].at # "none" THEN "event"
                ELSE "no"
    /\ UNCHANGED <<listVars, enabled, errors>>

(* Mutant: the global handlers come last, whatever their priority.         *)
ReadGlobalLast ==
    /\ event = "reading"
    /\ event' = "calling"
    /\ snapshot' = snapshot \o lists["global"]
    /\ UNCHANGED <<listVars, enabled, errors, called, owed, touched, upset>>

ReadGlobal ==
    /\ event = "reading"
    /\ event' = "calling"
    /\ snapshot' = ByPriority(snapshot \o lists["global"])
    /\ UNCHANGED <<listVars, enabled, errors, called, owed, touched, upset>>

Over ==
    /\ event' = "none"
    /\ snapshot' = <<>>
    /\ UNCHANGED <<listVars, enabled, called, owed, upset>>

NotNow == UNCHANGED <<listVars, enabled, owed, upset>>

Calling == event = "calling" /\ snapshot # <<>>

(* should_handle(): disabled, or refused by its filter.                    *)
SkipHandler ==
    /\ Calling
    /\ snapshot' = Tail(snapshot)
    /\ touched' = touched \cup {Head(snapshot)}
    /\ UNCHANGED <<errors, event, called>> /\ NotNow

(* A filter is outside the try: its exception is the end of the event.     *)
FilterRaises ==
    /\ Calling /\ IsEnabled(Head(snapshot))
    /\ Over
    /\ UNCHANGED <<errors, touched>>

CallHandler ==
    /\ Calling /\ IsEnabled(Head(snapshot))
    /\ event' = "handler"
    /\ called' = Append(called, Head(snapshot))
    /\ UNCHANGED <<errors, snapshot, touched>> /\ NotNow

InHandler == event = "handler" /\ change["events"].at = "none"

HandlerReturns ==
    /\ InHandler
    /\ event' = "calling"
    /\ snapshot' = Tail(snapshot)
    /\ UNCHANGED <<errors, called, touched>> /\ NotNow

(* STOP, or CANCEL of an event that can be cancelled.                      *)
HandlerStopsEvent ==
    /\ InHandler
    /\ Over
    /\ UNCHANGED <<errors, touched>>

HandlerRaises ==
    /\ InHandler
    /\ event' = "calling"
    /\ snapshot' = Tail(snapshot)
    /\ errors' = [errors EXCEPT ![Head(snapshot)] = @ + 1]
    /\ touched' = touched \cup {Head(snapshot)}
    /\ UNCHANGED called /\ NotNow

EventEnds ==
    /\ event = "calling" /\ snapshot = <<>>
    /\ Over
    /\ UNCHANGED <<errors, touched>>

HandlersNext ==
    \/ \E c \in Changer : CallChange(c) \/ ChangeStep(c)
    \/ BeginEvent \/ ReadGlobal
    \/ SkipHandler \/ FilterRaises \/ CallHandler
    \/ HandlerReturns \/ HandlerStopsEvent \/ HandlerRaises
    \/ EventEnds

HandlersSpec == HandlersInit /\ [][HandlersNext]_handlerVars
-----------------------------------------------------------------------------
Calls(h) == Cardinality({i \in DOMAIN called : called[i] = h})

(* An event goes to the handlers that were registered when it began, once  *)
(* for each registration and high priority first, whatever they register   *)
(* and unregister meanwhile; it goes to all of them that stay enabled,     *)
(* unless one stops it.  Not so when another thread is in a call while the *)
(* lists are read, or was in one beside another: register_handler() sorts  *)
(* the list that is read, and takes everything out of it to do so.         *)
HandlersAreCalled ==
    event # "none" /\ upset = "no" =>
      /\ \A h \in Handler : Calls(h) <= owed[h]
      /\ \A i, j \in DOMAIN called :
           i < j /\ called[j] \in Urgent => called[i] \in Urgent
      /\ event = "calling" /\ snapshot = <<>> =>
           \A h \in Handler \ touched : Calls(h) = owed[h]
=============================================================================
