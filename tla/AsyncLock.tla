----------------------------- MODULE AsyncLock -----------------------------
(***************************************************************************)
(* An asyncio.Lock, as the code under src/ uses it (`async with lock`):    *)
(* fair - a lock that is released goes to the task that has waited longest *)
(* - and not re-entrant: a task that asks for a lock it holds waits for    *)
(* itself.                                                                 *)
(***************************************************************************)
EXTENDS Sequences

CONSTANT Task

ASSUME LockAssumption == "nobody" \notin Task

VARIABLES
    holder,    \* the task that holds the lock, or "nobody"
    waiting,   \* tasks that wait for it, first come first
    stuck      \* tasks that wait for a lock they hold

lockVars == <<holder, waiting, stuck>>

LockInit ==
    /\ holder = "nobody"
    /\ waiting = <<>>
    /\ stuck = {}

Holds(t) == holder = t /\ t \notin stuck

(* An uncontended lock is taken without a pause.                           *)
Acquires(t) ==
    /\ IF holder = "nobody"
       THEN holder' = t /\ UNCHANGED waiting
       ELSE waiting' = Append(waiting, t) /\ UNCHANGED holder
    /\ UNCHANGED stuck

PassesTo(line) ==
    IF line = <<>> THEN holder' = "nobody" /\ waiting' = line
                   ELSE holder' = Head(line) /\ waiting' = Tail(line)

Releases == PassesTo(waiting) /\ UNCHANGED stuck

WaitsForItself(t) ==
    /\ stuck' = stuck \cup {t}
    /\ waiting' = Append(waiting, t)
    /\ UNCHANGED holder

(* A task that is cancelled while it waits for the lock, and one that waits*)
(* for itself, which leaves the lock it holds with it.                     *)
WaitersBut(t) == SelectSeq(waiting, LAMBDA u : u # t)

GivesUp(t) == waiting' = WaitersBut(t) /\ UNCHANGED <<holder, stuck>>

GivesUpBoth(t) == PassesTo(WaitersBut(t)) /\ stuck' = stuck \ {t}
-----------------------------------------------------------------------------
InLine(t) == holder = t \/ \E i \in DOMAIN waiting : waiting[i] = t

(* A task that asks for the lock gets it and gives it back, whatever fails *)
(* under it - unless a task has asked for it twice, and waits for itself   *)
(* with all the others behind it.                                          *)
LockServes ==
    \A t \in Task : InLine(t) ~> ~InLine(t) \/ stuck # {}
=============================================================================
