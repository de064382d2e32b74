-------------------------- MODULE InterpreterPool --------------------------
(***************************************************************************)
(* PythonInterpreterPool of src/src/RevitPy.Runtime: interpreters that     *)
(* threads rent, over a semaphore, a queue of available interpreters, a    *)
(* dictionary of all of them and one of the rented.  Each is safe by       *)
(* itself and nothing makes two accesses one, so every access that decides *)
(* something is a step.  The pool starts initialized (RentAsync() refuses  *)
(* before); interpreters are numbered in the order they are created.       *)
(*                                                                         *)
(* An interpreter is unhealthy at its return when it was disposed or is    *)
(* busy, and the timers' health check and collection make any interpreter  *)
(* busy at any time.  Statistics, the Dispose() of the pool and times are  *)
(* left out.                                                               *)
(***************************************************************************)
EXTENDS Integers, Sequences, FiniteSets

CONSTANTS
    Renter,           \* the callers of RentAsync()
    MaxInterpreters,  \* options.MaxInterpreters
    MaxCreated        \* bound on the interpreters that are ever created

ASSUME PoolAssumption ==
    /\ MaxInterpreters \in Nat \ {0} /\ MaxCreated \in Nat
    /\ MaxCreated >= MaxInterpreters
    /\ IsFiniteSet(Renter) /\ 0 \notin Renter

Interpreter == 1 .. MaxCreated
Initial == IF MaxInterpreters < 2 THEN MaxInterpreters ELSE 2

VARIABLES
    slots,      \* the count of _semaphore
    available,  \* _availableInterpreters
    pooled,     \* _allInterpreters
    rented,     \* _rentedInterpreters: whose rental, 0 for none
    dead,       \* interpreters that were disposed
    replacing,  \* background tasks that are to replace interpreter i
    refills,    \* background tasks that create a replacement
    at,         \* at[r]: where caller r is
    has,        \* has[r]: the interpreter of caller r, 0 for none
    created,    \* interpreters created so far
    handed,     \* those that RentAsync() created and gave to its caller
    reset,      \* ResetPoolAsync(): "off", or what it does next
    lent        \* nothing has upset the count of the slots

tables == <<available, pooled, rented, dead>>
tasks == <<replacing, refills>>
poolVars == <<slots, tables, tasks, at, has, created, handed, reset, lent>>

PoolInit ==
    /\ slots = MaxInterpreters
    /\ available = [i \in 1 .. Initial |-> i]
    /\ pooled = 1 .. Initial
    /\ rented = [i \in Interpreter |-> 0]
    /\ dead = {}
    /\ replacing = [i \in Interpreter |-> 0]
    /\ refills = 0
    /\ at = [r \in Renter |-> "out"]
    /\ has = [r \in Renter |-> 0]
    /\ created = Initial
    /\ handed = {}
    /\ reset = "off"
    /\ lent = TRUE

GoTo(r, place) == at' = [at EXCEPT ![r] = place]

(* Release() of a full semaphore raises and changes nothing.               *)
Release ==
    slots' = IF slots < MaxInterpreters THEN slots + 1 ELSE slots
-----------------------------------------------------------------------------
(* RentAsync()                                                             *)
Rent(r) ==
    /\ at[r] = "out"
    /\ GoTo(r, "waits")
    /\ UNCHANGED <<slots, tables, tasks, has, created, handed, reset, lent>>

Acquire(r) ==
    /\ at[r] = "waits" /\ slots > 0
    /\ slots' = slots - 1
    /\ GoTo(r, "dequeues")
    /\ UNCHANGED <<tables, tasks, has, created, handed, reset, lent>>

(* The wait times out or is cancelled; the handler that follows releases   *)
(* a slot that was not taken.                                              *)
WaitFails(r) ==
    /\ at[r] = "waits"
    /\ GoTo(r, "raises")
    /\ lent' = FALSE
    /\ UNCHANGED <<slots, tables, tasks, has, created, handed, reset>>

TakeFirst(r) ==
    /\ available # <<>>
    /\ has' = [has EXCEPT ![r] = Head(available)]
    /\ available' = Tail(available)
    /\ GoTo(r, "took")
    /\ UNCHANGED <<slots, pooled, rented, dead, tasks, created, handed,
                   reset, lent>>

Dequeue(r) == at[r] = "dequeues" /\ TakeFirst(r)

DequeueFindsNone(r) ==
    /\ at[r] = "dequeues" /\ available = <<>>
    /\ GoTo(r, IF Cardinality(pooled) < MaxInterpreters THEN "creates"
                                                        ELSE "polls")
    /\ UNCHANGED <<slots, tables, tasks, has, created, handed, reset, lent>>

Poll(r) == at[r] = "polls" /\ TakeFirst(r)

(* This throws out of the try, after a release of its own.                 *)
PollTimesOut(r) ==
    /\ at[r] = "polls" /\ available = <<>>
    /\ Release
    /\ GoTo(r, "raises")
    /\ lent' = FALSE
    /\ UNCHANGED <<tables, tasks, has, created, handed, reset>>

PollCancelled(r) ==
    /\ at[r] = "polls"
    /\ GoTo(r, "raises")
    /\ UNCHANGED <<slots, tables, tasks, has, created, handed, reset, lent>>

(* CreateInterpreterAsync() puts the new interpreter on the queue.         *)
Create ==
    /\ created < MaxCreated
    /\ created' = created + 1
    /\ pooled' = pooled \cup {created'}
    /\ available' = Append(available, created')

RentCreates(r) ==
    /\ at[r] = "creates"
    /\ Create
    /\ has' = [has EXCEPT ![r] = created']
    /\ handed' = handed \cup {created'}
    /\ GoTo(r, "took")
    /\ UNCHANGED <<slots, rented, dead, tasks, reset, lent>>

CreateFails(r) ==
    /\ at[r] = "creates"
    /\ GoTo(r, "raises")
    /\ UNCHANGED <<slots, tables, tasks, has, created, handed, reset, lent>>

Register(r) ==
    /\ at[r] = "took"
    /\ rented' = [rented EXCEPT ![has[r]] = r]
    /\ GoTo(r, "holds")
    /\ UNCHANGED <<slots, available, pooled, dead, tasks, has, created,
                   handed, reset, lent>>

(* The handlers of RentAsync().                                            *)
Raise(r) ==
    /\ at[r] = "raises"
    /\ Release
    /\ GoTo(r, "out")
    /\ UNCHANGED <<tables, tasks, has, created, handed, reset, lent>>
-----------------------------------------------------------------------------
(* ReturnInterpreter()                                                     *)
Leave(r) == GoTo(r, "out") /\ has' = [has EXCEPT ![r] = 0]

(* A caller whose rental was forced back may use the interpreter on; its   *)
(* Dispose() then does nothing.                                            *)
ForcedLeaves(r) ==
    /\ at[r] = "forced"
    /\ Leave(r)
    /\ UNCHANGED <<slots, tables, tasks, created, handed, reset, lent>>

ReturnUnknown(r) ==
    /\ at[r] = "holds" /\ has[r] \notin pooled
    /\ Leave(r)
    /\ lent' = FALSE
    /\ UNCHANGED <<slots, tables, tasks, created, handed, reset>>

Unrent(r) ==
    /\ at[r] = "holds" /\ has[r] \in pooled
    /\ rented' = [rented EXCEPT ![has[r]] = 0]
    /\ GoTo(r, "returns")
    /\ UNCHANGED <<slots, available, pooled, dead, tasks, has, created,
                   handed, reset, lent>>

ReturnHealthy(r) ==
    /\ at[r] = "returns" /\ has[r] \notin dead
    /\ available' = Append(available, has[r])
    /\ GoTo(r, "releases")
    /\ UNCHANGED <<slots, pooled, rented, dead, tasks, has, created,
                   handed, reset, lent>>

(* Mutant: an unhealthy interpreter is put back on the queue as well.      *)
ReturnUnhealthyAnyhow(r) ==
    /\ at[r] = "returns"
    /\ replacing' = [replacing EXCEPT ![has[r]] = @ + 1]
    /\ available' = Append(available, has[r])
    /\ GoTo(r, "releases")
    /\ UNCHANGED <<slots, pooled, rented, dead, refills, has, created, handed,
                   reset, lent>>

ReturnUnhealthy(r) ==
    /\ at[r] = "returns"
    /\ replacing' = [replacing EXCEPT ![has[r]] = @ + 1]
    /\ GoTo(r, "releases")
    /\ UNCHANGED <<slots, tables, refills, has, created, handed, reset, lent>>

(* Mutant: the slot of an interpreter that is replaced is not given back.  *)
ReturnReleasesHealthy(r) ==
    /\ at[r] = "releases"
    /\ IF replacing[has[r]] > 0 THEN UNCHANGED slots ELSE Release
    /\ Leave(r)
    /\ UNCHANGED <<tables, tasks, created, handed, reset, lent>>

(* The finally of ReturnInterpreter().                                     *)
ReturnReleases(r) ==
    /\ at[r] = "releases"
    /\ Release
    /\ Leave(r)
    /\ UNCHANGED <<tables, tasks, created, handed, reset, lent>>
-----------------------------------------------------------------------------
(* The background task that replaces an unhealthy interpreter.             *)
Replace(i) ==
    /\ replacing[i] > 0
    /\ replacing' = [replacing EXCEPT ![i] = @ - 1]
    /\ dead' = dead \cup {i}
    /\ pooled' = pooled \ {i}
    /\ refills' = refills + (IF Cardinality(pooled') < MaxInterpreters
                             THEN 1 ELSE 0)
    /\ UNCHANGED <<slots, available, rented, at, has, created, handed, reset,
                   lent>>

Refill ==
    /\ refills > 0
    /\ refills' = refills - 1
    /\ Create \/ UNCHANGED <<created, pooled, available>>
    /\ UNCHANGED <<slots, rented, dead, replacing, at, has, handed, reset,
                   lent>>

(* PerformCleanupAsync() forces back a rental of over half an hour.  It    *)
(* sees the rentals of the dictionary; the entry stays, and so does the    *)
(* slot.                                                                   *)
Forced == {r \in Renter : at[r] = "holds" /\ rented[has[r]] = r}

ForceReturn(r) ==
    /\ r \in Forced
    /\ GoTo(r, "forced")
    /\ lent' = FALSE
    /\ UNCHANGED <<slots, tables, tasks, has, created, handed, reset>>

(* ResetPoolAsync(): no rental is left, or half a minute has passed.  The  *)
(* InitializeAsync() at its end does nothing: the pool is initialized.     *)
ResetForces ==
    /\ reset = "off"
    /\ at' = [r \in Renter |-> IF r \in Forced THEN "forced" ELSE at[r]]
    /\ lent' = FALSE
    /\ reset' = "disposes"
    /\ UNCHANGED <<slots, tables, tasks, has, created, handed>>

ResetDisposes ==
    /\ reset = "disposes"
    /\ dead' = dead \cup pooled
    /\ reset' = "drains"
    /\ UNCHANGED <<slots, available, pooled, rented, tasks, at, has, created,
                   handed, lent>>

ResetDrains ==
    /\ reset = "drains"
    /\ available' = <<>>
    /\ reset' = "clears"
    /\ UNCHANGED <<slots, pooled, rented, dead, tasks, at, has, created,
                   handed, lent>>

ResetClears ==
    /\ reset = "clears"
    /\ pooled' = {}
    /\ rented' = [i \in Interpreter |-> 0]
    /\ reset' = "off"
    /\ UNCHANGED <<slots, available, dead, tasks, at, has, created, handed,
                   lent>>

RenterStep(r) ==
    \/ Rent(r) \/ Acquire(r) \/ WaitFails(r)
    \/ Dequeue(r) \/ DequeueFindsNone(r)
    \/ Poll(r) \/ PollTimesOut(r) \/ PollCancelled(r)
    \/ RentCreates(r) \/ CreateFails(r) \/ Register(r) \/ Raise(r)
    \/ ForcedLeaves(r) \/ ReturnUnknown(r) \/ Unrent(r)
    \/ ReturnHealthy(r) \/ ReturnUnhealthy(r) \/ ReturnReleases(r)

PoolNext ==
    \/ \E r \in Renter : RenterStep(r) \/ ForceReturn(r)
    \/ \E i \in Interpreter : Replace(i)
    \/ Refill
    \/ ResetForces \/ ResetDisposes \/ ResetDrains \/ ResetClears

PoolSpec == PoolInit /\ [][PoolNext]_poolVars
-----------------------------------------------------------------------------
PoolTypeOK ==
    /\ slots \in 0 .. MaxInterpreters
    /\ available \in Seq(Interpreter)
    /\ pooled \subseteq Interpreter /\ dead \subseteq Interpreter
    /\ replacing \in [Interpreter -> Nat] /\ handed \subseteq Interpreter
    /\ rented \in [Interpreter -> Renter \cup {0}]
    /\ refills \in Nat /\ created \in Interpreter
    /\ has \in [Renter -> Interpreter \cup {0}]
    /\ reset \in {"off", "disposes", "drains", "clears"}
    /\ lent \in BOOLEAN

Queued(i) == Cardinality({k \in DOMAIN available : available[k] = i})

(* An interpreter is in one place - on the queue, with one caller or about *)
(* to be replaced - through returns, replacements, forced returns and      *)
(* resets in any order, unless RentAsync() created it: then it is on the   *)
(* queue and with its caller from the start.                               *)
OnePlaceEach ==
    \A i \in 1 .. created \ handed :
        Queued(i) + Cardinality({r \in Renter : at[r] # "releases" /\ has[r] = i})
          + replacing[i] <= 1

(* The semaphore counts the callers between their wait and their return,   *)
(* those whose creation fails or whose poll is cancelled included, until a *)
(* caller times out, or is cancelled in the wait (a slot too many), or a   *)
(* rental is forced back or its interpreter has left the pool (a slot      *)
(* lost).                                                                  *)
SlotsCount ==
    lent => slots + Cardinality({r \in Renter : at[r] \notin {"out", "waits"}})
              = MaxInterpreters

(* tests/RevitPy.Tests/Runtime/PythonInterpreterPoolTests.cs:79: callers   *)
(* that rent at the same time get interpreters of their own.  (Nothing has *)
(* failed there, and the pool is not reset.)                               *)
RentedOnce ==
    lent => \A r, s \in Renter :
        r # s /\ at[r] = "holds" /\ at[s] = "holds" => has[r] # has[s]
=============================================================================
