-------------------------- MODULE ExtensionManager --------------------------
(***************************************************************************)
(* ExtensionManager of src/revitpy/extensions/manager.py with the life     *)
(* cycle of Extension (extension.py): tasks of an event loop load, unload, *)
(* activate, deactivate and shut down.  load and unload hold _load_lock,   *)
(* the others do not.  A hook of an extension (load, activate, deactivate, *)
(* dispose) is user code, which returns or raises; other tasks run while   *)
(* it is awaited, and a step goes from one hook to the next.               *)
(*                                                                         *)
(* An extension is listed under its id and its name, here as one entry,    *)
(* and every load makes a new object.  Dependency resolution and automatic *)
(* activation are on, the defaults.  Left out: callbacks (their errors are *)
(* swallowed), the discovery of files, the container's services.           *)
(***************************************************************************)
EXTENDS AsyncLock, Integers, FiniteSets

CONSTANTS
    Extension,       \* extensions in the registry
    DependsOn,       \* DependsOn[x]: the dependencies of x
    MaxManagerCalls  \* bound on the calls, each of which makes one object

ASSUME ManagerAssumption ==
    /\ DependsOn \in [Extension -> SUBSET Extension]
    /\ MaxManagerCalls \in Nat

Object == 1 .. MaxManagerCalls

VARIABLES
    registered,   \* the registry is not cleared
    listed,       \* _extensions: the object of a listed extension
    order,        \* _extension_order
    status,       \* status[o] of an object
    objects,      \* objects made so far
    doing,        \* doing[t]: the method a task is in, and the hook it awaits
    stopping,     \* how far the loops of shutdown() are
    initialized,  \* _is_initialized, and not _is_shutting_down
    overlapped,   \* objects activated while a call took their extension out
    managerCalls  \* calls so far

tables == <<registered, listed, order>>
managerVars == <<lockVars, tables, status, objects, doing, stopping,
                 initialized, overlapped, managerCalls>>

Idle == [op |-> "none", x |-> "none", o |-> 0, at |-> "none"]
NotStopping == [index |-> 0, size |-> 0, seen |-> {}]
NothingListed == [x \in {} |-> 0]

IsLoaded(o) == status[o] \notin {"unloaded", "error", "disposed"}
IsListed(x) == x \in DOMAIN listed

ManagerInit ==
    /\ LockInit
    /\ registered = TRUE
    /\ listed = NothingListed
    /\ order = <<>>
    /\ status = [o \in Object |-> "unloaded"]
    /\ objects = 0
    /\ doing = [t \in Task |-> Idle]
    /\ stopping = NotStopping
    /\ initialized = TRUE
    /\ overlapped = {}
    /\ managerCalls = 0
-----------------------------------------------------------------------------
(* One task activates an object while another is about to take, or replace,*)
(* what its extension has in the tables.                                   *)
Loads == {"load", "load_to_activate"}
Activating(t) == doing[t].at \in {"loading", "reloading", "activating"}
TakesOut(t, x) ==
    \/ doing[t].op = "shutdown"
    \/ doing[t].op \in Loads \cup {"unload"} /\ doing[t].x = x
         /\ doing[t].at # "waits"
Overlap ==
    {doing[t].o : t \in {s \in Task : Activating(s) /\
                           \E u \in Task \ {s} : TakesOut(u, doing[s].x)}}
Records == overlapped' = overlapped \cup Overlap'

(* The rest of a step of task t, over the status st that its hook left:    *)
(* the next hook is awaited, or the call returns.                          *)
Awaits(t, call, st, during) ==
    /\ doing' = [doing EXCEPT ![t] = call]
    /\ status' = [st EXCEPT ![call.o] = during]
Returns(t, st) ==
    /\ doing' = [doing EXCEPT ![t] = Idle]
    /\ status' = st

(* Extension.activate_extension(), for activate_extension() of the manager *)
Activates(t, x, st) ==
    LET o == listed[x]
        call == [op |-> "activate", x |-> x, o |-> o, at |-> "activating"]
    IN CASE st[o] = "active" -> Returns(t, st)
         [] st[o] \in {"unloaded", "error", "disposed"} ->
              Awaits(t, [call EXCEPT !.at = "reloading"], st, "loading")
         [] OTHER -> Awaits(t, call, st, "initializing")

(* load_extension() gives the lock back; when activate_extension() called  *)
(* it, that goes on with what is listed by now.                            *)
LoadReturns(t, success, st) ==
    /\ Releases
    /\ IF success /\ doing[t].op = "load_to_activate" /\ IsListed(doing[t].x)
       THEN Activates(t, doing[t].x, st)
       ELSE Returns(t, st)

(* Extension.dispose_extension(); when there is no hook left, what follows *)
(* it is Done.                                                             *)
Disposes(t, call, st) ==
    IF st[call.o] = "active"
    THEN Awaits(t, [call EXCEPT !.at = "deactivating"], st, "deactivating")
    ELSE Awaits(t, [call EXCEPT !.at = "disposing"], st, st[call.o])

Without(q, x) ==
    IF \E i \in DOMAIN q : q[i] = x
    THEN LET at == CHOOSE i \in DOMAIN q : q[i] = x
         IN SubSeq(q, 1, at - 1) \o SubSeq(q, at + 1, Len(q))
    ELSE q

Unlists(x) ==
    /\ listed' = [y \in DOMAIN listed \ {x} |-> listed[y]]
    /\ order' = Without(order, x)
    /\ UNCHANGED registered

(* unload_extension() disposes the object, or finds that done.             *)
UnloadDisposes(t, x, o, st) ==
    LET call == [op |-> "unload", x |-> x, o |-> o, at |-> "none"] IN
    IF st[o] = "disposed"
    THEN Unlists(x) /\ Releases /\ Returns(t, st)
    ELSE Disposes(t, call, st) /\ UNCHANGED <<tables, lockVars>>

(* shutdown() is over: with empty tables, or with an error that left them. *)
ShutdownEnds(t, st, cleared) ==
    /\ Returns(t, st)
    /\ stopping' = NotStopping
    /\ IF cleared
       THEN registered' = FALSE /\ listed' = NothingListed /\ order' = <<>>
       ELSE UNCHANGED tables

(* The loop over _extensions.values(), in any order here, raises when the  *)
(* number of entries has changed.                                          *)
ShutdownDisposes(t, st, seen, size) ==
    LET left == {x \in DOMAIN listed \ seen : st[listed[x]] # "disposed"} IN
    IF Cardinality(DOMAIN listed) # size THEN ShutdownEnds(t, st, FALSE)
    ELSE IF left = {} THEN ShutdownEnds(t, st, TRUE)
    ELSE \E x \in left :
           /\ Disposes(t, [op |-> "shutdown", x |-> x, o |-> listed[x],
                           at |-> "none"], st)
           /\ stopping' = [index |-> 0, size |-> size, seen |-> seen \cup {x}]
           /\ UNCHANGED tables

(* The loop over reversed(_extension_order), from index on, which ends when*)
(* the list has become shorter than that.                                  *)
ShutdownDeactivates(t, st, index) ==
    LET active == {i \in 1 .. index : /\ index <= Len(order)
                                      /\ IsListed(order[i])
                                      /\ st[listed[order[i]]] = "active"}
        last == CHOOSE i \in active : \A j \in active : j <= i
    IN IF active = {}
       THEN ShutdownDisposes(t, st, {}, Cardinality(DOMAIN listed))
       ELSE /\ Awaits(t, [op |-> "shutdown", x |-> order[last],
                          o |-> listed[order[last]], at |-> "deactivating"],
                     st, "deactivating")
            /\ stopping' = [NotStopping EXCEPT !.index = last]
            /\ UNCHANGED tables
-----------------------------------------------------------------------------
(* The calls                                                               *)
Begins(t) ==
    /\ doing[t].op = "none"
    /\ managerCalls < MaxManagerCalls
    /\ managerCalls' = managerCalls + 1

AsksForLock(t, op, x) ==
    /\ Acquires(t)
    /\ doing' = [doing EXCEPT ![t] =
                    [op |-> op, x |-> x, o |-> 0, at |-> "waits"]]
    /\ UNCHANGED <<tables, status, objects, stopping, initialized>>

CallLocked(t, op, x) ==
    /\ Begins(t)
    /\ AsksForLock(t, op, x)
    /\ Records

CallActivate(t, x) ==
    /\ Begins(t)
    /\ IF IsListed(x)
       THEN /\ Activates(t, x, status)
            /\ UNCHANGED <<tables, lockVars, objects, stopping, initialized>>
       ELSE AsksForLock(t, "load_to_activate", x)
    /\ Records

CallDeactivate(t, x) ==
    /\ Begins(t)
    /\ IsListed(x) /\ status[listed[x]] = "active"
    /\ Awaits(t, [op |-> "deactivate", x |-> x, o |-> listed[x],
                  at |-> "deactivating"], status, "deactivating")
    /\ UNCHANGED <<tables, lockVars, objects, stopping, initialized>>
    /\ Records

CallShutdown(t) ==
    /\ Begins(t)
    /\ initialized
    /\ initialized' = FALSE
    /\ ShutdownDeactivates(t, status, Len(order))
    /\ UNCHANGED <<lockVars, objects>>
    /\ Records
-----------------------------------------------------------------------------
(* What a call does with the lock                                          *)
Runs(t, ops) == Holds(t) /\ doing[t].at = "waits" /\ doing[t].op \in ops
Missing(x) == DependsOn[x] \ DOMAIN listed

(* The extension is loaded, or its metadata are gone.                      *)
LoadFindsNothingToDo(t) ==
    /\ Runs(t, Loads)
    /\ LET x == doing[t].x
           loaded == IsListed(x) /\ IsLoaded(listed[x])
       IN /\ loaded \/ ~registered
          /\ LoadReturns(t, loaded, status)
    /\ UNCHANGED <<tables, objects, stopping, initialized, managerCalls>>
    /\ Records

(* Mutant: what is loaded is loaded again.                                 *)
ToBeLoadedAgain(t) == Runs(t, Loads) /\ registered

ToBeLoaded(t) ==
    LET x == doing[t].x IN
    Runs(t, Loads) /\ registered /\ ~(IsListed(x) /\ IsLoaded(listed[x]))

(* _resolve_dependencies() calls load_extension().                         *)
LoadWaitsForItself(t) ==
    /\ ToBeLoaded(t) /\ Missing(doing[t].x) # {}
    /\ WaitsForItself(t)
    /\ UNCHANGED <<tables, status, objects, doing, stopping, initialized,
                   overlapped, managerCalls>>

LoadMakesObject(t) ==
    /\ ToBeLoaded(t) /\ Missing(doing[t].x) = {}
    /\ objects' = objects + 1
    /\ Awaits(t, [doing[t] EXCEPT !.at = "loading", !.o = objects'], status,
              "loading")
    /\ UNCHANGED <<tables, lockVars, stopping, initialized, managerCalls>>
    /\ Records

UnloadRuns(t) ==
    /\ Runs(t, {"unload"})
    /\ LET x == doing[t].x IN
       IF IsListed(x) THEN UnloadDisposes(t, x, listed[x], status)
       ELSE Releases /\ Returns(t, status) /\ UNCHANGED tables
    /\ UNCHANGED <<objects, stopping, initialized, managerCalls>>
    /\ Records
-----------------------------------------------------------------------------
(* A hook returns, or raises.                                              *)
After(t, st) == [status EXCEPT ![doing[t].o] = st]

LoadHookEnds(t) ==
    /\ doing[t].at = "loading"
    /\ \/ LET x == doing[t].x IN
          /\ listed' = [y \in DOMAIN listed \cup {x} |->
                          IF y = x THEN doing[t].o ELSE listed[y]]
          /\ order' = IF x \in {order[i] : i \in DOMAIN order} THEN order
                      ELSE Append(order, x)
          /\ Awaits(t, [doing[t] EXCEPT !.at = "activating"], status,
                    "initializing")
          /\ UNCHANGED <<registered, lockVars>>
       \/ LoadReturns(t, FALSE, After(t, "error")) /\ UNCHANGED tables
    /\ UNCHANGED <<objects, stopping, initialized, managerCalls>>
    /\ Records

ReloadHookEnds(t) ==
    /\ doing[t].at = "reloading"
    /\ \/ Awaits(t, [doing[t] EXCEPT !.at = "activating"], status,
                 "initializing")
       \/ Returns(t, After(t, "error"))
    /\ UNCHANGED <<tables, lockVars, objects, stopping, initialized,
                   managerCalls>>
    /\ Records

ActivateHookEnds(t) ==
    /\ doing[t].at = "activating"
    /\ \E st \in {"active", "error"} :
         IF doing[t].op \in Loads THEN LoadReturns(t, TRUE, After(t, st))
         ELSE Returns(t, After(t, st)) /\ UNCHANGED lockVars
    /\ UNCHANGED <<tables, objects, stopping, initialized, managerCalls>>
    /\ Records

DeactivateHookEnds(t) ==
    /\ doing[t].at = "deactivating"
    /\ \E st \in {"deactivated", "error"} :
         LET now == After(t, st) IN
         \/ /\ doing[t].op = "deactivate"
            /\ Returns(t, now)
            /\ UNCHANGED <<tables, lockVars, stopping>>
         \/ /\ doing[t].op = "unload"
            /\ UnloadDisposes(t, doing[t].x, doing[t].o, now)
            /\ UNCHANGED stopping
         \/ /\ doing[t].op = "shutdown" /\ stopping.index > 0
            /\ ShutdownDeactivates(t, now, stopping.index - 1)
            /\ UNCHANGED lockVars
         \/ /\ doing[t].op = "shutdown" /\ stopping.index = 0
            /\ Disposes(t, doing[t], now)
            /\ UNCHANGED <<tables, lockVars, stopping>>
    /\ UNCHANGED <<objects, initialized, managerCalls>>
    /\ Records

DisposeHookEnds(t) ==
    /\ doing[t].at = "disposing"
    /\ \E st \in {"disposed", "error"} :
         LET now == After(t, st) IN
         \/ /\ doing[t].op = "unload"
            /\ Unlists(doing[t].x) /\ Releases /\ Returns(t, now)
            /\ UNCHANGED stopping
         \/ /\ doing[t].op = "shutdown"
            /\ ShutdownDisposes(t, now, stopping.seen, stopping.size)
            /\ UNCHANGED lockVars
    /\ UNCHANGED <<objects, initialized, managerCalls>>
    /\ Records

HookEnds(t) ==
    \/ LoadHookEnds(t)
    \/ ReloadHookEnds(t)
    \/ ActivateHookEnds(t)
    \/ DeactivateHookEnds(t)
    \/ DisposeHookEnds(t)

LockedCallRuns(t) ==
    \/ LoadFindsNothingToDo(t)
    \/ LoadWaitsForItself(t)
    \/ LoadMakesObject(t)
    \/ UnloadRuns(t)

ManagerNext ==
    \E t \in Task :
      \/ \E x \in Extension :
           \/ CallLocked(t, "load", x)
           \/ CallLocked(t, "unload", x)
           \/ CallActivate(t, x)
           \/ CallDeactivate(t, x)
      \/ CallShutdown(t)
      \/ LockedCallRuns(t)
      \/ HookEnds(t)

(* The event loop runs what is ready, and the hooks end.                   *)
ManagerFairness ==
    \A t \in Task : WF_managerVars(LockedCallRuns(t) \/ HookEnds(t))

ManagerSpec == ManagerInit /\ [][ManagerNext]_managerVars /\ ManagerFairness
-----------------------------------------------------------------------------
(* An extension that is active can be found, to be deactivated or unloaded:*)
(* its object is the one in the tables, over failing hooks, failed loads,  *)
(* reloads of what failed and shutdowns that stop half way - except for an *)
(* object whose activation, which takes no lock, ran beside the call that  *)
(* took its extension out of the tables.                                   *)
ActiveIsListed ==
    \A o \in Object : status[o] = "active"
      => o \in overlapped \/ \E x \in DOMAIN listed : listed[x] = o
=============================================================================
