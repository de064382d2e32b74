----------------------------- MODULE OrmSession -----------------------------
(***************************************************************************)
(* RevitContext of src/revitpy/orm/context.py over the ChangeTracker of    *)
(* change_tracker.py and the cache of OrmCache: threads that read, change, *)
(* save, reject and drop elements of one context.                          *)
(*                                                                         *)
(* An element is one property with a value, and has one object (the       *)
(* provider answers an id with the object it has).  A key of the cache is  *)
(* made of a type and an id: get_by_id() uses the type it is asked for, a  *)
(* base or a protocol too, save_changes() the type of the object.  A       *)
(* snapshot has a property only if it is a public attribute or a property  *)
(* mapping that can be read (not what a property keeps in a private one).  *)
(*                                                                         *)
(* save_changes() and get_by_id() take no lock of the context: what other  *)
(* threads do comes between the reading of the changes, the commit of the  *)
(* unit of work, accept_changes() and the invalidation of the cache, and   *)
(* between the provider and the cache.                                     *)
(*                                                                         *)
(* The provider, the unit of work and the setters of user classes (which   *)
(* carry track_changes) are external: a commit writes the changes that     *)
(* were registered, or fails and writes nothing; a setter may fail when it *)
(* is called to revert.  A context may be without a unit of work.          *)
(* transaction() keeps no state: it ends with save_changes() or            *)
(* reject_changes(), which may come at any time.  Relationships, batch     *)
(* operations and callbacks are left out.                                  *)
(***************************************************************************)
EXTENDS OrmCache

CONSTANTS
    Element,   \* elements of the host
    KeysOf,    \* KeysOf[e]: the keys under which e may be asked for
    ExactKey,  \* ExactKey[e]: the one made of the type of its object
    Value,     \* values of an element
    NoValue    \* no value

ASSUME ValueAssumption == NoValue \notin Value

ASSUME KeysAssumption ==
    /\ KeysOf \in [Element -> SUBSET Key]
    /\ \A e \in Element : ExactKey[e] \in KeysOf[e]
    /\ \A e, f \in Element : KeysOf[e] \cap KeysOf[f] # {} => e = f

VARIABLES
    store,       \* what the host holds; NoValue: there is no such element
    object,      \* value of the element's object
    tracker,     \* _tracked_entities
    states,      \* _entity_states
    unit,        \* there is a unit of work
    saving,      \* where save_changes() stands
    changes,     \* the change sets it has read
    loading,     \* keys whose elements are between provider and cache
    disposed,    \* _is_disposed
    adrift,      \* elements whose snapshot is not what the host held
    unreverted,  \* elements a reject left changed and took for unchanged
    outrun       \* keys whose elements were deleted while being loaded

sessionVars == <<store, object, tracker, states, unit, saving, changes,
                 loading, disposed, adrift, unreverted, outrun>>
trackVars == <<tracker, states>>
saveVars == <<unit, saving, changes>>

EntityState == {"unchanged", "added", "modified", "deleted"}
Untracked == [state |-> "detached"]

(* original_values, current_values, property_changes of an EntityTracker.  *)
Tracker == [state : EntityState, original : Value \cup {NoValue},
            current : Value \cup {NoValue}, recorded : BOOLEAN]

Tracked == {e \in Element : tracker[e] # Untracked}
IsDirty(t) == t # Untracked /\ (t.state # "unchanged" \/ t.recorded)
Dirty == {e \in Element : IsDirty(tracker[e])}
Unsaved == Dirty \cup unreverted
NewValue(t) == IF t.current = NoValue THEN t.original ELSE t.current

NoChanges == [e \in Element |-> Untracked]

SessionTables ==
    /\ CacheInit
    /\ store \in [Element -> Value \cup {NoValue}]
    /\ object \in [Element -> Value]
    /\ \A e \in Element : store[e] # NoValue => object[e] = store[e]
    /\ tracker = [e \in Element |-> Untracked]
    /\ states = [e \in Element |-> "detached"]
    /\ unit \in BOOLEAN
    /\ saving = "no"
    /\ changes = NoChanges
    /\ loading = {}
    /\ adrift = {}
    /\ unreverted = {}
    /\ outrun = {}

SessionInit == SessionTables /\ disposed = FALSE
-----------------------------------------------------------------------------
(* EntityTracker and ChangeTracker.                                        *)
Snapshot(v) == [state |-> "unchanged", original |-> v,
                current |-> NoValue, recorded |-> FALSE]

(* What an attach makes of e, with or without its property in the snapshot.*)
Attached(e, v) == IF e \in Tracked THEN {tracker[e]}
                                   ELSE {Snapshot(v), Snapshot(NoValue)}

(* Mutant: setting a value again takes the element for unchanged.          *)
ChangedBack(t, old, new) ==
    [t EXCEPT !.recorded = old # new,
              !.state = IF old = new THEN "unchanged" ELSE "modified",
              !.current = new]

Changed(t, old, new) ==
    [t EXCEPT !.recorded = old # new,
              !.state = IF old # new /\ @ = "unchanged" THEN "modified" ELSE @,
              !.current = new]

Accepted(t) == [t EXCEPT !.original = NewValue(t), !.current = NoValue,
                         !.recorded = FALSE, !.state = "unchanged"]

Rejected(t) == [t EXCEPT !.current = NoValue, !.recorded = FALSE,
                         !.state = "unchanged"]

(* The tracker of one element becomes t, whose state enters the table too. *)
Track(e, t) ==
    /\ tracker' = [tracker EXCEPT ![e] = t]
    /\ states' = [states EXCEPT ![e] = t.state]

TrackAll(es, Step(_)) ==
    /\ tracker' = [e \in Element |->
                     IF e \in es THEN Step(tracker[e]) ELSE tracker[e]]
    /\ states' = [e \in Element |->
                    IF e \in es THEN "unchanged" ELSE states[e]]

(* reject_changes() for es: kept are the elements whose objects stay as    *)
(* they are, whose setter failed or whose property the snapshot has not.   *)
Unrestored(es) ==
    {kept \in SUBSET es : \A e \in es : tracker[e].original = NoValue => e \in kept}

Reverted(es, kept) ==
    [e \in Element |-> IF e \in es \ kept THEN tracker[e].original ELSE object[e]]

(* An attach takes the value v of the object for the original.             *)
AdriftBy(e, v) == adrift \cup (IF e \notin Tracked /\ v # store[e]
                                 THEN {e} ELSE {})
Attach(e) ==
    /\ \E t \in Attached(e, object[e]) : Track(e, t)
    /\ adrift' = AdriftBy(e, object[e])
-----------------------------------------------------------------------------
(* Calls of the context, each one step.                                    *)
GetById(e, k) ==
    /\ ~disposed
    /\ k \in KeysOf[e]
    /\ cache' = AfterGet(cache, k)
    /\ IF Answers(cache, k)
       THEN Attach(e) /\ UNCHANGED loading
       ELSE /\ loading' = IF store[e] = NoValue THEN loading
                                                ELSE loading \cup {k}
            /\ UNCHANGED <<trackVars, adrift>>
    /\ UNCHANGED <<store, object, saveVars, disposed, unreverted, outrun>>

Load(e, k) ==
    /\ k \in loading \cap KeysOf[e]
    /\ loading' = loading \ {k}
    /\ Attach(e)
    /\ cache' \in AfterSet(cache, k, {})
    /\ UNCHANGED <<store, object, saveVars, disposed, unreverted, outrun>>

AttachEntity(e) ==
    /\ ~disposed
    /\ Attach(e)
    /\ UNCHANGED <<cache, store, object, saveVars, loading, disposed,
                   unreverted, outrun>>

Detach(e) ==
    /\ ~disposed
    /\ tracker' = [tracker EXCEPT ![e] = Untracked]
    /\ states' = [states EXCEPT ![e] = "detached"]
    /\ adrift' = adrift \ {e}
    /\ unreverted' = unreverted \ {e}
    /\ UNCHANGED <<cache, store, object, saveVars, loading, disposed,
                   outrun>>

(* A setter under track_changes: an untracked element is attached when its *)
(* object has the new value already.                                       *)
SetValue(e, v) ==
    /\ ~disposed
    /\ object' = [object EXCEPT ![e] = v]
    /\ \E t \in Attached(e, v) : Track(e, Changed(t, object[e], v))
    /\ adrift' = AdriftBy(e, v)
    /\ unreverted' = IF object[e] = v THEN unreverted ELSE unreverted \ {e}
    /\ UNCHANGED <<cache, store, saveVars, loading, disposed, outrun>>

Mark(e, s) ==
    /\ ~disposed
    /\ \E t \in Attached(e, object[e]) : Track(e, [t EXCEPT !.state = s])
    /\ adrift' = AdriftBy(e, object[e])
    /\ UNCHANGED <<cache, store, object, saveVars, loading, disposed,
                   unreverted, outrun>>

Add(e) == store[e] = NoValue /\ Mark(e, "added")
Remove(e) == (store[e] # NoValue \/ e \in Tracked) /\ Mark(e, "deleted")

AcceptChanges(es) ==
    /\ ~disposed
    /\ TrackAll(es, Accepted)
    /\ adrift' = adrift \cup (es \cap Unsaved)
    /\ UNCHANGED <<cache, store, object, saveVars, loading, disposed,
                   unreverted, outrun>>

RejectChanges(es) ==
    /\ ~disposed
    /\ TrackAll(es, Rejected)
    /\ \E kept \in Unrestored(es) :
         /\ object' = Reverted(es, kept)
         /\ unreverted' = (unreverted \ (es \ kept)) \cup
              {e \in kept \cap Dirty : object[e] # tracker[e].original}
    /\ UNCHANGED <<cache, store, saveVars, loading, disposed, adrift,
                   outrun>>

CacheCall ==
    /\ ~disposed
    /\ \/ cache' = EmptyCache
       \/ \E k \in Key : \/ cache' = AfterDelete(cache, k)
                         \/ cache' = AfterPattern(cache, k)
    /\ UNCHANGED <<store, object, trackVars, saveVars, loading,
                   disposed, adrift, unreverted, outrun>>

Dispose ==
    /\ ~disposed
    /\ disposed' = TRUE
    /\ \/ Dirty = {} /\ UNCHANGED object
       \/ /\ Dirty # {}
          /\ \E kept \in Unrestored(Tracked) : object' = Reverted(Tracked, kept)
    /\ tracker' = [e \in Element |-> Untracked]
    /\ states' = [e \in Element |-> "detached"]
    /\ cache' = EmptyCache
    /\ adrift' = {} /\ unreverted' = {}
    /\ UNCHANGED <<store, saveVars, loading, outrun>>
-----------------------------------------------------------------------------
(* save_changes(), one at a time.                                          *)
Save ==
    /\ ~disposed
    /\ saving = "no" /\ Dirty # {}
    /\ saving' = "collected"
    /\ changes' = [e \in Element |-> IF e \in Dirty THEN tracker[e]
                                                    ELSE Untracked]
    /\ UNCHANGED <<cache, store, object, trackVars, unit, loading, disposed,
                   adrift, unreverted, outrun>>

(* What the unit of work makes of the change c to what the host has; a new *)
(* element whose change names no value has the one the host gives.         *)
Written(c, held, given) ==
    CASE c.state = "added" /\ NewValue(c) = NoValue -> given
      [] c.state = "added" /\ NewValue(c) # NoValue -> NewValue(c)
      [] c.state = "modified" /\ held # NoValue -> NewValue(c)
      [] c.state = "deleted" -> NoValue
      [] OTHER -> held

Commit ==
    /\ saving = "collected" /\ unit
    /\ saving' = "committed"
    /\ \E given \in Value :
         store' = [e \in Element |-> Written(changes[e], store[e], given)]
    /\ outrun' = outrun \cup
         UNION {loading \cap KeysOf[e] : e \in {f \in Element : store'[f] = NoValue}}
    /\ UNCHANGED <<cache, object, trackVars, unit, changes, loading, disposed,
                   adrift, unreverted>>

(* Without a unit of work nothing is written.                              *)
SkipCommit ==
    /\ saving = "collected" /\ ~unit
    /\ saving' = "committed"
    /\ UNCHANGED <<cache, store, object, trackVars, unit, changes, loading,
                   disposed, adrift, unreverted, outrun>>

(* Mutant: the failure of the unit of work is swallowed.                   *)
CommitFailsUnnoticed ==
    /\ saving = "collected" /\ unit
    /\ saving' = "committed"
    /\ UNCHANGED <<cache, store, object, trackVars, unit, changes, loading,
                   disposed, adrift, unreverted, outrun>>

CommitFails ==
    /\ saving = "collected" /\ unit
    /\ saving' = "no"
    /\ changes' = NoChanges
    /\ UNCHANGED <<cache, store, object, trackVars, unit, loading, disposed,
                   adrift, unreverted, outrun>>

(* What was changed since it was read, and what was saved without a value. *)
Late(e) ==
    IF changes[e] = Untracked THEN e \in Unsaved ELSE tracker[e] # changes[e]

Unvalued(e) == changes[e].state = "added" /\ NewValue(changes[e]) = NoValue

AcceptSaved ==
    /\ saving = "committed"
    /\ saving' = "accepted"
    /\ TrackAll(Tracked, Accepted)
    /\ adrift' = IF unit THEN (adrift \ {e \in Element : changes[e] # Untracked})
                              \cup {e \in Tracked : Late(e) \/ Unvalued(e)}
                 ELSE adrift \cup (Tracked \cap Unsaved)
    /\ UNCHANGED <<cache, store, object, unit, changes, loading, disposed,
                   unreverted, outrun>>

(* Mutant: only modified elements are invalidated.                         *)
InvalidateModified ==
    /\ saving = "accepted"
    /\ saving' = "no"
    /\ cache' = Removed(cache, Cached(cache) \cap
                   {ExactKey[e] : e \in {f \in Element : changes[f].state = "modified"}})
    /\ changes' = NoChanges
    /\ UNCHANGED <<store, object, trackVars, unit, loading, disposed, adrift,
                   unreverted, outrun>>

Invalidate ==
    /\ saving = "accepted"
    /\ saving' = "no"
    /\ cache' = Removed(cache, Cached(cache) \cap
                   {ExactKey[e] : e \in {f \in Element : changes[f] # Untracked}})
    /\ changes' = NoChanges
    /\ UNCHANGED <<store, object, trackVars, unit, loading, disposed, adrift,
                   unreverted, outrun>>
-----------------------------------------------------------------------------
TrackedCall(e) ==
    \/ AttachEntity(e)
    \/ Detach(e)
    \/ \E v \in Value : SetValue(e, v)
    \/ Add(e)
    \/ Remove(e)

ElementCall(e) == TrackedCall(e) \/ \E k \in KeysOf[e] : GetById(e, k)

TrackerCall ==
    \E es \in {Tracked} \cup {{e} : e \in Tracked} :
      \/ AcceptChanges(es)
      \/ RejectChanges(es)

SessionStep ==
    \/ TrackerCall
    \/ CacheCall
    \/ Dispose
    \/ Save
    \/ Commit
    \/ SkipCommit
    \/ CommitFails
    \/ AcceptSaved
    \/ Invalidate
    \/ \E e \in Element : \E k \in KeysOf[e] : Load(e, k)
    \/ \E k \in Key : Expire(k) /\ UNCHANGED sessionVars

SessionNext == SessionStep \/ \E e \in Element : ElementCall(e)

allVars == <<cache, sessionVars>>
SessionSpec == SessionInit /\ [][SessionNext]_allVars
-----------------------------------------------------------------------------
OrmTypeOK ==
    /\ CacheTypeOK
    /\ store \in [Element -> Value \cup {NoValue}]
    /\ object \in [Element -> Value]
    /\ tracker \in [Element -> Tracker \cup {Untracked}]
    /\ states \in [Element -> EntityState \cup {"detached"}]
    /\ changes \in [Element -> Tracker \cup {Untracked}]
    /\ saving \in {"no", "collected", "committed", "accepted"}
    /\ unit \in BOOLEAN /\ disposed \in BOOLEAN
    /\ adrift \subseteq Element /\ unreverted \subseteq Tracked
    /\ loading \subseteq Key /\ outrun \subseteq Key

Settled(e) ==
    /\ e \in Tracked \ adrift
    /\ store[e] # NoValue
    /\ ~(unit /\ saving = "committed" /\ changes[e] # Untracked)

(* What reject_changes() would restore is the host's value, over saves     *)
(* that fail and saves that other threads run into.  It fails only for     *)
(* what was accepted and never written (by the caller, without a unit of   *)
(* work, or changed while save_changes() ran), was written without a       *)
(* value, or was attached with a value never saved.                        *)
OriginalIsStored ==
    \A e \in Element :
      Settled(e) => tracker[e].original \in {store[e], NoValue}

(* has_changes sees every object that differs from the host, whatever was  *)
(* set, set back, saved, rejected or failed before, unless a reject could  *)
(* not restore it: the tracker then takes it for unchanged.                *)
UnsavedIsDirty ==
    \A e \in Element :
      Settled(e) /\ e \notin unreverted /\ object[e] # store[e] => e \in Dirty

ServesDeleted(e, k) ==
    /\ Answers(cache, k) /\ store[e] = NoValue
    /\ k \notin outrun
    /\ saving = "no" \/ changes[e] = Untracked

(* Once save_changes() has returned get_by_id() does not serve what it     *)
(* deleted to who asks for the type of the object, unless the element was  *)
(* being loaded when it was deleted: that load stores it after the         *)
(* invalidation.                                                           *)
DeletedIsNotServed == \A e \in Element : ~ServesDeleted(e, ExactKey[e])

(* The same for every type it may be asked for, as the documents have it:  *)
(* but save_changes() invalidates one key.                                 *)
DeletedIsGone == \A e \in Element : \A k \in KeysOf[e] : ~ServesDeleted(e, k)

(* What save_changes() accepts has been persisted: false without a unit of *)
(* work, when it writes nothing and accepts everything.                    *)
SavedIsWritten ==
    saving = "accepted" =>
      \A e \in Element :
        /\ changes[e].state = "deleted" => store[e] = NoValue
        /\ changes[e].state = "added" => store[e] # NoValue
        /\ changes[e].state = "modified"
             => store[e] \in {NewValue(changes[e]), NoValue}

(* reject_changes() reverts to the last accepted state, which is the       *)
(* host's for what is settled: false for a property that the snapshot has  *)
(* not, and when the setter fails.                                         *)
RejectReverts ==
    [][\A es \in SUBSET Tracked : RejectChanges(es)
         => \A e \in es : Settled(e) => object'[e] = store[e]]_allVars
=============================================================================
