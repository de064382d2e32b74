------------------------------ MODULE OrmProofs ------------------------------
(***************************************************************************)
(* Proofs about OrmCache.tla and OrmSession.tla, for every set of keys,    *)
(* dependencies and values, every size and every policy.                   *)
(*                                                                         *)
(* OrmCache: an operation of the cache is an operator from caches to       *)
(* caches, so the invariant is one too: Sound(c).  Every operation is made *)
(* of Removed() and Stored(), and the two lemmas about them carry the      *)
(* proof; which keys an eviction, a cleanup or a pattern picks plays no    *)
(* part in it.                                                             *)
(*                                                                         *)
(* OrmSession: what an EntityTracker makes of its object (Fits) and what a *)
(* commit has made of the changes (Saved) hold of each element by itself;  *)
(* with them what accept_changes() takes for saved is what the host has    *)
(* (Agrees).  Serves says the same of the cache and of the loads that are  *)
(* under way.                                                              *)
(***************************************************************************)
EXTENDS OrmSession, TLAPS

(* The fields of a cache, and what the checked invariant says of them.     *)
Sound(c) ==
    /\ c = [entry |-> c.entry, order |-> c.order, expired |-> c.expired,
            dependents |-> c.dependents, sources |-> c.sources]
    /\ Cached(c) \subseteq Key
    /\ \A k \in Cached(c) : c.entry[k] \subseteq Dep
    /\ c.dependents \in [Dep -> SUBSET Key]
    /\ c.sources \in [Key -> SUBSET Dep]
    /\ \A k \in Key, d \in Dep : k \in c.dependents[d] <=> d \in c.sources[k]
    /\ \A k \in Key : c.sources[k] # {} => k \in Cached(c)
    /\ \A k \in Cached(c) : c.entry[k] \subseteq c.sources[k]

LEMMA SoundEmpty == Sound(EmptyCache)
  BY DEF Sound, EmptyCache, Cached

(* Removing keys, in the cache or not, cleans both indexes.                *)
LEMMA SoundRemoved ==
    ASSUME NEW c, NEW ks, Sound(c)
    PROVE  /\ Sound(Removed(c, ks))
           /\ Cached(Removed(c, ks)) = Cached(c) \ ks
           /\ \A k \in Cached(c) \ ks : Removed(c, ks).entry[k] = c.entry[k]
  <1> DEFINE r == Removed(c, ks)
  <1>1. /\ r.entry = [k \in Cached(c) \ ks |-> c.entry[k]]
        /\ r.dependents = [d \in Dep |->
                 c.dependents[d] \ {k \in ks : d \in c.sources[k]}]
        /\ r.sources = [k \in Key |-> IF k \in ks THEN {} ELSE c.sources[k]]
        /\ r = [entry |-> r.entry, order |-> r.order, expired |-> r.expired,
                dependents |-> r.dependents, sources |-> r.sources]
    BY DEF Removed
  <1> HIDE DEF r
  <1>2. Cached(r) = Cached(c) \ ks
    BY <1>1 DEF Cached
  <1>3. \A k \in Cached(c) \ ks : r.entry[k] = c.entry[k]
    BY <1>1
  <1>4. r.dependents \in [Dep -> SUBSET Key] /\ r.sources \in [Key -> SUBSET Dep]
    BY <1>1 DEF Sound
  <1>5. \A k \in Key, d \in Dep : k \in r.dependents[d] <=> d \in r.sources[k]
    BY <1>1 DEF Sound
  <1>6. \A k \in Key : r.sources[k] # {} => k \in Cached(r)
    BY <1>1, <1>2 DEF Sound
  <1>7. \A k \in Cached(r) : r.entry[k] \subseteq r.sources[k]
    BY <1>1, <1>2, <1>3 DEF Sound
  <1>8. Sound(r)
    BY <1>1, <1>2, <1>3, <1>4, <1>5, <1>6, <1>7 DEF Sound
  <1>9. QED
    BY <1>2, <1>3, <1>8 DEF r

(* Storing an entry, new or over another, indexes all it depends on.       *)
LEMMA SoundStored ==
    ASSUME NEW c, NEW k \in Key, NEW ds \in SUBSET Dep, Sound(c)
    PROVE  Sound(Stored(c, k, ds))
  <1> DEFINE s == Stored(c, k, ds)
  <1>1. /\ s.entry = [l \in Cached(c) \cup {k} |->
                        IF l = k THEN ds ELSE c.entry[l]]
        /\ s.dependents = [d \in Dep |-> IF d \in ds
                                           THEN c.dependents[d] \cup {k}
                                           ELSE c.dependents[d]]
        /\ s.sources = [c.sources EXCEPT ![k] = @ \cup ds]
        /\ s = [entry |-> s.entry, order |-> s.order, expired |-> s.expired,
                dependents |-> s.dependents, sources |-> s.sources]
    BY DEF Stored
  <1> HIDE DEF s
  <1>2. /\ s.sources \in [Key -> SUBSET Dep]
        /\ \A l \in Key : s.sources[l] =
             IF l = k THEN c.sources[l] \cup ds ELSE c.sources[l]
    <2>1. c.sources \in [Key -> SUBSET Dep]
      BY DEF Sound
    <2>2. \A l \in Key : s.sources[l] =
             IF l = k THEN c.sources[l] \cup ds ELSE c.sources[l]
      BY <1>1, <2>1
    <2>3. c.sources[k] \cup ds \in SUBSET Dep
      BY <2>1
    <2>4. s.sources \in [Key -> SUBSET Dep]
      BY <1>1, <2>1, <2>3
    <2>5. QED
      BY <2>2, <2>4
  <1>3. Cached(s) = Cached(c) \cup {k}
    BY <1>1 DEF Cached
  <1>4. \A l \in Cached(s) : s.entry[l] = IF l = k THEN ds ELSE c.entry[l]
    BY <1>1, <1>3
  <1>5. s.dependents \in [Dep -> SUBSET Key]
    <2>1. \A d \in Dep : c.dependents[d] \in SUBSET Key
      BY DEF Sound
    <2>2. \A d \in Dep : c.dependents[d] \cup {k} \in SUBSET Key
      BY <2>1
    <2>3. QED
      BY <1>1, <2>1, <2>2
  <1>6. \A l \in Key, d \in Dep : l \in s.dependents[d] <=> d \in s.sources[l]
    BY <1>1, <1>2 DEF Sound
  <1>7. \A l \in Key : s.sources[l] # {} => l \in Cached(s)
    BY <1>2, <1>3 DEF Sound
  <1>8. \A l \in Cached(s) : s.entry[l] \subseteq s.sources[l]
    BY <1>2, <1>3, <1>4 DEF Sound
  <1>9. QED
    BY <1>1, <1>3, <1>4, <1>2, <1>5, <1>6, <1>7, <1>8 DEF Sound, s

LEMMA SoundAfterSet ==
    ASSUME NEW c, NEW k \in Key, NEW ds \in SUBSET Dep, Sound(c),
           NEW r \in AfterSet(c, k, ds)
    PROVE  Sound(r)
  <1>1. PICK ks : \/ r = Stored(Removed(c, ks), k, ds)
                  \/ r = Removed(Stored(Removed(c, ks), k, ds),
                                 c.expired \ (ks \cup {k}))
    BY DEF AfterSet
  <1>2. Sound(Stored(Removed(c, ks), k, ds))
    BY SoundRemoved, SoundStored
  <1>3. QED
    BY <1>1, <1>2, SoundRemoved

LEMMA SoundAfterGet ==
    ASSUME NEW c, NEW k \in Key, Sound(c)
    PROVE  Sound(AfterGet(c, k))
  <1>1. CASE AfterGet(c, k) = Removed(c, Cached(c) \cap {k})
    BY <1>1, SoundRemoved
  <1>2. CASE AfterGet(c, k) = c
    BY <1>2
  <1>3. ASSUME NEW o, AfterGet(c, k) = [c EXCEPT !.order = o]
        PROVE  Sound(AfterGet(c, k))
    BY <1>3 DEF Sound, Cached
  <1>4. QED
    BY <1>1, <1>2, <1>3 DEF AfterGet

-----------------------------------------------------------------------------
CacheSound == Sound(cache)

LEMMA SoundNext == CacheSound /\ [CacheNext]_cache => CacheSound'
  <1> SUFFICES ASSUME Sound(cache), [CacheNext]_cache PROVE Sound(cache')
    BY DEF CacheSound
  <1>1. ASSUME NEW k \in Key, Expire(k) PROVE Sound(cache')
    BY <1>1 DEF Expire, Sound, Cached
  <1>2. ASSUME NEW k \in Key, Get(k) PROVE Sound(cache')
    BY <1>2, SoundAfterGet DEF Get
  <1>3. ASSUME NEW k \in Key, NEW ds \in SUBSET Dep, Set(k, ds)
        PROVE  Sound(cache')
    BY <1>3, SoundAfterSet DEF Set
  <1>4. ASSUME NEW k \in Key, Delete(k) PROVE Sound(cache')
    BY <1>4, SoundRemoved DEF Delete, AfterDelete
  <1>5. ASSUME NEW k \in Key, InvalidatePattern(k) PROVE Sound(cache')
    BY <1>5, SoundRemoved DEF InvalidatePattern, AfterPattern
  <1>6. ASSUME NEW d \in Dep, InvalidateDependency(d) PROVE Sound(cache')
    BY <1>6, SoundRemoved DEF InvalidateDependency
  <1>7. CASE Clear
    BY <1>7, SoundEmpty DEF Clear
  <1>8. CASE UNCHANGED cache
    BY <1>8
  <1>9. QED
    BY <1>1, <1>2, <1>3, <1>4, <1>5, <1>6, <1>7, <1>8 DEF CacheNext

(* Every operation keeps the cache sound.                                  *)
THEOREM CacheIsSound == CacheSpec => []CacheSound
  <1>1. CacheInit => CacheSound
    BY SoundEmpty DEF CacheInit, CacheSound
  <1>2. QED
    BY <1>1, SoundNext, PTL DEF CacheSpec

(* The two indexes always name each other's entries, whatever was stored   *)
(* over what, evicted, expired or invalidated.                             *)
THEOREM IndexesAgreeHolds == CacheSpec => []IndexesAgree
  <1>1. CacheSound => IndexesAgree
    BY DEF CacheSound, Sound, IndexesAgree
  <1>2. QED
    BY <1>1, CacheIsSound, PTL

(* No entry that depends on something outlives its invalidation.           *)
THEOREM InvalidationReachesAllHolds == CacheSpec => InvalidationReachesAll
  <1>1. ASSUME Sound(cache), NEW d \in Dep, InvalidateDependency(d),
               NEW k \in Cached(cache')
        PROVE  d \notin cache'.entry[k]
    <2> DEFINE ks == cache.dependents[d] \cap Cached(cache)
    <2>1. /\ cache' = Removed(cache, ks)
          /\ k \in Cached(cache) \ ks
          /\ cache'.entry[k] = cache.entry[k]
      BY <1>1, SoundRemoved DEF InvalidateDependency
    <2>2. k \notin cache.dependents[d] /\ k \in Key
      BY <1>1, <2>1 DEF Sound
    <2>3. QED
      BY <1>1, <2>1, <2>2 DEF Sound
  <1>2. CacheSound /\ [CacheNext]_cache
          => [\A d \in Dep : InvalidateDependency(d)
                => \A k \in Cached(cache') : d \notin cache'.entry[k]]_cache
    BY <1>1 DEF CacheSound
  <1>3. QED
    BY <1>2, CacheIsSound, PTL DEF CacheSpec, InvalidationReachesAll

-----------------------------------------------------------------------------
(* The session.  What a tracker says of itself, and of the object o of its *)
(* element if a reject has not left that one changed.                      *)
Sane(t) == t.recorded => t.state # "unchanged"
Knows(t, o) ==
    /\ NewValue(t) \in {o, NoValue}
    /\ ~IsDirty(t) => t.original \in {o, NoValue}
Fits(e) ==
    tracker[e] # Untracked
      => /\ Sane(tracker[e])
         /\ e \notin unreverted => Knows(tracker[e], object[e])

(* What was read to be saved differs from what was attached, and once it   *)
(* is committed the host has it.                                           *)
Saved(e) ==
    changes[e] # Untracked
      => /\ changes[e].state # "unchanged"
         /\ unit /\ saving = "committed" /\ store[e] # NoValue /\ ~Unvalued(e)
              => store[e] = NewValue(changes[e])

Agrees(e) ==
    Settled(e) => /\ tracker[e].original \in {store[e], NoValue}
                  /\ ~IsDirty(tracker[e]) /\ e \notin unreverted
                       => object[e] = store[e]

(* What is loaded or served exists, but for what was deleted meanwhile.    *)
Serves(e) ==
    /\ \A k \in KeysOf[e] : k \in loading => store[e] # NoValue \/ k \in outrun
    /\ Answers(cache, ExactKey[e]) /\ store[e] = NoValue
         => \/ ExactKey[e] \in outrun
            \/ saving \in {"committed", "accepted"} /\ changes[e] # Untracked

SessionTypes ==
    /\ store \in [Element -> Value \cup {NoValue}]
    /\ object \in [Element -> Value]
    /\ tracker \in [Element -> Tracker \cup {Untracked}]
    /\ changes \in [Element -> Tracker \cup {Untracked}]
    /\ saving \in {"no", "collected", "committed", "accepted"}
    /\ loading \subseteq Key
    /\ adrift \subseteq Element

SessionInv ==
    /\ SessionTypes
    /\ CacheSound
    /\ \A e \in Element : Fits(e) /\ Saved(e) /\ Agrees(e) /\ Serves(e)

LEMMA KeysAreKeys ==
    ASSUME NEW e \in Element
    PROVE  /\ ExactKey[e] \in KeysOf[e] /\ KeysOf[e] \subseteq Key
           /\ \A f \in Element, k \in KeysOf[e] : k \in KeysOf[f] => e = f
  BY KeysAssumption

-----------------------------------------------------------------------------
(* What the operations of the cache may answer afterwards.                 *)
LEMMA AnswersRemoved ==
    ASSUME NEW c, NEW ks, NEW k, Answers(Removed(c, ks), k)
    PROVE  Answers(c, k) /\ k \notin ks
  BY DEF Answers, Removed, Cached

LEMMA AnswersStored ==
    ASSUME NEW c, NEW l, NEW ds, NEW k, Answers(Stored(c, l, ds), k)
    PROVE  k = l \/ Answers(c, k)
  BY DEF Answers, Stored, Cached

LEMMA AnswersAfterSet ==
    ASSUME NEW c, NEW l, NEW ds, NEW r \in AfterSet(c, l, ds), NEW k, Answers(r, k)
    PROVE  k = l \/ Answers(c, k)
  <1>1. PICK ks : \/ r = Stored(Removed(c, ks), l, ds)
                  \/ r = Removed(Stored(Removed(c, ks), l, ds),
                                 c.expired \ (ks \cup {l}))
    BY DEF AfterSet
  <1>2. Answers(Stored(Removed(c, ks), l, ds), k)
    BY <1>1, AnswersRemoved
  <1>3. QED
    BY <1>2, AnswersStored, AnswersRemoved

LEMMA AnswersAfterGet ==
    ASSUME NEW c, Sound(c), NEW l, NEW k, Answers(AfterGet(c, l), k)
    PROVE  Answers(c, k)
  <1>1. CASE AfterGet(c, l) = Removed(c, Cached(c) \cap {l})
    BY <1>1, AnswersRemoved
  <1>2. CASE AfterGet(c, l) = c
    BY <1>2
  <1>3. ASSUME NEW o, AfterGet(c, l) = [c EXCEPT !.order = o] PROVE Answers(c, k)
    BY <1>3 DEF Answers, Cached, Sound
  <1>4. QED
    BY <1>1, <1>2, <1>3 DEF AfterGet

LEMMA AnswersEmpty == \A k : ~Answers(EmptyCache, k)
  BY DEF Answers, EmptyCache, Cached

-----------------------------------------------------------------------------
(* The steps of one tracker.                                               *)
LEMMA TrackerIsTracked ==
    ASSUME NEW t \in Tracker
    PROVE  /\ t # Untracked
           /\ IsDirty(t) <=> t.state # "unchanged" \/ t.recorded
           /\ NewValue(t) \in Value \cup {NoValue}
  BY ValueAssumption DEF Tracker, Untracked, EntityState, IsDirty, NewValue

LEMMA SnapshotFits ==
    ASSUME NEW v \in Value \cup {NoValue}, NEW o, v \in {o, NoValue}
    PROVE  /\ Snapshot(v) \in Tracker
           /\ Sane(Snapshot(v)) /\ Knows(Snapshot(v), o)
           /\ Snapshot(v).original = v
  BY DEF Snapshot, Tracker, EntityState, Sane, Knows, NewValue

(* What an attach finds or makes.                                          *)
LEMMA AttachedFits ==
    ASSUME SessionInv, NEW e \in Element, NEW v \in Value, NEW t \in Attached(e, v)
    PROVE  /\ t \in Tracker /\ Sane(t)
           /\ tracker[e] # Untracked => t = tracker[e]
           /\ tracker[e] = Untracked => t.original \in {v, NoValue} /\ Knows(t, v)
  <1>1. tracker[e] \in Tracker \cup {Untracked} /\ Fits(e)
    BY DEF SessionInv, SessionTypes
  <1>2. CASE tracker[e] # Untracked
    BY <1>1, <1>2 DEF Attached, Tracked, Fits
  <1>3. CASE tracker[e] = Untracked
    <2>1. t = Snapshot(v) \/ t = Snapshot(NoValue)
      BY <1>3 DEF Attached, Tracked
    <2>2. QED
      BY <1>3, <2>1, SnapshotFits
  <1>4. QED
    BY <1>2, <1>3

LEMMA ChangedFits ==
    ASSUME NEW t \in Tracker, NEW old \in Value, NEW new \in Value, Sane(t)
    PROVE  /\ Changed(t, old, new) \in Tracker
           /\ Sane(Changed(t, old, new))
           /\ NewValue(Changed(t, old, new)) = new
           /\ Changed(t, old, new).original = t.original
           /\ IsDirty(t) \/ old # new => IsDirty(Changed(t, old, new))
  <1> DEFINE u == Changed(t, old, new)
  <1>1. u \in Tracker /\ u.original = t.original /\ u.current = new
    BY DEF Changed, Tracker, EntityState
  <1>2. /\ u.recorded = (old # new)
        /\ u.state = IF old # new /\ t.state = "unchanged" THEN "modified" ELSE t.state
    BY DEF Changed, Tracker
  <1>3. NewValue(u) = new
    BY <1>1, ValueAssumption DEF NewValue
  <1> HIDE DEF u
  <1>4. Sane(u)
    BY <1>2 DEF Sane
  <1>5. IsDirty(t) \/ old # new => IsDirty(u)
    BY <1>1, <1>2, TrackerIsTracked DEF Sane
  <1>6. QED
    BY <1>1, <1>3, <1>4, <1>5 DEF u

LEMMA AcceptedFits ==
    ASSUME NEW t \in Tracker
    PROVE  /\ Accepted(t) \in Tracker
           /\ Sane(Accepted(t))
           /\ Accepted(t).original = NewValue(t)
           /\ \A o : NewValue(t) \in {o, NoValue} => Knows(Accepted(t), o)
  <1>1. NewValue(t) \in Value \cup {NoValue}
    BY TrackerIsTracked
  <1>2. /\ Accepted(t) \in Tracker /\ Accepted(t).original = NewValue(t)
        /\ Accepted(t).current = NoValue /\ Accepted(t).recorded = FALSE
    BY <1>1 DEF Accepted, Tracker, EntityState
  <1>3. NewValue(Accepted(t)) = NewValue(t)
    BY <1>2 DEF NewValue
  <1>4. QED
    BY <1>2, <1>3 DEF Sane, Knows

LEMMA RejectedFits ==
    ASSUME NEW t \in Tracker
    PROVE  /\ Rejected(t) \in Tracker
           /\ Sane(Rejected(t))
           /\ Rejected(t).original = t.original
           /\ \A o : t.original \in {o, NoValue} => Knows(Rejected(t), o)
  <1>1. /\ Rejected(t) \in Tracker /\ Rejected(t).original = t.original
        /\ Rejected(t).current = NoValue /\ Rejected(t).recorded = FALSE
    BY DEF Rejected, Tracker, EntityState
  <1>2. NewValue(Rejected(t)) = t.original
    BY <1>1 DEF NewValue
  <1>3. QED
    BY <1>1, <1>2 DEF Sane, Knows

LEMMA MarkedFits ==
    ASSUME NEW t \in Tracker, NEW st \in EntityState \ {"unchanged"}
    PROVE  LET u == [t EXCEPT !.state = st]
           IN  /\ u \in Tracker /\ Sane(u)
               /\ NewValue(u) = NewValue(t)
               /\ u.original = t.original /\ IsDirty(u)
  <1> DEFINE u == [t EXCEPT !.state = st]
  <1>1. /\ u \in Tracker /\ u.original = t.original
        /\ u.current = t.current /\ u.state = st
    BY DEF Tracker
  <1>2. NewValue(u) = NewValue(t)
    BY <1>1 DEF NewValue
  <1> HIDE DEF u
  <1>3. IsDirty(u)
    BY <1>1, TrackerIsTracked
  <1>4. QED
    BY <1>1, <1>2, <1>3 DEF Sane, u

-----------------------------------------------------------------------------
(* The steps of the session, one element at a time.                        *)
Own(e) == Fits(e) /\ Saved(e) /\ Agrees(e)

LEMMA SessionParts ==
    SessionInv <=> /\ SessionTypes
                   /\ CacheSound
                   /\ \A e \in Element : Own(e) /\ Serves(e)
  BY DEF SessionInv, Own

(* The host has e, and no commit has changed it since it was read.         *)
Compared(e) ==
    /\ store[e] # NoValue
    /\ ~(unit /\ saving = "committed" /\ changes[e] # Untracked)

LEMMA SettledMeans ==
    ASSUME NEW e \in Element
    PROVE  /\ e \in Tracked <=> tracker[e] # Untracked
           /\ Settled(e) <=> /\ tracker[e] # Untracked /\ e \notin adrift
                             /\ Compared(e)
  BY DEF Tracked, Settled, Compared

LEMMA SettledMeansNext ==
    ASSUME NEW e \in Element
    PROVE  Settled(e)' <=> /\ tracker'[e] # Untracked /\ e \notin adrift'
                           /\ Compared(e)'
  BY DEF Tracked, Settled, Compared

LEMMA OwnKept ==
    ASSUME NEW e \in Element, Own(e),
           tracker'[e] = tracker[e], object'[e] = object[e],
           store'[e] = store[e], changes'[e] = changes[e],
           saving' = saving, unit' = unit,
           e \in adrift => e \in adrift',
           e \in unreverted => e \in unreverted'
    PROVE  Own(e)'
  BY SettledMeans, SettledMeansNext DEF Own, Fits, Saved, Agrees, Compared, Unvalued

LEMMA ServesKept ==
    ASSUME NEW e \in Element, Serves(e),
           store'[e] = store[e], changes'[e] = changes[e], saving' = saving,
           outrun' = outrun,
           \A k \in KeysOf[e] : k \in loading' => k \in loading \/ store[e] # NoValue,
           Answers(cache', ExactKey[e])
             => Answers(cache, ExactKey[e]) \/ ExactKey[e] \in loading
    PROVE  Serves(e)'
  BY KeysAreKeys DEF Serves

(* One tracker becomes t.                                                  *)
LEMMA TrackOne ==
    ASSUME SessionInv, NEW e \in Element, NEW t \in Tracker, Track(e, t),
           UNCHANGED <<store, unit, saving, changes>>,
           \A x \in Element \ {e} :
             object'[x] = object[x] /\ (x \in unreverted => x \in unreverted'),
           adrift \subseteq adrift',
           Sane(t), e \notin unreverted' => Knows(t, object'[e]),
           e \notin adrift' /\ Compared(e)
             => /\ t.original \in {store[e], NoValue}
                /\ ~IsDirty(t) /\ e \notin unreverted' => object'[e] = store[e]
    PROVE  /\ tracker' \in [Element -> Tracker \cup {Untracked}]
           /\ \A x \in Element : Own(x)'
  <1>1. /\ tracker' = [tracker EXCEPT ![e] = t]
        /\ tracker \in [Element -> Tracker \cup {Untracked}]
    BY DEF Track, SessionInv, SessionTypes
  <1>2. tracker'[e] = t /\ \A x \in Element \ {e} : tracker'[x] = tracker[x]
    BY <1>1
  <1>3. ASSUME NEW x \in Element \ {e} PROVE Own(x)'
    BY <1>2, OwnKept, SessionParts
  <1>4. Own(e)'
    <2>1. Saved(e)'
      BY DEF SessionInv, Saved, Unvalued
    <2>2. Agrees(e)'
      BY <1>2, SettledMeansNext DEF Agrees, Compared
    <2>3. Fits(e)'
      BY <1>2 DEF Fits
    <2>4. QED
      BY <2>1, <2>2, <2>3 DEF Own
  <1>5. QED
    BY <1>1, <1>3, <1>4

(* What an attach that finds or makes a has to do with the host.           *)
LEMMA AttachedAgrees ==
    ASSUME SessionInv, NEW e \in Element, NEW v \in Value, NEW a \in Attached(e, v),
           adrift' = AdriftBy(e, v), e \notin adrift', Compared(e)
    PROVE  /\ a.original \in {store[e], NoValue}
           /\ tracker[e] = Untracked => v = store[e]
           /\ tracker[e] # Untracked /\ ~IsDirty(a) /\ e \notin unreverted
                => object[e] = store[e]
  <1>1. Own(e)
    BY SessionParts
  <1>2. CASE tracker[e] # Untracked
    BY <1>1, <1>2, AttachedFits, SettledMeans DEF Own, Agrees, AdriftBy
  <1>3. CASE tracker[e] = Untracked
    BY <1>3, AttachedFits, SettledMeans DEF AdriftBy
  <1>4. QED
    BY <1>2, <1>3

LEMMA AttachKeeps ==
    ASSUME SessionInv, NEW e \in Element, Attach(e),
           UNCHANGED <<store, object, unit, saving, changes, unreverted>>
    PROVE  /\ tracker' \in [Element -> Tracker \cup {Untracked}]
           /\ adrift' \subseteq Element
           /\ \A x \in Element : Own(x)'
  <1>1. object[e] \in Value /\ adrift \subseteq Element /\ Own(e)
    BY SessionParts DEF SessionTypes
  <1>2. PICK t \in Attached(e, object[e]) : Track(e, t)
    BY DEF Attach
  <1>3. adrift' = AdriftBy(e, object[e])
    BY DEF Attach
  <1>4. adrift \subseteq adrift' /\ adrift' \subseteq Element
    BY <1>1, <1>3 DEF AdriftBy
  <1>5. t \in Tracker /\ Sane(t)
    BY <1>1, AttachedFits
  <1>6. e \notin unreverted' => Knows(t, object'[e])
    BY <1>1, AttachedFits DEF Own, Fits
  <1>7. e \notin adrift' /\ Compared(e)
          => /\ t.original \in {store[e], NoValue}
             /\ ~IsDirty(t) /\ e \notin unreverted' => object'[e] = store[e]
    BY <1>1, <1>3, AttachedAgrees
  <1>8. QED
    BY <1>2, <1>4, <1>5, <1>6, <1>7, TrackOne

LEMMA SetValueKeeps ==
    ASSUME SessionInv, NEW e \in Element, NEW v \in Value, SetValue(e, v)
    PROVE  /\ tracker' \in [Element -> Tracker \cup {Untracked}]
           /\ object' \in [Element -> Value] /\ adrift' \subseteq Element
           /\ \A x \in Element : Own(x)'
  <1>1. object \in [Element -> Value] /\ adrift \subseteq Element /\ Own(e)
    BY SessionParts DEF SessionTypes
  <1>2. PICK a \in Attached(e, v) : Track(e, Changed(a, object[e], v))
    BY DEF SetValue
  <1> DEFINE t == Changed(a, object[e], v)
  <1>3. /\ adrift' = AdriftBy(e, v)
        /\ object' = [object EXCEPT ![e] = v]
        /\ unreverted' = IF object[e] = v THEN unreverted ELSE unreverted \ {e}
        /\ UNCHANGED <<store, unit, saving, changes>>
    BY DEF SetValue, saveVars
  <1>4. /\ adrift \subseteq adrift' /\ adrift' \subseteq Element
        /\ object' \in [Element -> Value] /\ object'[e] = v
        /\ \A x \in Element \ {e} :
             object'[x] = object[x] /\ (x \in unreverted => x \in unreverted')
    BY <1>1, <1>3 DEF AdriftBy
  <1>5. a \in Tracker /\ Sane(a)
    BY AttachedFits
  <1>6. /\ t \in Tracker /\ Sane(t) /\ t.original = a.original /\ NewValue(t) = v
        /\ IsDirty(a) \/ object[e] # v => IsDirty(t)
    BY <1>1, <1>5, ChangedFits
  <1> HIDE DEF t
  <1>7. ASSUME ~IsDirty(t), e \notin unreverted'
        PROVE  ~IsDirty(a) /\ object[e] = v /\ e \notin unreverted
    BY <1>3, <1>6, <1>7
  <1>8. e \notin unreverted' => Knows(t, object'[e])
    <2>1. ASSUME ~IsDirty(t), e \notin unreverted' PROVE t.original \in {v, NoValue}
      BY <1>1, <1>6, <1>7, <2>1, AttachedFits DEF Own, Fits, Knows
    <2>2. QED
      BY <1>4, <1>6, <2>1 DEF Knows
  <1>9. e \notin adrift' /\ Compared(e)
          => /\ t.original \in {store[e], NoValue}
             /\ ~IsDirty(t) /\ e \notin unreverted' => object'[e] = store[e]
    BY <1>3, <1>4, <1>6, <1>7, AttachedAgrees
  <1>10. QED
    BY <1>2, <1>3, <1>4, <1>6, <1>8, <1>9, TrackOne DEF t

LEMMA MarkKeeps ==
    ASSUME SessionInv, NEW e \in Element, NEW st \in {"added", "deleted"}, Mark(e, st)
    PROVE  /\ tracker' \in [Element -> Tracker \cup {Untracked}]
           /\ adrift' \subseteq Element
           /\ \A x \in Element : Own(x)'
  <1>1. object[e] \in Value /\ adrift \subseteq Element /\ Own(e)
    BY SessionParts DEF SessionTypes
  <1>2. PICK a \in Attached(e, object[e]) : Track(e, [a EXCEPT !.state = st])
    BY DEF Mark
  <1> DEFINE t == [a EXCEPT !.state = st]
  <1>3. /\ adrift' = AdriftBy(e, object[e])
        /\ UNCHANGED <<store, object, unit, saving, changes, unreverted>>
    BY DEF Mark, saveVars
  <1>4. adrift \subseteq adrift' /\ adrift' \subseteq Element
    BY <1>1, <1>3 DEF AdriftBy
  <1>5. /\ a \in Tracker
        /\ e \notin unreverted => NewValue(a) \in {object[e], NoValue}
    BY <1>1, AttachedFits DEF Own, Fits, Knows
  <1>6. /\ t \in Tracker /\ Sane(t) /\ NewValue(t) = NewValue(a)
        /\ t.original = a.original /\ IsDirty(t)
    BY <1>5, MarkedFits DEF EntityState
  <1> HIDE DEF t
  <1>7. e \notin unreverted' => Knows(t, object'[e])
    BY <1>3, <1>5, <1>6 DEF Knows
  <1>8. e \notin adrift' /\ Compared(e) => t.original \in {store[e], NoValue}
    BY <1>1, <1>3, <1>6, AttachedAgrees
  <1>9. QED
    BY <1>2, <1>3, <1>4, <1>6, <1>7, <1>8, TrackOne DEF t

(* What leaves the trackers, the objects and the host alone.               *)
LEMMA QuietKeeps ==
    ASSUME SessionInv,
           UNCHANGED <<store, object, tracker, unit, saving, changes, adrift, unreverted>>
    PROVE  \A x \in Element : Own(x)'
  BY OwnKept, SessionParts

LEMMA AcceptKeeps ==
    ASSUME SessionInv, NEW es \in SUBSET Tracked, AcceptChanges(es)
    PROVE  /\ tracker' \in [Element -> Tracker \cup {Untracked}]
           /\ adrift' \subseteq Element
           /\ \A x \in Element : Own(x)'
  <1>1. /\ tracker' = [e \in Element |->
                         IF e \in es THEN Accepted(tracker[e]) ELSE tracker[e]]
        /\ adrift' = adrift \cup (es \cap Unsaved)
        /\ UNCHANGED <<store, object, unit, saving, changes, unreverted>>
    BY DEF AcceptChanges, TrackAll, saveVars
  <1>2. tracker \in [Element -> Tracker \cup {Untracked}] /\ adrift \subseteq Element
    BY DEF SessionInv, SessionTypes
  <1>3. adrift \subseteq adrift' /\ adrift' \subseteq Element
    BY <1>1, <1>2 DEF Tracked
  <1>4. ASSUME NEW x \in Element PROVE tracker'[x] \in Tracker \cup {Untracked} /\ Own(x)'
    <2>1. Own(x)
      BY SessionParts
    <2>2. CASE x \notin es
      BY <1>1, <1>2, <1>3, <2>1, <2>2, OwnKept
    <2>3. CASE x \in es
      <3>1. tracker[x] \in Tracker /\ tracker[x] # Untracked
        BY <1>2, <2>3 DEF Tracked
      <3>2. /\ tracker'[x] \in Tracker /\ Sane(tracker'[x])
            /\ tracker'[x].original = NewValue(tracker[x])
            /\ x \notin unreverted => NewValue(tracker[x]) \in {object[x], NoValue}
            /\ x \notin unreverted => Knows(tracker'[x], object[x])
        BY <1>1, <2>1, <2>3, <3>1, AcceptedFits DEF Own, Fits, Knows
      <3>3. x \notin adrift'
              => x \notin adrift /\ ~IsDirty(tracker[x]) /\ x \notin unreverted
        BY <1>1, <2>3 DEF Unsaved, Dirty
      <3>4. Settled(x)' => Settled(x)
        BY <1>1, <3>1, <3>3, SettledMeans, SettledMeansNext DEF Compared
      <3>5. Settled(x)' => object[x] = store[x] /\ x \notin unreverted
        BY <2>1, <3>3, <3>4, SettledMeansNext DEF Own, Agrees
      <3>6. Fits(x)' /\ Saved(x)'
        BY <1>1, <2>1, <3>2 DEF Own, Fits, Saved, Unvalued
      <3>7. QED
        BY <1>1, <3>2, <3>5, <3>6 DEF Own, Agrees
    <2>4. QED
      BY <2>2, <2>3, <1>1, <1>2
  <1>5. QED
    BY <1>1, <1>3, <1>4

LEMMA RejectKeeps ==
    ASSUME SessionInv, NEW es \in SUBSET Tracked, RejectChanges(es)
    PROVE  /\ tracker' \in [Element -> Tracker \cup {Untracked}]
           /\ object' \in [Element -> Value]
           /\ \A x \in Element : Own(x)'
  <1>1. PICK kept \in Unrestored(es) :
          /\ object' = Reverted(es, kept)
          /\ unreverted' = (unreverted \ (es \ kept)) \cup
               {e \in kept \cap Dirty : object[e] # tracker[e].original}
    BY DEF RejectChanges
  <1>2. /\ tracker' = [e \in Element |->
                         IF e \in es THEN Rejected(tracker[e]) ELSE tracker[e]]
        /\ object' = [e \in Element |->
                        IF e \in es \ kept THEN tracker[e].original ELSE object[e]]
        /\ UNCHANGED <<store, unit, saving, changes, adrift>>
    BY <1>1 DEF RejectChanges, TrackAll, Reverted, saveVars
  <1>3. /\ tracker \in [Element -> Tracker \cup {Untracked}]
        /\ object \in [Element -> Value]
    BY DEF SessionInv, SessionTypes
  <1>4. /\ kept \subseteq es /\ es \subseteq Element
        /\ \A e \in es : tracker[e].original = NoValue => e \in kept
    BY DEF Unrestored, Tracked
  <1>5. ASSUME NEW x \in Element
        PROVE  /\ tracker'[x] \in Tracker \cup {Untracked}
               /\ object'[x] \in Value /\ Own(x)'
    <2>1. Own(x)
      BY SessionParts
    <2>2. CASE x \notin es
      <3>1. /\ tracker'[x] = tracker[x] /\ object'[x] = object[x]
            /\ x \in unreverted => x \in unreverted'
        BY <1>1, <1>2, <2>2
      <3>2. QED
        BY <1>2, <1>3, <2>1, <3>1, OwnKept
    <2>3. CASE x \in es
      <3>1. tracker[x] \in Tracker /\ tracker[x] # Untracked
        BY <1>3, <2>3 DEF Tracked
      <3>2. /\ tracker'[x] \in Tracker /\ Sane(tracker'[x])
            /\ tracker'[x].original = tracker[x].original
            /\ \A o : tracker[x].original \in {o, NoValue} => Knows(tracker'[x], o)
        BY <1>2, <2>3, <3>1, RejectedFits
      <3>3. Settled(x)' => Settled(x)
        BY <1>2, <3>1, SettledMeans, SettledMeansNext DEF Compared
      <3>4. Saved(x)'
        BY <1>2, <2>1 DEF Own, Saved, Unvalued
      <3>5. CASE x \notin kept
        <4>1. object'[x] = tracker[x].original /\ tracker[x].original \in Value
          BY <1>2, <1>4, <2>3, <3>1, <3>5 DEF Tracker
        <4>2. Fits(x)'
          BY <3>2, <4>1 DEF Fits
        <4>3. Agrees(x)'
          BY <1>2, <2>1, <3>2, <3>3, <4>1, ValueAssumption DEF Own, Agrees
        <4>4. QED
          BY <3>2, <3>4, <4>1, <4>2, <4>3 DEF Own
      <3>6. CASE x \in kept
        <4>1. object'[x] = object[x] /\ object[x] \in Value
          BY <1>2, <1>3, <3>6
        <4>2. x \notin unreverted'
                => /\ x \notin unreverted
                   /\ ~IsDirty(tracker[x]) \/ object[x] = tracker[x].original
          BY <1>1, <3>6 DEF Dirty
        <4>3. x \notin unreverted' => tracker[x].original \in {object[x], NoValue}
          BY <2>1, <3>1, <4>2 DEF Own, Fits, Knows
        <4>4. Fits(x)'
          BY <3>2, <4>1, <4>3 DEF Fits
        <4>5. Settled(x) /\ x \notin unreverted' => object[x] = store[x]
          BY <2>1, <4>1, <4>2, ValueAssumption DEF Own, Agrees
        <4>6. Agrees(x)'
          BY <1>2, <2>1, <3>2, <3>3, <4>1, <4>5 DEF Own, Agrees
        <4>7. QED
          BY <3>2, <3>4, <4>1, <4>4, <4>6 DEF Own
      <3>7. QED
        BY <3>5, <3>6
    <2>4. QED
      BY <2>2, <2>3
  <1>6. QED
    BY <1>2, <1>5

(* accept_changes() of save_changes(): what was read and has not changed   *)
(* since is what the host has, if there was a unit of work to write it.    *)
LEMMA AcceptSavedKeeps ==
    ASSUME SessionInv, AcceptSaved
    PROVE  /\ tracker' \in [Element -> Tracker \cup {Untracked}]
           /\ adrift' \subseteq Element
           /\ \A x \in Element : Own(x)'
  <1>1. /\ tracker' = [e \in Element |->
                         IF e \in Tracked THEN Accepted(tracker[e]) ELSE tracker[e]]
        /\ adrift' = IF unit THEN (adrift \ {e \in Element : changes[e] # Untracked})
                                    \cup {e \in Tracked : Late(e) \/ Unvalued(e)}
                     ELSE adrift \cup (Tracked \cap Unsaved)
        /\ UNCHANGED <<store, object, unit, changes, unreverted>>
        /\ saving = "committed" /\ saving' = "accepted"
    BY DEF AcceptSaved, TrackAll
  <1>2. /\ tracker \in [Element -> Tracker \cup {Untracked}]
        /\ adrift \subseteq Element
    BY DEF SessionInv, SessionTypes
  <1>3. adrift' \subseteq Element
    BY <1>1, <1>2 DEF Tracked
  <1>4. ASSUME NEW x \in Element PROVE tracker'[x] \in Tracker \cup {Untracked} /\ Own(x)'
    <2>1. Own(x)
      BY SessionParts
    <2>2. Saved(x)'
      BY <1>1, <2>1 DEF Own, Saved, Unvalued
    <2>3. CASE tracker[x] = Untracked
      <3>1. tracker'[x] = Untracked
        BY <1>1, <2>3 DEF Tracked
      <3>2. QED
        BY <2>2, <3>1, SettledMeansNext DEF Own, Fits, Agrees
    <2>4. CASE tracker[x] # Untracked
      <3>1. tracker[x] \in Tracker /\ x \in Tracked
        BY <1>2, <2>4 DEF Tracked
      <3>2. /\ tracker'[x] \in Tracker /\ Sane(tracker'[x])
            /\ tracker'[x].original = NewValue(tracker[x])
            /\ x \notin unreverted => NewValue(tracker[x]) \in {object[x], NoValue}
            /\ x \notin unreverted => Knows(tracker'[x], object[x])
        BY <1>1, <2>1, <2>4, <3>1, AcceptedFits DEF Own, Fits, Knows
      <3>3. ASSUME Settled(x)'
            PROVE  /\ NewValue(tracker[x]) \in {store[x], NoValue}
                   /\ x \notin unreverted => object[x] = store[x]
        <4>1. x \notin adrift' /\ store[x] # NoValue
          BY <1>1, <3>3, SettledMeansNext DEF Compared
        <4>2. CASE ~unit \/ changes[x] = Untracked
          <5>1. x \notin adrift /\ x \notin Unsaved
            BY <1>1, <3>1, <4>1, <4>2 DEF Late
          <5>2. ~IsDirty(tracker[x]) /\ x \notin unreverted
            BY <5>1 DEF Unsaved, Dirty
          <5>3. Settled(x)
            BY <2>4, <4>1, <4>2, <5>1, SettledMeans DEF Compared
          <5>4. object[x] = store[x]
            BY <2>1, <5>2, <5>3 DEF Own, Agrees
          <5>5. QED
            BY <3>2, <5>2, <5>4
        <4>3. CASE unit /\ changes[x] # Untracked
          <5>1. tracker[x] = changes[x] /\ ~Unvalued(x)
            BY <1>1, <3>1, <4>1, <4>3 DEF Late
          <5>2. store[x] = NewValue(tracker[x])
            BY <1>1, <2>1, <4>1, <4>3, <5>1 DEF Own, Saved
          <5>3. QED
            BY <3>2, <4>1, <5>2
        <4>4. QED
          BY <4>2, <4>3
      <3>4. Fits(x)'
        BY <1>1, <3>2 DEF Fits
      <3>5. Agrees(x)'
        BY <1>1, <3>2, <3>3 DEF Agrees
      <3>6. QED
        BY <2>2, <3>2, <3>4, <3>5 DEF Own
    <2>5. QED
      BY <2>3, <2>4
  <1>5. QED
    BY <1>1, <1>3, <1>4

(* The commit: what was read becomes what the host has.                    *)
LEMMA CommitKeeps ==
    ASSUME SessionInv, Commit
    PROVE  /\ store' \in [Element -> Value \cup {NoValue}]
           /\ \A x \in Element : Own(x)' /\ Serves(x)'
  <1>1. PICK given \in Value :
          store' = [e \in Element |-> Written(changes[e], store[e], given)]
    BY DEF Commit
  <1>2. /\ outrun' = outrun \cup UNION {loading \cap KeysOf[e] :
                                          e \in {f \in Element : store'[f] = NoValue}}
        /\ UNCHANGED <<cache, object, tracker, unit, changes, loading, adrift, unreverted>>
        /\ unit /\ saving = "collected" /\ saving' = "committed"
    BY DEF Commit, trackVars
  <1>3. /\ store \in [Element -> Value \cup {NoValue}]
        /\ changes \in [Element -> Tracker \cup {Untracked}]
    BY DEF SessionInv, SessionTypes
  <1>4. /\ outrun \subseteq outrun'
        /\ \A x \in Element : store'[x] = NoValue
             => \A k \in KeysOf[x] : k \in loading => k \in outrun'
    BY <1>2
  <1>5. ASSUME NEW x \in Element
        PROVE  store'[x] \in Value \cup {NoValue} /\ Own(x)' /\ Serves(x)'
    <2>1. Own(x) /\ Serves(x)
      BY SessionParts
    <2>2. store'[x] = Written(changes[x], store[x], given)
      BY <1>1
    <2>3. CASE changes[x] = Untracked
      <3>1. store'[x] = store[x]
        BY <2>2, <2>3 DEF Written, Untracked
      <3>2. Fits(x)' /\ Saved(x)'
        BY <1>2, <2>1, <2>3 DEF Own, Fits, Saved
      <3>3. Agrees(x)'
        <4>1. Settled(x)' => Settled(x)
          BY <1>2, <3>1, SettledMeans, SettledMeansNext DEF Compared
        <4>2. QED
          BY <1>2, <2>1, <3>1, <4>1 DEF Own, Agrees
      <3>4. Serves(x)'
        BY <1>2, <1>4, <2>1, <2>3, <3>1, KeysAreKeys DEF Serves
      <3>5. QED
        BY <1>3, <3>1, <3>2, <3>3, <3>4 DEF Own
    <2>4. CASE changes[x] # Untracked
      <3>1. /\ changes[x] \in Tracker /\ changes[x].state # "unchanged"
            /\ changes[x].state \in EntityState
            /\ NewValue(changes[x]) \in Value \cup {NoValue}
        BY <1>3, <2>1, <2>4, TrackerIsTracked DEF Own, Saved, Tracker
      <3>2. /\ store'[x] \in Value \cup {NoValue}
            /\ \/ store'[x] = NewValue(changes[x])
               \/ store'[x] = NoValue
               \/ Unvalued(x)
        <4>1. CASE changes[x].state = "added"
          BY <2>2, <3>1, <4>1 DEF Written, Unvalued
        <4>2. CASE changes[x].state = "modified"
          BY <1>3, <2>2, <3>1, <4>2 DEF Written
        <4>3. CASE changes[x].state = "deleted"
          BY <2>2, <3>1, <4>3 DEF Written
        <4>4. QED
          BY <3>1, <4>1, <4>2, <4>3 DEF EntityState
      <3>3. ~Settled(x)'
        BY <1>2, <2>4, SettledMeansNext DEF Compared
      <3>4. Saved(x)' /\ Agrees(x)' /\ Fits(x)'
        BY <1>2, <2>1, <3>1, <3>2, <3>3 DEF Own, Fits, Saved, Agrees, Unvalued
      <3>5. Serves(x)'
        BY <1>2, <1>4, <2>4 DEF Serves
      <3>6. QED
        BY <3>2, <3>4, <3>5 DEF Own
    <2>5. QED
      BY <2>3, <2>4
  <1>6. QED
    BY <1>1, <1>5

(* Without a unit of work only the place of the save changes.              *)
LEMMA SkipKeeps ==
    ASSUME SessionInv, SkipCommit
    PROVE  \A x \in Element : Own(x)' /\ Serves(x)'
  <1>1. /\ UNCHANGED <<cache, store, object, tracker, unit, changes, loading,
                       adrift, unreverted, outrun>>
        /\ ~unit /\ saving = "collected" /\ saving' = "committed"
    BY DEF SkipCommit, trackVars
  <1>2. ASSUME NEW x \in Element PROVE Own(x)' /\ Serves(x)'
    <2>1. Own(x) /\ Serves(x)
      BY SessionParts
    <2>2. Settled(x)' => Settled(x)
      BY <1>1, SettledMeans, SettledMeansNext DEF Compared
    <2>3. Own(x)'
      BY <1>1, <2>1, <2>2 DEF Own, Fits, Saved, Agrees
    <2>4. Serves(x)'
      BY <1>1, <2>1 DEF Serves
    <2>5. QED
      BY <2>3, <2>4
  <1>3. QED
    BY <1>2

LEMMA SaveKeeps ==
    ASSUME SessionInv, Save
    PROVE  /\ changes' \in [Element -> Tracker \cup {Untracked}]
           /\ \A x \in Element : Own(x)' /\ Serves(x)'
  <1>1. /\ changes' = [e \in Element |-> IF e \in Dirty THEN tracker[e] ELSE Untracked]
        /\ UNCHANGED <<cache, store, object, tracker, unit, loading, adrift,
                       unreverted, outrun>>
        /\ saving = "no" /\ saving' = "collected"
    BY DEF Save, trackVars
  <1>2. tracker \in [Element -> Tracker \cup {Untracked}]
    BY DEF SessionInv, SessionTypes
  <1>3. ASSUME NEW x \in Element PROVE Own(x)' /\ Serves(x)'
    <2>1. Own(x) /\ Serves(x)
      BY SessionParts
    <2>2. Saved(x)'
      <3>1. SUFFICES ASSUME changes'[x] # Untracked
                     PROVE  changes'[x].state # "unchanged"
        BY <1>1 DEF Saved
      <3>2. changes'[x] = tracker[x] /\ tracker[x] \in Tracker /\ IsDirty(tracker[x])
        BY <1>1, <1>2, <3>1 DEF Dirty
      <3>3. Sane(tracker[x])
        BY <2>1, <3>2, TrackerIsTracked DEF Own, Fits
      <3>4. QED
        BY <3>2, <3>3, TrackerIsTracked DEF Sane
    <2>3. Agrees(x)'
      <3>1. Settled(x)' => Settled(x)
        BY <1>1, SettledMeans, SettledMeansNext DEF Compared
      <3>2. QED
        BY <1>1, <2>1, <3>1 DEF Own, Agrees
    <2>4. Serves(x)'
      BY <1>1, <2>1 DEF Serves
    <2>5. Fits(x)'
      BY <1>1, <2>1 DEF Own, Fits
    <2>6. QED
      BY <2>2, <2>3, <2>4, <2>5 DEF Own
  <1>4. QED
    BY <1>1, <1>2, <1>3

(* The two ends of save_changes().                                         *)
LEMMA SaveEndKeeps ==
    ASSUME SessionInv, CommitFails \/ Invalidate
    PROVE  /\ changes' \in [Element -> Tracker \cup {Untracked}]
           /\ CacheSound'
           /\ \A x \in Element : Own(x)' /\ Serves(x)'
  <1> DEFINE ks == Cached(cache) \cap
                     {ExactKey[e] : e \in {f \in Element : changes[f] # Untracked}}
  <1>1. /\ changes' = NoChanges /\ saving' = "no"
        /\ UNCHANGED <<store, object, tracker, unit, loading, adrift, unreverted, outrun>>
        /\ \/ saving = "collected" /\ cache' = cache
           \/ saving = "accepted" /\ cache' = Removed(cache, ks)
    BY DEF CommitFails, Invalidate, trackVars
  <1>2. CacheSound'
    BY <1>1, SoundRemoved DEF SessionInv, CacheSound
  <1>3. ASSUME NEW x \in Element PROVE Own(x)' /\ Serves(x)'
    <2>1. Own(x) /\ Serves(x)
      BY SessionParts
    <2>2. changes'[x] = Untracked
      BY <1>1 DEF NoChanges
    <2>3. Settled(x)' => Settled(x)
      BY <1>1, SettledMeans, SettledMeansNext DEF Compared
    <2>4. Own(x)'
      BY <1>1, <2>1, <2>2, <2>3 DEF Own, Fits, Saved, Agrees
    <2>5. Serves(x)'
      <3>1. CASE cache' = cache /\ saving = "collected"
        BY <1>1, <2>1, <3>1 DEF Serves
      <3>2. CASE cache' = Removed(cache, ks)
        <4>1. Answers(cache', ExactKey[x])
                => Answers(cache, ExactKey[x]) /\ ExactKey[x] \notin ks
          BY <3>2, AnswersRemoved
        <4>2. Answers(cache', ExactKey[x]) => changes[x] = Untracked
          BY <4>1 DEF Answers
        <4>3. QED
          BY <1>1, <2>1, <4>1, <4>2 DEF Serves
      <3>3. QED
        BY <1>1, <3>1, <3>2
    <2>6. QED
      BY <2>4, <2>5
  <1>4. QED
    BY <1>1, <1>2, <1>3 DEF NoChanges

LEMMA ForgottenKeeps ==
    ASSUME SessionInv, NEW es \in SUBSET Element,
           UNCHANGED <<store, unit, saving, changes>>,
           tracker' \in [Element -> Tracker \cup {Untracked}],
           \A x \in es : tracker'[x] = Untracked,
           \A x \in Element \ es : /\ tracker'[x] = tracker[x]
                                   /\ object'[x] = object[x]
                                   /\ x \in adrift => x \in adrift'
                                   /\ x \in unreverted => x \in unreverted'
    PROVE  \A x \in Element : Own(x)'
  <1>1. ASSUME NEW x \in es PROVE Own(x)'
    <2>1. tracker'[x] = Untracked /\ ~Settled(x)'
      BY SettledMeansNext
    <2>2. QED
      BY <2>1 DEF SessionInv, Own, Fits, Saved, Agrees, Unvalued
  <1>2. ASSUME NEW x \in Element \ es PROVE Own(x)'
    BY OwnKept, SessionParts
  <1>3. QED
    BY <1>1, <1>2

-----------------------------------------------------------------------------
(* The inductive step.                                                     *)
LEMMA ElementCallKeeps ==
    ASSUME SessionInv, NEW e \in Element, ElementCall(e)
    PROVE  SessionInv'
  <1> USE DEF SessionTypes
  <1>1. SessionTypes /\ Sound(cache)
    BY DEF SessionInv, CacheSound
  <1>2. ASSUME UNCHANGED <<cache, store, unit, saving, changes, loading, outrun>>
        PROVE  CacheSound' /\ \A x \in Element : Serves(x)'
    BY <1>1, <1>2, ServesKept, SessionParts DEF CacheSound
  <1>3. ASSUME NEW k \in KeysOf[e], GetById(e, k) PROVE SessionInv'
    <2>1. /\ cache' = AfterGet(cache, k) /\ k \in Key
          /\ UNCHANGED <<store, object, unit, saving, changes, unreverted, outrun>>
      BY <1>3, KeysAreKeys DEF GetById, saveVars
    <2>2. CacheSound'
      BY <1>1, <2>1, SoundAfterGet DEF CacheSound
    <2>3. /\ tracker' \in [Element -> Tracker \cup {Untracked}]
          /\ adrift' \subseteq Element /\ loading' \subseteq Key
          /\ \A x \in Element : Own(x)'
          /\ \A l \in loading' : l \in loading \/ (l = k /\ store[e] # NoValue)
      <3>1. CASE Attach(e) /\ UNCHANGED loading
        BY <1>1, <2>1, <3>1, AttachKeeps
      <3>2. CASE /\ loading' = IF store[e] = NoValue THEN loading ELSE loading \cup {k}
                 /\ UNCHANGED <<trackVars, adrift>>
        BY <1>1, <2>1, <3>2, QuietKeeps DEF trackVars
      <3>3. QED
        BY <1>3, <3>1, <3>2 DEF GetById
    <2>4. ASSUME NEW x \in Element PROVE Serves(x)'
      <3>1. \A l \in KeysOf[x] : l \in loading' => l \in loading \/ store[x] # NoValue
        BY <1>3, <2>3, KeysAreKeys
      <3>2. Answers(cache', ExactKey[x]) => Answers(cache, ExactKey[x])
        BY <1>1, <2>1, AnswersAfterGet
      <3>3. QED
        BY <2>1, <3>1, <3>2, ServesKept, SessionParts
    <2>5. QED
      BY <1>1, <2>1, <2>2, <2>3, <2>4 DEF SessionInv, Own
  <1>4. CASE AttachEntity(e)
    <2>1. /\ Attach(e)
          /\ UNCHANGED <<cache, store, object, unit, saving, changes, loading,
                         unreverted, outrun>>
      BY <1>4 DEF AttachEntity, saveVars
    <2>2. QED
      BY <1>1, <1>2, <2>1, AttachKeeps DEF SessionInv, Own
  <1>5. CASE Detach(e)
    <2>1. /\ tracker' = [tracker EXCEPT ![e] = Untracked]
          /\ adrift' = adrift \ {e} /\ unreverted' = unreverted \ {e}
          /\ UNCHANGED <<cache, store, object, unit, saving, changes, loading, outrun>>
      BY <1>5 DEF Detach, saveVars
    <2>2. \A x \in Element : Own(x)'
      <3>1. /\ tracker'[e] = Untracked
            /\ tracker' \in [Element -> Tracker \cup {Untracked}]
            /\ \A x \in Element \ {e} : /\ tracker'[x] = tracker[x]
                                        /\ x \in adrift => x \in adrift'
                                        /\ x \in unreverted => x \in unreverted'
        BY <1>1, <2>1
      <3>2. QED
        BY <2>1, <3>1, ForgottenKeeps
    <2>3. QED
      BY <1>1, <1>2, <2>1, <2>2 DEF SessionInv, Own
  <1>6. ASSUME NEW v \in Value, SetValue(e, v) PROVE SessionInv'
    <2>1. UNCHANGED <<cache, store, unit, saving, changes, loading, outrun>>
      BY <1>6 DEF SetValue, saveVars
    <2>2. QED
      BY <1>1, <1>2, <1>6, <2>1, SetValueKeeps DEF SessionInv, Own
  <1>7. CASE Add(e) \/ Remove(e)
    <2>1. PICK st \in {"added", "deleted"} : Mark(e, st)
      BY <1>7 DEF Add, Remove
    <2>2. UNCHANGED <<cache, store, object, unit, saving, changes, loading, outrun>>
      BY <2>1 DEF Mark, saveVars
    <2>3. QED
      BY <1>1, <1>2, <2>1, <2>2, MarkKeeps DEF SessionInv, Own
  <1>8. QED
    BY <1>3, <1>4, <1>5, <1>6, <1>7 DEF ElementCall, TrackedCall

LEMMA SessionStepKeeps ==
    ASSUME SessionInv, SessionStep PROVE SessionInv'
  <1> USE DEF SessionTypes
  <1>1. SessionTypes /\ Sound(cache)
    BY DEF SessionInv, CacheSound
  <1>2. ASSUME UNCHANGED <<cache, store, unit, saving, changes, loading, outrun>>
        PROVE  CacheSound' /\ \A x \in Element : Serves(x)'
    BY <1>1, <1>2, ServesKept, SessionParts DEF CacheSound
  <1>3. CASE TrackerCall
    <2>1. PICK es \in SUBSET Tracked : AcceptChanges(es) \/ RejectChanges(es)
      BY <1>3 DEF TrackerCall
    <2>2. UNCHANGED <<cache, store, unit, saving, changes, loading, outrun>>
      BY <2>1 DEF AcceptChanges, RejectChanges, saveVars
    <2>3. CASE AcceptChanges(es)
      <3>1. object' = object
        BY <2>3 DEF AcceptChanges
      <3>2. QED
        BY <1>1, <1>2, <2>2, <2>3, <3>1, AcceptKeeps DEF SessionInv, Own
    <2>4. CASE RejectChanges(es)
      <3>1. adrift' = adrift
        BY <2>4 DEF RejectChanges
      <3>2. QED
        BY <1>1, <1>2, <2>2, <2>4, <3>1, RejectKeeps DEF SessionInv, Own
    <2>5. QED
      BY <2>1, <2>3, <2>4
  <1>4. CASE CacheCall
    <2>1. UNCHANGED <<store, object, tracker, unit, saving, changes, loading, adrift,
                      unreverted, outrun>>
      BY <1>4 DEF CacheCall, trackVars, saveVars
    <2>2. \/ cache' = EmptyCache
          \/ \E ks : cache' = Removed(cache, ks)
      BY <1>4 DEF CacheCall, AfterDelete, AfterPattern
    <2>3. CacheSound' /\ \A x : Answers(cache', x) => Answers(cache, x)
      BY <1>1, <2>2, SoundEmpty, SoundRemoved, AnswersEmpty, AnswersRemoved
      DEF CacheSound
    <2>4. \A x \in Element : Own(x)' /\ Serves(x)'
      BY <2>1, <2>3, QuietKeeps, ServesKept, SessionParts
    <2>5. QED
      BY <1>1, <2>1, <2>3, <2>4 DEF SessionInv, Own
  <1>5. CASE Dispose
    <2>1. /\ object' \in [Element -> Value]
          /\ tracker' = [e \in Element |-> Untracked]
          /\ cache' = EmptyCache /\ adrift' = {}
          /\ UNCHANGED <<store, unit, saving, changes, loading, outrun>>
      <3>1. ASSUME NEW kept \in Unrestored(Tracked)
            PROVE  Reverted(Tracked, kept) \in [Element -> Value]
        <4>1. ASSUME NEW x \in Tracked \ kept PROVE tracker[x].original \in Value
          BY <1>1, <4>1 DEF Unrestored, Tracked, Tracker
        <4>2. QED
          BY <1>1, <4>1 DEF Reverted
      <3>2. QED
        BY <1>1, <1>5, <3>1 DEF Dispose, saveVars
    <2>2. CacheSound' /\ \A x : ~Answers(cache', x)
      BY <2>1, SoundEmpty, AnswersEmpty DEF CacheSound
    <2>3. \A x \in Element : Own(x)'
      BY <2>1, ForgottenKeeps
    <2>4. \A x \in Element : Serves(x)'
      BY <2>1, <2>2, ServesKept, SessionParts
    <2>5. QED
      BY <1>1, <2>1, <2>2, <2>3, <2>4 DEF SessionInv, Own
  <1>6. CASE Save
    <2>1. /\ UNCHANGED <<cache, store, object, tracker, unit, loading, adrift>>
          /\ saving' = "collected"
      BY <1>6 DEF Save, trackVars
    <2>2. QED
      BY <1>1, <1>6, <2>1, SaveKeeps DEF SessionInv, CacheSound, Own
  <1>7. CASE Commit \/ SkipCommit
    <2>1. /\ UNCHANGED <<cache, object, tracker, changes, loading, adrift>>
          /\ saving' = "committed"
          /\ SkipCommit => UNCHANGED store
      BY <1>7 DEF Commit, SkipCommit, trackVars
    <2>2. QED
      BY <1>1, <1>7, <2>1, CommitKeeps, SkipKeeps DEF SessionInv, CacheSound, Own
  <1>8. CASE CommitFails \/ Invalidate
    <2>1. UNCHANGED <<store, object, tracker, loading, adrift>> /\ saving' = "no"
      BY <1>8 DEF CommitFails, Invalidate, trackVars
    <2>2. QED
      BY <1>1, <1>8, <2>1, SaveEndKeeps DEF SessionInv, Own
  <1>9. CASE AcceptSaved
    <2>1. /\ UNCHANGED <<cache, store, object, unit, changes, loading, outrun>>
          /\ saving = "committed" /\ saving' = "accepted"
      BY <1>9 DEF AcceptSaved
    <2>2. \A x \in Element : Serves(x)'
      BY <2>1 DEF SessionInv, Serves
    <2>3. QED
      BY <1>1, <1>9, <2>1, <2>2, AcceptSavedKeeps DEF SessionInv, CacheSound, Own
  <1>10. ASSUME NEW e \in Element, NEW k \in KeysOf[e], Load(e, k)
         PROVE  SessionInv'
    <2>1. /\ k \in loading /\ loading' = loading \ {k} /\ Attach(e) /\ k \in Key
          /\ cache' \in AfterSet(cache, k, {})
          /\ UNCHANGED <<store, object, unit, saving, changes, unreverted, outrun>>
      BY <1>10, KeysAreKeys DEF Load, saveVars
    <2>2. CacheSound'
      BY <1>1, <2>1, SoundAfterSet DEF CacheSound
    <2>3. \A l : Answers(cache', l) => Answers(cache, l) \/ l \in loading
      BY <2>1, AnswersAfterSet
    <2>4. \A x \in Element : Serves(x)'
      BY <2>1, <2>3, ServesKept, SessionParts
    <2>5. QED
      BY <1>1, <2>1, <2>2, <2>4, AttachKeeps DEF SessionInv, Own
  <1>11. ASSUME NEW k \in Key, Expire(k), UNCHANGED sessionVars
         PROVE  SessionInv'
    <2>1. UNCHANGED <<store, object, tracker, unit, saving, changes, loading, adrift,
                      unreverted, outrun>>
      BY <1>11 DEF sessionVars
    <2>2. cache' = [cache EXCEPT !.expired = @ \cup {k}]
      BY <1>11 DEF Expire
    <2>3. CacheSound'
      BY <1>1, <2>2 DEF CacheSound, Sound, Cached
    <2>4. \A x : Answers(cache', x) => Answers(cache, x)
      BY <1>1, <2>2 DEF Answers, Sound, Cached
    <2>5. \A x \in Element : Own(x)' /\ Serves(x)'
      BY <2>1, <2>4, QuietKeeps, ServesKept, SessionParts
    <2>6. QED
      BY <1>1, <2>1, <2>3, <2>5 DEF SessionInv, Own
  <1>12. QED
    BY <1>3, <1>4, <1>5, <1>6, <1>7, <1>8, <1>9, <1>10, <1>11 DEF SessionStep

LEMMA InitSessionInv == SessionInit => SessionInv
  <1> SUFFICES ASSUME SessionInit PROVE SessionInv
    OBVIOUS
  <1>1. SessionTypes
    BY DEF SessionInit, SessionTables, SessionTypes, NoChanges
  <1>2. CacheSound /\ \A k : ~Answers(cache, k)
    BY SoundEmpty, AnswersEmpty DEF SessionInit, SessionTables, CacheInit, CacheSound
  <1>3. ASSUME NEW x \in Element PROVE Own(x) /\ Serves(x)
    <2>1. tracker[x] = Untracked /\ changes[x] = Untracked /\ loading = {}
      BY <1>3 DEF SessionInit, SessionTables, NoChanges
    <2>2. QED
      BY <1>2, <2>1, SettledMeans DEF Own, Fits, Saved, Agrees, Serves
  <1>4. QED
    BY <1>1, <1>2, <1>3, SessionParts

LEMMA SessionInvStep == SessionInv /\ [SessionNext]_allVars => SessionInv'
  <1> SUFFICES ASSUME SessionInv, [SessionNext]_allVars PROVE SessionInv'
    OBVIOUS
  <1>1. CASE UNCHANGED allVars
    <2>1. UNCHANGED <<cache, store, object, tracker, unit, saving, changes, loading,
                      adrift, unreverted, outrun>>
      BY <1>1 DEF allVars, sessionVars
    <2>2. \A x \in Element : Own(x)' /\ Serves(x)'
      BY <2>1, QuietKeeps, ServesKept, SessionParts
    <2>3. QED
      BY <2>1, <2>2 DEF SessionInv, SessionTypes, CacheSound, Own
  <1>2. CASE SessionNext
    BY <1>2, SessionStepKeeps, ElementCallKeeps DEF SessionNext
  <1>3. QED
    BY <1>1, <1>2

LEMMA SpecSessionInv == SessionSpec => []SessionInv
  BY InitSessionInv, SessionInvStep, PTL DEF SessionSpec

(* What reject_changes() would restore is what the host has, but for what  *)
(* was accepted without having been written or attached unsaved.           *)
THEOREM OriginalIsStoredHolds == SessionSpec => []OriginalIsStored
  <1>1. SessionInv => OriginalIsStored
    BY DEF SessionInv, Agrees, OriginalIsStored
  <1>2. QED
    BY <1>1, SpecSessionInv, PTL

(* has_changes sees every object that differs from the host and that no    *)
(* reject has failed to restore.                                           *)
THEOREM UnsavedIsDirtyHolds == SessionSpec => []UnsavedIsDirty
  <1>1. SessionInv => UnsavedIsDirty
    BY DEF SessionInv, Agrees, UnsavedIsDirty, Dirty
  <1>2. QED
    BY <1>1, SpecSessionInv, PTL

(* What save_changes() deleted is not served under the type of the object, *)
(* unless it was being loaded.                                             *)
THEOREM DeletedIsNotServedHolds == SessionSpec => []DeletedIsNotServed
  <1>1. SessionInv => DeletedIsNotServed
    BY DEF SessionInv, Serves, DeletedIsNotServed, ServesDeleted
  <1>2. QED
    BY <1>1, SpecSessionInv, PTL

(* The indexes of the cache agree in the session too.                      *)
THEOREM SessionIndexesAgree == SessionSpec => []IndexesAgree
  <1>1. SessionInv => IndexesAgree
    BY DEF SessionInv, CacheSound, Sound, IndexesAgree
  <1>2. QED
    BY <1>1, SpecSessionInv, PTL
=============================================================================
