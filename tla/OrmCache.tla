------------------------------ MODULE OrmCache ------------------------------
(***************************************************************************)
(* MemoryCache and CacheManager of src/revitpy/orm/cache.py: a bounded     *)
(* OrderedDict of entries and two indexes of their dependencies, kept      *)
(* under one re-entrant lock, so that every method is one step.            *)
(*                                                                         *)
(* The operations are functions from a cache to a cache, so that a module  *)
(* that uses the cache can apply several in one step.  A key is the string *)
(* of a CacheKey; the data of an entry are left out.  Time is left out     *)
(* too: an entry may expire at any moment, and set() may find its periodic *)
(* cleanup due.  With the policy "lfu" any entry may be the least used.    *)
(***************************************************************************)
EXTENDS Integers, FiniteSets, Sequences

CONSTANTS
    Key,      \* keys of entries
    TypeKey,  \* TypeKey[k]: the key made of the entity type of k alone
    Dep,      \* dependencies
    MaxSize,  \* max_size
    Policy    \* eviction_policy

ASSUME CacheAssumption ==
    /\ DOMAIN TypeKey = Key
    /\ MaxSize \in Nat \ {0}
    /\ Policy \in {"lru", "lfu", "fifo"}

VARIABLE cache

EmptyCache ==
    [entry      |-> [k \in {} |-> {}],       \* _cache: dependencies of entries
     order      |-> <<>>,                    \* its order, oldest first
     expired    |-> {},                      \* entries with is_expired
     dependents |-> [d \in Dep |-> {}],      \* _key_dependencies
     sources    |-> [k \in Key |-> {}]]      \* _reverse_dependencies

Cached(c) == DOMAIN c.entry

(* Mutant: the key goes, its dependencies stay indexed.                    *)
RemovedUncleaned(c, ks) ==
    [c EXCEPT !.entry = [k \in Cached(c) \ ks |-> @[k]],
              !.order = SelectSeq(@, LAMBDA k : k \notin ks),
              !.expired = @ \ ks]

(* del _cache[k] and _cleanup_dependencies(k), for every k of ks           *)
Removed(c, ks) ==
    [entry      |-> [k \in Cached(c) \ ks |-> c.entry[k]],
     order      |-> SelectSeq(c.order, LAMBDA k : k \notin ks),
     expired    |-> c.expired \ ks,
     dependents |-> [d \in Dep |->
                       c.dependents[d] \ {k \in ks : d \in c.sources[k]}],
     sources    |-> [k \in Key |-> IF k \in ks THEN {} ELSE c.sources[k]]]

(* One turn of the loop is enough: the size never exceeds max_size.        *)
Victims(c) ==
    IF Len(c.order) < MaxSize THEN {{}}
    ELSE IF Policy = "lfu" THEN {{k} : k \in Cached(c)}
    ELSE {{Head(c.order)}}

(* _cache[k] = entry keeps the place of a key that is there, and what the  *)
(* old entry depended on stays indexed.                                    *)
Stored(c, k, ds) ==
    [entry      |-> [l \in Cached(c) \cup {k} |->
                       IF l = k THEN ds ELSE c.entry[l]],
     order      |-> IF k \in Cached(c) THEN c.order ELSE Append(c.order, k),
     expired    |-> c.expired \ {k},
     dependents |-> [d \in Dep |-> IF d \in ds THEN c.dependents[d] \cup {k}
                                               ELSE c.dependents[d]],
     sources    |-> [c.sources EXCEPT ![k] = @ \cup ds]]

(* What set() may leave: after the eviction and with or without a cleanup. *)
AfterSet(c, k, ds) ==
    {Stored(Removed(c, ks), k, ds) : ks \in Victims(c)}
      \cup {Removed(Stored(Removed(c, ks), k, ds), c.expired \ (ks \cup {k})) :
              ks \in Victims(c)}

(* get(): whether it answers, and what it leaves.                          *)
Answers(c, k) == k \in Cached(c) \ c.expired
AfterGet(c, k) ==
    IF Answers(c, k)
    THEN IF Policy = "lru"
         THEN [c EXCEPT !.order =
                 Append(SelectSeq(@, LAMBDA l : l # k), k)]
         ELSE c
    ELSE Removed(c, Cached(c) \cap {k})

AfterDelete(c, k) == Removed(c, Cached(c) \cap {k})

(* keys() gives the keys back with their entity type alone, so what is     *)
(* deleted for a type are not the keys that matched.                       *)
AfterPattern(c, k) ==
    Removed(c, {TypeKey[l] : l \in {m \in Cached(c) : TypeKey[m] = TypeKey[k]}}
                 \cap Cached(c))
-----------------------------------------------------------------------------
CacheInit == cache = EmptyCache

Expire(k) ==
    /\ k \in Cached(cache)
    /\ cache' = [cache EXCEPT !.expired = @ \cup {k}]

Get(k) == cache' = AfterGet(cache, k)

Set(k, ds) == cache' \in AfterSet(cache, k, ds)

Delete(k) == cache' = AfterDelete(cache, k)

InvalidateDependency(d) ==
    cache' = Removed(cache, cache.dependents[d] \cap Cached(cache))

InvalidatePattern(k) == cache' = AfterPattern(cache, k)

Clear == cache' = EmptyCache

CacheNext ==
    \/ \E k \in Key :
         \/ Expire(k)
         \/ Get(k)
         \/ \E ds \in SUBSET Dep : Set(k, ds)
         \/ Delete(k)
         \/ InvalidatePattern(k)
    \/ \E d \in Dep : InvalidateDependency(d)
    \/ Clear

CacheSpec == CacheInit /\ [][CacheNext]_cache
-----------------------------------------------------------------------------
(* The types of the cache, of use for the proofs and for modules above.    *)
CacheTypeOK ==
    /\ cache.entry \in [Cached(cache) -> SUBSET Dep] /\ Cached(cache) \subseteq Key
    /\ cache.order \in Seq(Key)
    /\ cache.expired \subseteq Cached(cache)
    /\ cache.dependents \in [Dep -> SUBSET Key]
    /\ cache.sources \in [Key -> SUBSET Dep]

(* The two dependency indexes are each other's inverse, name cached keys   *)
(* only, and hold what every entry depends on - over overwrites, evictions *)
(* and expiries, which update them one key at a time.                      *)
IndexesAgree ==
    /\ \A k \in Key, d \in Dep :
         k \in cache.dependents[d] <=> d \in cache.sources[k]
    /\ \A k \in Key : cache.sources[k] # {} => k \in Cached(cache)
    /\ \A k \in Cached(cache) : cache.entry[k] \subseteq cache.sources[k]

(* invalidate_by_dependency(): an entry that was in the cache and depends  *)
(* on something is gone as soon as that is invalidated, whatever entry the *)
(* key had before.                                                         *)
InvalidationReachesAll ==
    [][\A d \in Dep : InvalidateDependency(d)
         => \A k \in Cached(cache') : d \notin cache'.entry[k]]_cache
=============================================================================
