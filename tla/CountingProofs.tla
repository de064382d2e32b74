-------------------------- MODULE CountingProofs --------------------------
(***************************************************************************)
(* Proofs about InterpreterPool.tla, for any callers, any size of the pool *)
(* and any number of interpreters, and about EventHandlers.tla, for any    *)
(* handlers and any threads that change the lists.                         *)
(*                                                                         *)
(* The invariants of both count what is in sequences, so the lemmas at the *)
(* start say what the operations on a sequence do to a count.              *)
(*                                                                         *)
(* OnePlaceEach needs that an interpreter not created yet is nowhere       *)
(* (Numbers); SlotsCount that a rental that was forced back has upset the  *)
(* count already (Slots).  HandlersAreCalled needs that a handler is in    *)
(* the lists as often as it is registered, in the middle of a call as well *)
(* (ListsCount), and that what an event has yet to go to and what it has   *)
(* gone to add up to that (Goes).                                          *)
(***************************************************************************)
EXTENDS InterpreterPool, EventHandlers, FiniteSetTheorems, FunctionTheorems,
        SequenceTheorems, WellFoundedInduction, TLAPS

-----------------------------------------------------------------------------
(* The positions of i in a queue, and what Append and Tail do to them.     *)
Positions(s, i) == {k \in DOMAIN s : s[k] = i}

LEMMA HeadAndTail ==
    ASSUME NEW S, NEW s \in Seq(S), s # <<>>
    PROVE  Head(s) \in S /\ Tail(s) \in Seq(S)
  OBVIOUS

LEMMA LargerSeq ==
    ASSUME NEW S, NEW T, S \subseteq T, NEW s \in Seq(S)
    PROVE  s \in Seq(T)
  OBVIOUS

LEMMA PositionsFinite ==
    ASSUME NEW S, NEW s \in Seq(S), NEW i
    PROVE  IsFiniteSet(Positions(s, i)) /\ Cardinality(Positions(s, i)) \in Nat
  <1>1. DOMAIN s = 1 .. Len(s) /\ Len(s) \in Nat
    OBVIOUS
  <1>2. IsFiniteSet(1 .. Len(s))
    BY <1>1, FS_Interval
  <1>3. Positions(s, i) \subseteq 1 .. Len(s)
    BY <1>1 DEF Positions
  <1>4. IsFiniteSet(Positions(s, i))
    BY <1>2, <1>3, FS_Subset
  <1>5. QED
    BY <1>4, FS_CardinalityType

LEMMA PositionsAppend ==
    ASSUME NEW S, NEW s \in Seq(S), NEW e \in S, NEW i
    PROVE  Cardinality(Positions(Append(s, e), i))
             = Cardinality(Positions(s, i)) + (IF e = i THEN 1 ELSE 0)
  <1> DEFINE n == Len(s) + 1
  <1>1. DOMAIN s = 1 .. Len(s) /\ Len(s) \in Nat
    OBVIOUS
  <1>2. /\ DOMAIN Append(s, e) = 1 .. n
        /\ \A k \in 1 .. Len(s) : Append(s, e)[k] = s[k]
        /\ Append(s, e)[n] = e
    OBVIOUS
  <1>3. 1 .. n = (1 .. Len(s)) \cup {n} /\ n \notin 1 .. Len(s)
    BY <1>1
  <1>4. IsFiniteSet(Positions(s, i)) /\ n \notin Positions(s, i)
    BY <1>1, <1>3, PositionsFinite DEF Positions
  <1>5. CASE e = i
    <2>1. Positions(Append(s, e), i) = Positions(s, i) \cup {n}
      BY <1>1, <1>2, <1>3, <1>5 DEF Positions
    <2>2. QED
      BY <1>4, <1>5, <2>1, FS_AddElement
  <1>6. CASE e # i
    <2>1. Positions(Append(s, e), i) = Positions(s, i)
      BY <1>1, <1>2, <1>3, <1>6 DEF Positions
    <2>2. QED
      BY <1>4, <1>6, <2>1, FS_CardinalityType
  <1>7. QED
    BY <1>5, <1>6

LEMMA SameCount ==
    ASSUME NEW A, NEW B, IsFiniteSet(A), NEW f \in [A -> B],
           \A x, y \in A : f[x] = f[y] => x = y,
           \A z \in B : \E x \in A : f[x] = z
    PROVE  IsFiniteSet(B) /\ Cardinality(B) = Cardinality(A)
  <1>1. f \in Bijection(A, B)
    BY Fun_IsBij
  <1>2. ExistsBijection(A, B)
    BY <1>1 DEF ExistsBijection
  <1>3. QED
    BY <1>2, FS_Bijection

LEMMA PositionsTail ==
    ASSUME NEW S, NEW s \in Seq(S), s # <<>>, NEW i
    PROVE  Cardinality(Positions(Tail(s), i))
             = Cardinality(Positions(s, i)) - (IF Head(s) = i THEN 1 ELSE 0)
  <1> DEFINE rest == Positions(s, i) \ {1}
             shift == [k \in Positions(Tail(s), i) |-> k + 1]
  <1>1. /\ Len(s) \in Nat \ {0} /\ DOMAIN s = 1 .. Len(s) /\ Head(s) = s[1]
        /\ DOMAIN Tail(s) = 1 .. Len(s) - 1
        /\ \A k \in 1 .. Len(s) - 1 : Tail(s)[k] = s[k + 1]
    OBVIOUS
  <1>2. \A k \in Positions(Tail(s), i) : k \in Nat /\ k + 1 \in rest
    BY <1>1 DEF Positions
  <1>3. \A k \in rest : k - 1 \in Positions(Tail(s), i) /\ k = (k - 1) + 1
    BY <1>1 DEF Positions
  <1>4. shift \in [Positions(Tail(s), i) -> rest]
    BY <1>2
  <1>5. \A j, k \in Positions(Tail(s), i) : shift[j] = shift[k] => j = k
    BY <1>2
  <1>6. \A k \in rest : \E j \in Positions(Tail(s), i) : shift[j] = k
    BY <1>3
  <1>7. IsFiniteSet(Positions(Tail(s), i))
    <2>1. Tail(s) \in Seq(S)
      OBVIOUS
    <2>2. QED
      BY <2>1, PositionsFinite
  <1>8. Cardinality(rest) = Cardinality(Positions(Tail(s), i))
    <2> DEFINE A == Positions(Tail(s), i)
    <2> HIDE DEF A, rest, shift
    <2>1. IsFiniteSet(A) /\ shift \in [A -> rest]
      BY <1>4, <1>7 DEF A
    <2>2. \A j, k \in A : shift[j] = shift[k] => j = k
      BY <1>5 DEF A
    <2>3. \A k \in rest : \E j \in A : shift[j] = k
      BY <1>6 DEF A
    <2>4. Cardinality(rest) = Cardinality(A)
      BY <2>1, <2>2, <2>3, SameCount
    <2>5. QED
      BY <2>4 DEF A
  <1>9. IsFiniteSet(Positions(s, i)) /\ Cardinality(Positions(s, i)) \in Nat
    BY PositionsFinite
  <1>10. Cardinality(rest) = IF 1 \in Positions(s, i)
                             THEN Cardinality(Positions(s, i)) - 1
                             ELSE Cardinality(Positions(s, i))
    BY <1>9, FS_RemoveElement
  <1>11. 1 \in Positions(s, i) <=> Head(s) = i
    BY <1>1 DEF Positions
  <1>12. QED
    BY <1>8, <1>9, <1>10, <1>11

LEMMA PositionsConcat ==
    ASSUME NEW S, NEW s \in Seq(S), NEW t \in Seq(S), NEW i
    PROVE  Cardinality(Positions(s \o t, i))
             = Cardinality(Positions(s, i)) + Cardinality(Positions(t, i))
  <1> DEFINE n == Len(s)
             after == {k \in Positions(s \o t, i) : k > n}
             shift == [k \in Positions(t, i) |-> n + k]
  <1>1. /\ n \in Nat /\ Len(t) \in Nat
        /\ DOMAIN s = 1 .. n /\ DOMAIN t = 1 .. Len(t)
        /\ DOMAIN (s \o t) = 1 .. n + Len(t)
        /\ \A k \in 1 .. n : (s \o t)[k] = s[k]
        /\ \A k \in 1 .. Len(t) : (s \o t)[n + k] = t[k]
    OBVIOUS
  <1>2. \A k \in Positions(t, i) : k \in Nat /\ n + k \in after
    BY <1>1 DEF Positions
  <1>3. \A k \in after : k - n \in Positions(t, i) /\ k = n + (k - n)
    BY <1>1 DEF Positions
  <1>4. IsFiniteSet(Positions(t, i)) /\ IsFiniteSet(Positions(s, i))
        /\ Cardinality(Positions(t, i)) \in Nat
        /\ Cardinality(Positions(s, i)) \in Nat
    BY PositionsFinite
  <1>5. IsFiniteSet(after) /\ Cardinality(after) = Cardinality(Positions(t, i))
    <2>1. shift \in [Positions(t, i) -> after]
      BY <1>2
    <2>2. \A j, k \in Positions(t, i) : shift[j] = shift[k] => j = k
      BY <1>1, <1>2
    <2>3. \A k \in after : \E j \in Positions(t, i) : shift[j] = k
      BY <1>3
    <2> DEFINE A == Positions(t, i)
    <2> HIDE DEF A, after, shift
    <2>4. /\ IsFiniteSet(A) /\ shift \in [A -> after]
          /\ \A j, k \in A : shift[j] = shift[k] => j = k
          /\ \A k \in after : \E j \in A : shift[j] = k
      BY <1>4, <2>1, <2>2, <2>3 DEF A
    <2>5. IsFiniteSet(after) /\ Cardinality(after) = Cardinality(A)
      BY <2>4, SameCount
    <2>6. QED
      BY <2>5 DEF A
  <1>6. Positions(s \o t, i) = Positions(s, i) \cup after
    BY <1>1 DEF Positions
  <1>7. Positions(s, i) \cap after = {}
    BY <1>1 DEF Positions
  <1>8. Cardinality(Positions(s, i) \cap after) = 0
    BY <1>7, FS_EmptySet
  <1> HIDE DEF after
  <1>9. Cardinality(Positions(s, i) \cup after)
          = Cardinality(Positions(s, i)) + Cardinality(after)
              - Cardinality(Positions(s, i) \cap after)
    BY <1>4, <1>5, FS_Union
  <1>10. QED
    BY <1>4, <1>5, <1>6, <1>8, <1>9

-----------------------------------------------------------------------------
(* The interpreter pool.                                                   *)
(* A set of callers, and the same with one caller more or less.            *)
LEMMA CallersFinite ==
    ASSUME NEW A, A \subseteq Renter
    PROVE  IsFiniteSet(A) /\ Cardinality(A) \in Nat
  BY PoolAssumption, FS_Subset, FS_CardinalityType

LEMMA CallersMonotone ==
    ASSUME NEW A, NEW B, A \subseteq B, B \subseteq Renter
    PROVE  Cardinality(A) <= Cardinality(B)
  BY CallersFinite, FS_Subset

LEMMA OneMore ==
    ASSUME NEW A, NEW r, A \subseteq Renter
    PROVE  Cardinality(A \cup {r})
             = IF r \in A THEN Cardinality(A) ELSE Cardinality(A) + 1
  BY CallersFinite, FS_AddElement

LEMMA OneLess ==
    ASSUME NEW A, NEW r, A \subseteq Renter
    PROVE  Cardinality(A \ {r})
             = IF r \in A THEN Cardinality(A) - 1 ELSE Cardinality(A)
  BY CallersFinite, FS_RemoveElement

-----------------------------------------------------------------------------
(* The invariant.                                                          *)
Place == {"out", "waits", "dequeues", "polls", "creates", "took", "holds",
          "forced", "returns", "releases", "raises"}

(* Interpreters are numbered as they are created, and a caller that is to  *)
(* give one back has one.                                                  *)
Numbers ==
    /\ at \in [Renter -> Place]
    /\ created \in Interpreter
    /\ available \in Seq(1 .. created)
    /\ has \in [Renter -> 0 .. created]
    /\ replacing \in [Interpreter -> Nat]
    /\ \A i \in Interpreter : i > created => replacing[i] = 0
    /\ \A r \in Renter : at[r] \in {"took", "holds", "returns"} => has[r] # 0

Tables ==
    /\ pooled \subseteq Interpreter
    /\ dead \subseteq Interpreter
    /\ handed \subseteq Interpreter
    /\ rented \in [Interpreter -> Renter \cup {0}]
    /\ refills \in Nat
    /\ reset \in {"off", "disposes", "drains", "clears"}

(* The semaphore: who is past it, and what has upset it.                   *)
Past == {r \in Renter : at[r] \notin {"out", "waits"}}

Slots ==
    /\ slots \in 0 .. MaxInterpreters
    /\ lent \in BOOLEAN
    /\ lent => \A r \in Renter : at[r] # "forced"
    /\ lent => slots + Cardinality(Past) = MaxInterpreters

Holders(i) == {r \in Renter : at[r] # "releases" /\ has[r] = i}
Places(i) == Cardinality(Positions(available, i)) + Cardinality(Holders(i))
                + replacing[i]
EachPlace == \A i \in 1 .. created \ handed : Places(i) <= 1

PoolInv == Numbers /\ Tables /\ Slots /\ EachPlace

LEMMA InitPoolInv == PoolInit => PoolInv
  <1> SUFFICES ASSUME PoolInit PROVE PoolInv
    OBVIOUS
  <1>1. /\ Initial \in Interpreter /\ 1 .. Initial \subseteq Interpreter
        /\ created = Initial /\ Initial \in Nat
    BY PoolAssumption DEF PoolInit, Initial, Interpreter
  <1>2. Numbers
    <2>1. available \in Seq(1 .. created)
      BY <1>1 DEF PoolInit
    <2>2. has \in [Renter -> 0 .. created]
      BY <1>1 DEF PoolInit
    <2>3. QED
      BY <1>1, <2>1, <2>2 DEF PoolInit, Numbers, Place
  <1>3. Tables
    BY <1>1 DEF PoolInit, Tables
  <1>4. Slots
    <2>1. Past = {}
      BY DEF PoolInit, Past
    <2>2. Cardinality(Past) = 0
      BY <2>1, FS_EmptySet
    <2>3. slots = MaxInterpreters /\ lent = TRUE
          /\ \A r \in Renter : at[r] = "out"
      BY DEF PoolInit
    <2>4. MaxInterpreters \in Nat
      BY PoolAssumption
    <2>5. QED
      BY <2>2, <2>3, <2>4 DEF Slots
  <1>5. EachPlace
    <2>1. SUFFICES ASSUME NEW i \in 1 .. created PROVE Places(i) <= 1
      BY DEF EachPlace
    <2>2. Positions(available, i) = {i}
      BY <1>1 DEF PoolInit, Positions
    <2>3. Holders(i) = {} /\ replacing[i] = 0
      BY <1>1 DEF PoolInit, Holders
    <2>4. Cardinality(Positions(available, i)) = 1
      BY <2>2, FS_Singleton
    <2>5. Cardinality(Holders(i)) = 0
      BY <2>3, FS_EmptySet
    <2>6. QED
      BY <2>3, <2>4, <2>5 DEF Places
  <1>6. QED
    BY <1>2, <1>3, <1>4, <1>5 DEF PoolInv

-----------------------------------------------------------------------------
(* The types.                                                              *)
LEMMA CreateNumbers ==
    ASSUME Numbers, Create
    PROVE  /\ created \in Nat /\ created' = created + 1 /\ created' \in Interpreter
           /\ available' = Append(available, created')
           /\ available' \in Seq(1 .. created')
           /\ has \in [Renter -> 0 .. created']
           /\ replacing[created'] = 0
  <1>1. /\ created \in Nat /\ created' = created + 1
        /\ created' \in Interpreter /\ created' > created
    BY PoolAssumption DEF Numbers, Create, Interpreter
  <1>2. Seq(1 .. created) \subseteq Seq(1 .. created') /\ created' \in 1 .. created'
    BY <1>1
  <1>3. available' = Append(available, created')
    BY DEF Create
  <1>4. available' \in Seq(1 .. created')
    BY <1>2, <1>3 DEF Numbers
  <1>5. has \in [Renter -> 0 .. created']
    BY <1>1 DEF Numbers
  <1>6. QED
    BY <1>1, <1>3, <1>4, <1>5 DEF Numbers

LEMMA NumbersKept ==
    ASSUME Numbers, PoolNext PROVE Numbers'
  <1> USE DEF Numbers
  <1>1. ASSUME NEW r \in Renter,
               \/ Rent(r) \/ Acquire(r) \/ WaitFails(r) \/ DequeueFindsNone(r)
               \/ PollTimesOut(r) \/ PollCancelled(r) \/ CreateFails(r)
               \/ Raise(r) \/ ForceReturn(r)
        PROVE  Numbers'
    BY <1>1 DEF Rent, Acquire, WaitFails, DequeueFindsNone, PollTimesOut,
       PollCancelled, CreateFails, Raise, ForceReturn, Forced, GoTo, Place,
       tables, tasks
  <1>2. ASSUME NEW r \in Renter, Register(r) \/ Unrent(r) PROVE Numbers'
    BY <1>2 DEF Register, Unrent, GoTo, Place, tables, tasks
  <1>3. ASSUME NEW r \in Renter, Dequeue(r) \/ Poll(r) PROVE Numbers'
    <2>1. TakeFirst(r)
      BY <1>3 DEF Dequeue, Poll
    <2>2. Head(available) \in 1 .. created /\ Tail(available) \in Seq(1 .. created)
      <3>1. available # <<>> /\ available \in Seq(1 .. created)
        BY <2>1 DEF TakeFirst
      <3>2. QED
        BY <3>1, HeadAndTail
    <2>3. has' \in [Renter -> 0 .. created] /\ has'[r] # 0
      BY <2>1, <2>2 DEF TakeFirst
    <2>4. QED
      BY <2>1, <2>2, <2>3 DEF TakeFirst, GoTo, Place, tasks
  <1>4. ASSUME NEW r \in Renter, RentCreates(r) PROVE Numbers'
    <2>1. Create /\ has' = [has EXCEPT ![r] = created'] /\ GoTo(r, "took")
          /\ UNCHANGED replacing
      BY <1>4 DEF RentCreates, tasks
    <2>2. /\ created \in Nat /\ created' = created + 1 /\ created' \in Interpreter
          /\ available' \in Seq(1 .. created')
          /\ has \in [Renter -> 0 .. created']
      BY <2>1, CreateNumbers
    <2>3. has' \in [Renter -> 0 .. created'] /\ has'[r] # 0
      BY <2>1, <2>2
    <2>4. \A i \in Interpreter : i > created' => replacing[i] = 0
      BY <2>2 DEF Interpreter
    <2>5. QED
      BY <2>1, <2>2, <2>3, <2>4 DEF GoTo, Place
  <1>5. ASSUME NEW r \in Renter,
               ForcedLeaves(r) \/ ReturnUnknown(r) \/ ReturnReleases(r)
        PROVE  Numbers'
    <2>1. 0 \in 0 .. created
      BY DEF Interpreter
    <2>2. QED
      BY <1>5, <2>1 DEF ForcedLeaves, ReturnUnknown, ReturnReleases, Leave,
         GoTo, Place, tables, tasks
  <1>6. ASSUME NEW r \in Renter, ReturnHealthy(r) PROVE Numbers'
    <2>1. has[r] \in 1 .. created
      BY <1>6 DEF ReturnHealthy, Interpreter
    <2>2. available' \in Seq(1 .. created)
      BY <1>6, <2>1 DEF ReturnHealthy
    <2>3. QED
      BY <1>6, <2>2 DEF ReturnHealthy, GoTo, Place, tasks
  <1>7. ASSUME NEW r \in Renter, ReturnUnhealthy(r) PROVE Numbers'
    <2>1. has[r] \in 1 .. created /\ has[r] \in Interpreter
      BY <1>7, PoolAssumption DEF ReturnUnhealthy, Interpreter
    <2>2. replacing' \in [Interpreter -> Nat]
      BY <1>7, <2>1 DEF ReturnUnhealthy
    <2>3. \A i \in Interpreter : i > created => replacing'[i] = 0
      BY <1>7, <2>1 DEF ReturnUnhealthy, Interpreter
    <2>4. QED
      BY <1>7, <2>2, <2>3 DEF ReturnUnhealthy, GoTo, Place, tables
  <1>8. ASSUME NEW i \in Interpreter, Replace(i) PROVE Numbers'
    BY <1>8 DEF Replace
  <1>9. CASE Refill
    <2>1. CASE UNCHANGED <<created, pooled, available>>
      BY <1>9, <2>1 DEF Refill
    <2>2. CASE Create
      <3>1. UNCHANGED <<replacing, at, has>>
        BY <1>9 DEF Refill
      <3>2. /\ created \in Nat /\ created' = created + 1 /\ created' \in Interpreter
            /\ available' \in Seq(1 .. created')
            /\ has \in [Renter -> 0 .. created']
        BY <2>2, CreateNumbers
      <3>3. \A i \in Interpreter : i > created' => replacing[i] = 0
        BY <3>2 DEF Interpreter
      <3>4. QED
        BY <3>1, <3>2, <3>3
    <2>3. QED
      BY <1>9, <2>1, <2>2 DEF Refill
  <1>10. CASE ResetForces
    BY <1>10 DEF ResetForces, Place, tables, tasks
  <1>11. CASE ResetDisposes \/ ResetClears
    BY <1>11 DEF ResetDisposes, ResetClears, tasks
  <1>12. CASE ResetDrains
    BY <1>12 DEF ResetDrains, tasks
  <1>13. QED
    BY <1>1, <1>2, <1>3, <1>4, <1>5, <1>6, <1>7, <1>8, <1>9, <1>10, <1>11, <1>12
    DEF PoolNext, RenterStep

LEMMA TablesKept ==
    ASSUME Numbers, Tables, PoolNext PROVE Tables'
  <1> USE DEF Tables
  <1>1. ASSUME NEW r \in Renter,
               \/ Rent(r) \/ Acquire(r) \/ WaitFails(r) \/ DequeueFindsNone(r)
               \/ PollTimesOut(r) \/ PollCancelled(r) \/ CreateFails(r)
               \/ Raise(r) \/ ForceReturn(r) \/ ForcedLeaves(r)
               \/ ReturnUnknown(r) \/ ReturnReleases(r)
        PROVE  Tables'
    BY <1>1 DEF Rent, Acquire, WaitFails, DequeueFindsNone, PollTimesOut,
       PollCancelled, CreateFails, Raise, ForceReturn, ForcedLeaves,
       ReturnUnknown, ReturnReleases, tables, tasks
  <1>2. ASSUME NEW r \in Renter, Register(r) \/ Unrent(r) PROVE Tables'
    BY <1>2 DEF Register, Unrent, tasks
  <1>3. ASSUME NEW r \in Renter,
               Dequeue(r) \/ Poll(r) \/ ReturnHealthy(r) \/ ReturnUnhealthy(r)
        PROVE  Tables'
    BY <1>3 DEF Dequeue, Poll, TakeFirst, ReturnHealthy, ReturnUnhealthy,
       tables, tasks
  <1>4. ASSUME NEW r \in Renter, RentCreates(r) PROVE Tables'
    BY <1>4, CreateNumbers DEF RentCreates, Create, tasks
  <1>5. ASSUME NEW i \in Interpreter, Replace(i) PROVE Tables'
    BY <1>5 DEF Replace
  <1>6. CASE Refill
    <2>1. refills' \in Nat /\ UNCHANGED <<dead, handed, rented, reset>>
      BY <1>6 DEF Refill
    <2>2. pooled' \subseteq Interpreter
      BY <1>6, CreateNumbers DEF Refill, Create
    <2>3. QED
      BY <2>1, <2>2
  <1>7. CASE ResetForces \/ ResetDisposes \/ ResetDrains \/ ResetClears
    BY <1>7 DEF ResetForces, ResetDisposes, ResetDrains, ResetClears, tables,
       tasks
  <1>8. QED
    BY <1>1, <1>2, <1>3, <1>4, <1>5, <1>6, <1>7 DEF PoolNext, RenterStep

-----------------------------------------------------------------------------
(* The count of the slots.                                                 *)
LEMMA PastMoves ==
    ASSUME Numbers, NEW r \in Renter, NEW to, GoTo(r, to)
    PROVE  /\ Cardinality(Past) \in Nat
           /\ (at[r] \in {"out", "waits"} <=> to \in {"out", "waits"})
                => Cardinality(Past') = Cardinality(Past)
           /\ at[r] \in {"out", "waits"} /\ to \notin {"out", "waits"}
                => Cardinality(Past') = Cardinality(Past) + 1
           /\ at[r] \notin {"out", "waits"} /\ to \in {"out", "waits"}
                => /\ Cardinality(Past') = Cardinality(Past) - 1
                   /\ Cardinality(Past) > 0
  <1>1. Past \subseteq Renter /\ Cardinality(Past) \in Nat /\ IsFiniteSet(Past)
    BY CallersFinite DEF Past
  <1>2. at'[r] = to /\ \A s \in Renter \ {r} : at'[s] = at[s]
    BY DEF Numbers, GoTo
  <1>3. ASSUME at[r] \in {"out", "waits"} <=> to \in {"out", "waits"}
        PROVE  Past' = Past
    BY <1>2, <1>3 DEF Past
  <1>4. ASSUME at[r] \in {"out", "waits"}, to \notin {"out", "waits"}
        PROVE  Cardinality(Past') = Cardinality(Past) + 1
    <2>1. Past' = Past \cup {r} /\ r \notin Past
      BY <1>2, <1>4 DEF Past
    <2>2. QED
      BY <1>1, <2>1, OneMore
  <1>5. ASSUME at[r] \notin {"out", "waits"}, to \in {"out", "waits"}
        PROVE  Cardinality(Past') = Cardinality(Past) - 1 /\ Cardinality(Past) > 0
    <2>1. Past' = Past \ {r} /\ r \in Past
      BY <1>2, <1>5 DEF Past
    <2>2. Cardinality(Past) # 0
      BY <1>1, <2>1, FS_EmptySet
    <2>3. QED
      BY <1>1, <2>1, <2>2, OneLess
  <1>6. QED
    BY <1>1, <1>3, <1>4, <1>5

LEMMA SlotsKept ==
    ASSUME Numbers, Slots, PoolNext PROVE Slots'
  <1> USE DEF Slots
  <1>0. /\ MaxInterpreters \in Nat \ {0}
        /\ Cardinality(Past) \in Nat
    BY PoolAssumption, CallersFinite DEF Past
  <1>1. ASSUME slots' = slots, at' = at, lent' = lent PROVE Slots'
    BY <1>1 DEF Past
  <1>2. ASSUME NEW r \in Renter, NEW to, GoTo(r, to), to # "forced",
               at[r] \in {"out", "waits"} <=> to \in {"out", "waits"},
               slots' = slots, lent' = lent
        PROVE  Slots'
    <2>1. Cardinality(Past') = Cardinality(Past)
      BY <1>2, PastMoves
    <2>2. \A s \in Renter : at'[s] = "forced" => at[s] = "forced"
      BY <1>2 DEF GoTo, Numbers
    <2>3. QED
      BY <1>2, <2>1, <2>2
  <1>3. ASSUME lent' = FALSE, slots' \in 0 .. MaxInterpreters PROVE Slots'
    BY <1>3
  <1>4. slots' = slots \/ Release => slots' \in 0 .. MaxInterpreters
    BY <1>0 DEF Release
  <1>5. ASSUME NEW r \in Renter,
               \/ Rent(r) \/ Dequeue(r) \/ DequeueFindsNone(r) \/ Poll(r)
               \/ PollCancelled(r) \/ RentCreates(r) \/ CreateFails(r)
               \/ Register(r) \/ Unrent(r) \/ ReturnHealthy(r)
               \/ ReturnUnhealthy(r)
        PROVE  Slots'
    <2>1. slots' = slots /\ lent' = lent
      BY <1>5 DEF Rent, Dequeue, DequeueFindsNone, Poll, PollCancelled,
         RentCreates, CreateFails, Register, Unrent, ReturnHealthy,
         ReturnUnhealthy, TakeFirst
    <2>2. PICK to \in Place :
             /\ GoTo(r, to) /\ to # "forced"
             /\ at[r] \in {"out", "waits"} <=> to \in {"out", "waits"}
      BY <1>5 DEF Rent, Dequeue, DequeueFindsNone, Poll, PollCancelled,
         RentCreates, CreateFails, Register, Unrent, ReturnHealthy,
         ReturnUnhealthy, TakeFirst, Place
    <2>3. QED
      BY <1>2, <2>1, <2>2
  <1>6. ASSUME NEW r \in Renter,
               WaitFails(r) \/ PollTimesOut(r) \/ ReturnUnknown(r) \/ ForceReturn(r)
        PROVE  Slots'
    BY <1>3, <1>4, <1>6 DEF WaitFails, PollTimesOut, ReturnUnknown, ForceReturn
  <1>7. ASSUME NEW r \in Renter, Acquire(r) PROVE Slots'
    <2>1. Cardinality(Past') = Cardinality(Past) + 1
      BY <1>7, PastMoves DEF Acquire
    <2>2. \A s \in Renter : at'[s] = "forced" => at[s] = "forced"
      BY <1>7 DEF Acquire, GoTo, Numbers
    <2>3. QED
      BY <1>0, <1>7, <2>1, <2>2 DEF Acquire
  <1>8. ASSUME NEW r \in Renter, Raise(r) \/ ReturnReleases(r) PROVE Slots'
    <2>1. Cardinality(Past') = Cardinality(Past) - 1 /\ Cardinality(Past) > 0
      BY <1>8, PastMoves DEF Raise, ReturnReleases, Leave
    <2>2. \A s \in Renter : at'[s] = "forced" => at[s] = "forced"
      BY <1>8 DEF Raise, ReturnReleases, Leave, GoTo, Numbers
    <2>3. Release /\ lent' = lent
      BY <1>8 DEF Raise, ReturnReleases
    <2>4. QED
      BY <1>0, <1>4, <2>1, <2>2, <2>3 DEF Release
  <1>9. ASSUME NEW r \in Renter, ForcedLeaves(r) PROVE Slots'
    BY <1>3, <1>4, <1>9 DEF ForcedLeaves
  <1>10. ASSUME NEW i \in Interpreter, Replace(i) PROVE Slots'
    BY <1>1, <1>10 DEF Replace
  <1>11. CASE Refill \/ ResetDisposes \/ ResetDrains \/ ResetClears
    BY <1>1, <1>11 DEF Refill, ResetDisposes, ResetDrains, ResetClears
  <1>12. CASE ResetForces
    BY <1>3, <1>4, <1>12 DEF ResetForces
  <1>13. QED
    BY <1>5, <1>6, <1>7, <1>8, <1>9, <1>10, <1>11, <1>12 DEF PoolNext, RenterStep

-----------------------------------------------------------------------------
(* The places of an interpreter.                                           *)
LEMMA PlacesAreNumbers ==
    ASSUME Numbers, NEW i \in Interpreter
    PROVE  /\ Cardinality(Positions(available, i)) \in Nat
           /\ Cardinality(Holders(i)) \in Nat
           /\ replacing[i] \in Nat
  BY PositionsFinite, CallersFinite DEF Numbers, Holders

(* Of every place of i there is no more than there was.                    *)
LEMMA NoMorePlaces ==
    ASSUME Numbers, Numbers', NEW i \in Interpreter, Places(i) <= 1,
           Cardinality(Positions(available', i)) <= Cardinality(Positions(available, i)),
           Holders(i)' \subseteq Holders(i),
           replacing'[i] <= replacing[i]
    PROVE  Places(i)' <= 1
  <1>1. Cardinality(Holders(i)') <= Cardinality(Holders(i))
    BY CallersMonotone DEF Holders
  <1>2. /\ Cardinality(Positions(available, i)) \in Nat
        /\ Cardinality(Holders(i)) \in Nat /\ replacing[i] \in Nat
    BY PlacesAreNumbers
  <1>3. /\ Cardinality(Positions(available', i)) \in Nat
        /\ Cardinality(Holders(i)') \in Nat /\ replacing'[i] \in Nat
    BY PositionsFinite, CallersFinite DEF Numbers, Holders
  <1>4. QED
    BY <1>1, <1>2, <1>3 DEF Places

(* The steps that take an interpreter from the queue, or put it back.      *)
LEMMA TakenFromQueue ==
    ASSUME Numbers, Numbers', NEW r \in Renter, TakeFirst(r), at[r] # "releases",
           NEW i \in Interpreter, Places(i) <= 1
    PROVE  Places(i)' <= 1
  <1> DEFINE first == Head(available)
  <1>1. /\ available \in Seq(1 .. created) /\ available # <<>>
        /\ available' = Tail(available) /\ replacing' = replacing
    BY DEF Numbers, TakeFirst, tasks
  <1>2. /\ has' = [has EXCEPT ![r] = first]
        /\ at' = [at EXCEPT ![r] = "took"]
    BY DEF TakeFirst, GoTo
  <1>3. Cardinality(Positions(available', i))
          = Cardinality(Positions(available, i)) - (IF first = i THEN 1 ELSE 0)
    BY <1>1, PositionsTail
  <1>4. /\ Cardinality(Positions(available, i)) \in Nat
        /\ Cardinality(Holders(i)) \in Nat /\ replacing[i] \in Nat
    BY PlacesAreNumbers
  <1>5. /\ Cardinality(Positions(available', i)) \in Nat
        /\ Cardinality(Holders(i)') \in Nat
    BY PositionsFinite, CallersFinite DEF Numbers, Holders
  <1> HIDE DEF first
  <1>6. CASE first = i
    <2>1. Holders(i)' \subseteq Holders(i) \cup {r}
      BY <1>2 DEF Holders, Numbers
    <2>2. Holders(i) \cup {r} \subseteq Renter
      BY DEF Holders
    <2>3. Cardinality(Holders(i)') <= Cardinality(Holders(i) \cup {r})
      BY <2>1, <2>2, CallersMonotone
    <2>4. /\ Cardinality(Holders(i) \cup {r}) <= Cardinality(Holders(i)) + 1
          /\ Cardinality(Holders(i) \cup {r}) \in Nat
      BY <1>4, <2>2, OneMore, CallersFinite DEF Holders
    <2>5. QED
      BY <1>1, <1>3, <1>4, <1>5, <1>6, <2>3, <2>4 DEF Places
  <1>7. CASE first # i
    <2>1. Holders(i)' \subseteq Holders(i)
      BY <1>2, <1>7 DEF Holders, Numbers
    <2>2. QED
      BY <1>1, <1>3, <1>4, <1>5, <1>7, <2>1, NoMorePlaces
  <1>8. QED
    BY <1>6, <1>7

LEMMA HolderGone ==
    ASSUME Numbers, NEW r \in Renter, at[r] = "returns", GoTo(r, "releases"),
           has' = has, NEW i \in Interpreter
    PROVE  /\ Cardinality(Holders(i)') \in Nat
           /\ Cardinality(Holders(i)')
                = Cardinality(Holders(i)) - (IF has[r] = i THEN 1 ELSE 0)
  <1>1. Holders(i)' = Holders(i) \ {r}
    BY DEF Holders, GoTo, Numbers
  <1>2. r \in Holders(i) <=> has[r] = i
    BY DEF Holders
  <1>3. Holders(i) \subseteq Renter /\ Holders(i)' \subseteq Renter
    BY DEF Holders
  <1>4. Cardinality(Holders(i)) \in Nat /\ Cardinality(Holders(i)') \in Nat
    BY <1>3, CallersFinite
  <1>5. Cardinality(Holders(i) \ {r})
          = IF r \in Holders(i) THEN Cardinality(Holders(i)) - 1
                                ELSE Cardinality(Holders(i))
    BY <1>3, OneLess
  <1>6. QED
    BY <1>1, <1>2, <1>4, <1>5

LEMMA Returned ==
    ASSUME Numbers, Numbers', NEW r \in Renter,
           ReturnHealthy(r) \/ ReturnUnhealthy(r),
           NEW i \in Interpreter, Places(i) <= 1
    PROVE  Places(i)' <= 1
  <1>1. at[r] = "returns" /\ GoTo(r, "releases") /\ has' = has
    BY DEF ReturnHealthy, ReturnUnhealthy
  <1>2. has[r] \in 1 .. created /\ created \in Nat /\ has[r] \in Interpreter
    <2>1. /\ created \in Nat /\ created \in Interpreter
          /\ has[r] \in 0 .. created /\ has[r] # 0
      BY <1>1, PoolAssumption DEF Numbers, Interpreter
    <2>2. QED
      BY <2>1, PoolAssumption DEF Interpreter
  <1>3. /\ Cardinality(Holders(i)') \in Nat
        /\ Cardinality(Holders(i)')
             = Cardinality(Holders(i)) - (IF has[r] = i THEN 1 ELSE 0)
    BY <1>1, HolderGone
  <1>4. /\ Cardinality(Positions(available, i)) \in Nat
        /\ Cardinality(Holders(i)) \in Nat /\ replacing[i] \in Nat
    BY PlacesAreNumbers
  <1>5. CASE ReturnHealthy(r)
    <2>1. /\ available \in Seq(1 .. created) /\ available' = Append(available, has[r])
          /\ replacing' = replacing
      BY <1>5 DEF ReturnHealthy, Numbers, tasks
    <2>2. Cardinality(Positions(available', i))
            = Cardinality(Positions(available, i)) + (IF has[r] = i THEN 1 ELSE 0)
      BY <1>2, <2>1, PositionsAppend
    <2>3. QED
      BY <1>3, <1>4, <2>1, <2>2 DEF Places
  <1>6. CASE ReturnUnhealthy(r)
    <2>1. available' = available
      BY <1>6 DEF ReturnUnhealthy, tables
    <2>2. replacing'[i] = replacing[i] + (IF has[r] = i THEN 1 ELSE 0)
      BY <1>2, <1>4, <1>6 DEF ReturnUnhealthy, Numbers
    <2>3. QED
      BY <1>3, <1>4, <2>1, <2>2 DEF Places
  <1>7. QED
    BY <1>5, <1>6

(* The new interpreter, which was nowhere.                                 *)
LEMMA CreatedElsewhere ==
    ASSUME Numbers, Create, NEW i \in 1 .. created
    PROVE  Cardinality(Positions(available', i)) = Cardinality(Positions(available, i))
  <1>1. /\ created' = created + 1 /\ created \in Nat
        /\ available' = Append(available, created')
    BY CreateNumbers
  <1>2. Seq(1 .. created) \subseteq Seq(1 .. created') /\ created' \in 1 .. created'
    BY <1>1
  <1>3. available \in Seq(1 .. created') /\ created' # i
    BY <1>1, <1>2 DEF Numbers
  <1>4. PICK n : n = created'
    OBVIOUS
  <1>5. /\ available' = Append(available, n)
        /\ available \in Seq(1 .. n) /\ n \in 1 .. n /\ n # i
    BY <1>1, <1>2, <1>3, <1>4
  <1>6. Cardinality(Positions(available, i)) \in Nat
    BY <1>5, PositionsFinite
  <1>7. QED
    BY <1>5, <1>6, PositionsAppend

LEMMA CreatedPlace ==
    ASSUME Numbers, Create, UNCHANGED <<has, replacing>>
    PROVE  Places(created)' <= 1
  <1>1. /\ created' = created + 1 /\ created \in Nat
        /\ available' = Append(available, created') /\ replacing[created'] = 0
    BY CreateNumbers
  <1>2. Seq(1 .. created) \subseteq Seq(1 .. created') /\ created' \in 1 .. created'
    BY <1>1
  <1>3. available \in Seq(1 .. created')
    BY <1>2 DEF Numbers
  <1>4. Positions(available, created') = {}
    <2>1. \A k \in DOMAIN available : available[k] \in 1 .. created
      BY DEF Numbers
    <2>2. \A k \in DOMAIN available : available[k] # created'
      BY <1>1, <2>1
    <2>3. QED
      BY <2>2 DEF Positions
  <1>5. Cardinality(Positions(available', created')) = 1
    <2>1. PICK n : n = created'
      OBVIOUS
    <2>2. /\ available' = Append(available, n)
          /\ available \in Seq(1 .. n) /\ n \in 1 .. n
          /\ Positions(available, n) = {}
      BY <1>1, <1>2, <1>3, <1>4, <2>1
    <2>3. Cardinality(Positions(Append(available, n), n))
            = Cardinality(Positions(available, n)) + (IF n = n THEN 1 ELSE 0)
      BY <2>2, PositionsAppend
    <2>4. Cardinality(Positions(available, n)) = 0
      BY <2>2, FS_EmptySet
    <2>5. QED
      BY <2>1, <2>2, <2>3, <2>4
  <1>6. Holders(created)' = {}
    BY <1>1 DEF Numbers, Holders
  <1>7. Cardinality(Holders(created)') = 0
    BY <1>6, FS_EmptySet
  <1>8. replacing'[created'] = 0
    BY <1>1
  <1>9. Places(created)' = Cardinality(Positions(available', created'))
                            + Cardinality(Holders(created)') + replacing'[created']
    BY DEF Places
  <1>10. QED
    BY <1>5, <1>7, <1>8, <1>9

LEMMA EachPlaceKept ==
    ASSUME Numbers, Numbers', EachPlace, PoolNext PROVE EachPlace'
  <1>1. 1 .. created \subseteq Interpreter /\ created \in Nat /\ 0 \notin Interpreter
    BY PoolAssumption DEF Numbers, Interpreter
  <1>2. ASSUME created' = created, handed' = handed,
               \A i \in 1 .. created \ handed : Places(i) <= 1 => Places(i)' <= 1
        PROVE  EachPlace'
    BY <1>2 DEF EachPlace
  <1>3. ASSUME created' = created, handed' = handed,
               \A i \in 1 .. created :
                  /\ Cardinality(Positions(available', i))
                       <= Cardinality(Positions(available, i))
                  /\ Holders(i)' \subseteq Holders(i)
                  /\ replacing'[i] <= replacing[i]
        PROVE  EachPlace'
    BY <1>1, <1>2, <1>3, NoMorePlaces
  <1>4. ASSUME created' = created, handed' = handed,
               available' = available, replacing' = replacing,
               \A i \in 1 .. created : Holders(i)' \subseteq Holders(i)
        PROVE  EachPlace'
    <2>1. \A i \in 1 .. created :
             /\ Cardinality(Positions(available, i)) \in Nat
             /\ replacing[i] \in Nat
      BY <1>1, PlacesAreNumbers
    <2>2. QED
      BY <1>3, <1>4, <2>1
  <1>5. ASSUME NEW r \in Renter,
               \/ Rent(r) \/ Acquire(r) \/ WaitFails(r) \/ DequeueFindsNone(r)
               \/ PollTimesOut(r) \/ PollCancelled(r) \/ CreateFails(r)
               \/ Register(r) \/ Raise(r) \/ ForceReturn(r) \/ Unrent(r)
        PROVE  EachPlace'
    <2>1. UNCHANGED <<created, handed, available, replacing, has>>
      BY <1>5 DEF Rent, Acquire, WaitFails, DequeueFindsNone, PollTimesOut,
         PollCancelled, CreateFails, Register, Raise, ForceReturn, Unrent,
         tables, tasks
    <2>2. at[r] # "releases" /\ \A s \in Renter \ {r} : at'[s] = at[s]
      BY <1>5 DEF Rent, Acquire, WaitFails, DequeueFindsNone, PollTimesOut,
         PollCancelled, CreateFails, Register, Raise, ForceReturn, Forced,
         Unrent, GoTo, Numbers
    <2>3. \A i \in 1 .. created : Holders(i)' \subseteq Holders(i)
      BY <2>1, <2>2 DEF Holders
    <2>4. QED
      BY <1>4, <2>1, <2>3
  <1>6. ASSUME NEW r \in Renter,
               ForcedLeaves(r) \/ ReturnUnknown(r) \/ ReturnReleases(r)
        PROVE  EachPlace'
    <2>1. UNCHANGED <<created, handed, available, replacing>> /\ Leave(r)
      BY <1>6 DEF ForcedLeaves, ReturnUnknown, ReturnReleases, tables, tasks
    <2>2. has'[r] = 0 /\ \A s \in Renter \ {r} : at'[s] = at[s] /\ has'[s] = has[s]
      BY <2>1 DEF Leave, GoTo, Numbers
    <2>3. \A i \in 1 .. created : i # 0
      BY <1>1
    <2>4. \A i \in 1 .. created : Holders(i)' \subseteq Holders(i)
      BY <2>2, <2>3 DEF Holders
    <2>5. QED
      BY <1>4, <2>1, <2>4
  <1>7. ASSUME NEW r \in Renter, Dequeue(r) \/ Poll(r) PROVE EachPlace'
    <2>1. TakeFirst(r) /\ at[r] # "releases"
      BY <1>7 DEF Dequeue, Poll
    <2>2. created' = created /\ handed' = handed
      BY <2>1 DEF TakeFirst
    <2>3. QED
      BY <1>1, <1>2, <2>1, <2>2, TakenFromQueue
  <1>8. ASSUME NEW r \in Renter, ReturnHealthy(r) \/ ReturnUnhealthy(r)
        PROVE  EachPlace'
    <2>1. created' = created /\ handed' = handed
      BY <1>8 DEF ReturnHealthy, ReturnUnhealthy
    <2>2. QED
      BY <1>1, <1>2, <1>8, <2>1, Returned
  <1>9. ASSUME NEW r \in Renter, RentCreates(r) PROVE EachPlace'
    <2>1. /\ Create /\ has' = [has EXCEPT ![r] = created']
          /\ handed' = handed \cup {created'} /\ GoTo(r, "took")
          /\ replacing' = replacing /\ at[r] = "creates"
      BY <1>9 DEF RentCreates, tasks
    <2>2. created' = created + 1
      BY <2>1 DEF Create
    <2>3. \A i \in 1 .. created' \ handed' : i \in 1 .. created \ handed
      BY <1>1, <2>1, <2>2
    <2>4. ASSUME NEW i \in 1 .. created \ handed PROVE Places(i)' <= 1
      <3>1. created' # i /\ i \in Interpreter
        BY <1>1, <2>2
      <3>2. Holders(i)' \subseteq Holders(i)
        BY <2>1, <3>1 DEF Holders, GoTo, Numbers
      <3>3. /\ Cardinality(Positions(available', i)) = Cardinality(Positions(available, i))
            /\ Cardinality(Positions(available, i)) \in Nat /\ replacing[i] \in Nat
        BY <2>1, <3>1, CreatedElsewhere, PlacesAreNumbers
      <3>4. Places(i) <= 1
        BY DEF EachPlace
      <3>5. QED
        BY <2>1, <3>1, <3>2, <3>3, <3>4, NoMorePlaces
    <2>5. QED
      BY <2>3, <2>4 DEF EachPlace
  <1>10. ASSUME NEW i \in Interpreter, Replace(i) PROVE EachPlace'
    <2>1. UNCHANGED <<created, handed, available, at, has>>
      BY <1>10 DEF Replace
    <2>2. \A j \in 1 .. created : replacing'[j] <= replacing[j]
      BY <1>1, <1>10 DEF Replace, Numbers
    <2>3. \A j \in 1 .. created : Cardinality(Positions(available, j)) \in Nat
      BY <1>1, PlacesAreNumbers
    <2>4. \A j \in 1 .. created : Holders(j)' \subseteq Holders(j)
      BY <2>1 DEF Holders
    <2>5. QED
      BY <1>3, <2>1, <2>2, <2>3, <2>4
  <1>11. CASE Refill
    <2>1. UNCHANGED <<handed, replacing, at, has>>
      BY <1>11 DEF Refill
    <2>2. \A i \in 1 .. created : Holders(i)' \subseteq Holders(i)
      BY <2>1 DEF Holders
    <2>3. CASE UNCHANGED <<created, pooled, available>>
      BY <1>4, <2>1, <2>2, <2>3
    <2>4. CASE Create
      <3>1. created' = created + 1 /\ Places(created)' <= 1
        BY <2>1, <2>4, CreatedPlace DEF Create
      <3>2. ASSUME NEW i \in 1 .. created \ handed PROVE Places(i)' <= 1
        <4>1. i \in Interpreter /\ Places(i) <= 1
          BY <1>1 DEF EachPlace
        <4>2. /\ Cardinality(Positions(available', i)) = Cardinality(Positions(available, i))
              /\ Cardinality(Positions(available, i)) \in Nat /\ replacing[i] \in Nat
          BY <2>4, <4>1, CreatedElsewhere, PlacesAreNumbers
        <4>3. QED
          BY <2>1, <2>2, <4>1, <4>2, NoMorePlaces
      <3>3. \A i \in 1 .. created' \ handed' :
               i = created' \/ i \in 1 .. created \ handed
        BY <1>1, <2>1, <3>1
      <3>4. ASSUME NEW i \in 1 .. created' \ handed' PROVE Places(i)' <= 1
        BY <3>1, <3>2, <3>3 DEF Places, Holders
      <3>5. QED
        BY <3>4 DEF EachPlace
    <2>5. QED
      BY <1>11, <2>3, <2>4 DEF Refill
  <1>12. CASE ResetForces
    <2>1. UNCHANGED <<created, handed, available, replacing, has>>
      BY <1>12 DEF ResetForces, tables, tasks
    <2>2. \A s \in Renter : at'[s] # "releases" => at[s] # "releases"
      BY <1>12 DEF ResetForces, Forced, Numbers
    <2>3. \A i \in 1 .. created : Holders(i)' \subseteq Holders(i)
      BY <2>1, <2>2 DEF Holders
    <2>4. QED
      BY <1>4, <2>1, <2>3
  <1>13. CASE ResetDisposes \/ ResetClears
    <2>1. UNCHANGED <<created, handed, available, replacing, at, has>>
      BY <1>13 DEF ResetDisposes, ResetClears, tasks
    <2>2. \A i \in 1 .. created : Holders(i)' \subseteq Holders(i)
      BY <2>1 DEF Holders
    <2>3. QED
      BY <1>4, <2>1, <2>2
  <1>14. CASE ResetDrains
    <2>1. UNCHANGED <<created, handed, replacing, at, has>> /\ available' = <<>>
      BY <1>14 DEF ResetDrains, tasks
    <2>2. \A i \in 1 .. created : Holders(i)' \subseteq Holders(i)
      BY <2>1 DEF Holders
    <2>3. \A i \in 1 .. created : Cardinality(Positions(available', i)) = 0
      <3>1. \A i : Positions(<<>>, i) = {}
        BY DEF Positions
      <3>2. QED
        BY <2>1, <3>1, FS_EmptySet
    <2>4. \A i \in 1 .. created :
             /\ Cardinality(Positions(available, i)) \in Nat
             /\ replacing[i] \in Nat
      BY <1>1, PlacesAreNumbers
    <2>5. QED
      BY <1>3, <2>1, <2>2, <2>3, <2>4
  <1>15. QED
    BY <1>5, <1>6, <1>7, <1>8, <1>9, <1>10, <1>11, <1>12, <1>13, <1>14
    DEF PoolNext, RenterStep

-----------------------------------------------------------------------------
LEMMA StepPoolInv == PoolInv /\ [PoolNext]_poolVars => PoolInv'
  <1> SUFFICES ASSUME PoolInv, [PoolNext]_poolVars PROVE PoolInv'
    OBVIOUS
  <1> USE DEF PoolInv
  <1>1. CASE UNCHANGED poolVars
    BY <1>1 DEF poolVars, tables, tasks, Numbers, Tables, Slots, Past,
       EachPlace, Places, Holders
  <1>2. CASE PoolNext
    BY <1>2, NumbersKept, TablesKept, SlotsKept, EachPlaceKept
  <1>3. QED
    BY <1>1, <1>2

LEMMA SpecPoolInv == PoolSpec => []PoolInv
  BY InitPoolInv, StepPoolInv, PTL DEF PoolSpec

(* The types hold in every state of every pool.                            *)
THEOREM PoolTypeCorrect == PoolSpec => []PoolTypeOK
  <1>1. PoolInv => PoolTypeOK
    <2> SUFFICES ASSUME PoolInv PROVE PoolTypeOK
      OBVIOUS
    <2>1. 1 .. created \subseteq Interpreter /\ 0 .. created \subseteq Interpreter \cup {0}
      BY PoolAssumption DEF PoolInv, Numbers, Interpreter
    <2>2. available \in Seq(Interpreter)
      BY <2>1, LargerSeq DEF PoolInv, Numbers
    <2>3. has \in [Renter -> Interpreter \cup {0}]
      BY <2>1 DEF PoolInv, Numbers
    <2>4. QED
      BY <2>2, <2>3 DEF PoolInv, Numbers, Tables, Slots, PoolTypeOK
  <1>2. QED
    BY <1>1, SpecPoolInv, PTL

(* The semaphore of the pool counts the callers between their wait and     *)
(* their return as long as none of the named accidents has happened.       *)
THEOREM SlotsCountHolds == PoolSpec => []SlotsCount
  <1>1. PoolInv => SlotsCount
    BY DEF PoolInv, Slots, Past, SlotsCount
  <1>2. QED
    BY <1>1, SpecPoolInv, PTL

(* An interpreter is in one place, through returns, replacements, forced   *)
(* returns and resets, unless RentAsync() created it.                      *)
THEOREM OnePlaceEachHolds == PoolSpec => []OnePlaceEach
  <1>1. PoolInv => OnePlaceEach
    BY DEF PoolInv, EachPlace, Places, Positions, Holders, Queued, OnePlaceEach
  <1>2. QED
    BY <1>1, SpecPoolInv, PTL

-----------------------------------------------------------------------------
(* Sequences of handlers.                                                  *)
Count(s, h) == Cardinality(Positions(s, h))
One(h, g) == IF h = g THEN 1 ELSE 0
UrgentFirst(s) ==
    \A i, j \in DOMAIN s : i < j /\ s[j] \in Urgent => s[i] \in Urgent

LEMMA CountType ==
    ASSUME NEW S, NEW s \in Seq(S), NEW h
    PROVE  Count(s, h) \in Nat
  BY PositionsFinite DEF Count

LEMMA CountEmpty ==
    ASSUME NEW h
    PROVE  Count(<<>>, h) = 0
  <1>1. Positions(<<>>, h) = {}
    BY DEF Positions
  <1>2. QED
    BY <1>1, FS_EmptySet DEF Count

LEMMA CountAppend ==
    ASSUME NEW S, NEW s \in Seq(S), NEW g \in S, NEW h
    PROVE  Count(Append(s, g), h) = Count(s, h) + One(h, g)
  <1>1. CASE g = h
    BY <1>1, PositionsAppend DEF Count, One
  <1>2. CASE g # h
    BY <1>2, PositionsAppend DEF Count, One
  <1>3. QED
    BY <1>1, <1>2

LEMMA CountTail ==
    ASSUME NEW S, NEW s \in Seq(S), s # <<>>, NEW h
    PROVE  Count(s, h) = Count(Tail(s), h) + One(h, Head(s))
  <1>1. Count(Tail(s), h) = Count(s, h) - (IF Head(s) = h THEN 1 ELSE 0)
    BY PositionsTail DEF Count
  <1>2. Count(s, h) \in Nat
    BY CountType
  <1>3. CASE Head(s) = h
    BY <1>1, <1>2, <1>3 DEF One
  <1>4. CASE Head(s) # h
    BY <1>1, <1>2, <1>4 DEF One
  <1>5. QED
    BY <1>3, <1>4

LEMMA CountConcat ==
    ASSUME NEW S, NEW s \in Seq(S), NEW t \in Seq(S), NEW h
    PROVE  Count(s \o t, h) = Count(s, h) + Count(t, h)
  BY PositionsConcat DEF Count

LEMMA LeastOne ==
    ASSUME NEW T \in SUBSET Nat, T # {}
    PROVE  \E x \in T : \A y \in T : ~(y < x)
  <1> DEFINE R == OpToRel(<, Nat)
  <1>1. IsWellFoundedOn(R, Nat)
    BY NatLessThanWellFounded
  <1> HIDE DEF R
  <1>2. PICK x \in T : \A y \in T : ~(<<y, x>> \in R)
    BY <1>1, WFMin, Zenon
  <1>3. \A y \in T : ~(y < x)
    BY <1>2 DEF R, OpToRel
  <1>4. QED
    BY <1>3

(* list.remove(): one item less, whichever it is.                          *)
LEMMA WithoutOne ==
    ASSUME NEW S, NEW s \in Seq(S), NEW h, IsIn(h, s)
    PROVE  /\ Without(s, h) \in Seq(S)
           /\ \A g : Count(s, g) = Count(Without(s, h), g) + One(g, h)
  <1> DEFINE T == {i \in DOMAIN s : s[i] = h}
             First(i) == s[i] = h /\ \A j \in 1 .. i - 1 : s[j] # h
             least == CHOOSE i \in DOMAIN s : First(i)
  <1>1. Len(s) \in Nat /\ DOMAIN s = 1 .. Len(s)
    OBVIOUS
  <1>2. T \in SUBSET Nat /\ T # {}
    BY <1>1 DEF IsIn
  <1>3. \E i \in DOMAIN s : First(i)
    <2>1. PICK x \in T : \A y \in T : ~(y < x)
      <3> HIDE DEF T
      <3>1. QED
        BY <1>2, LeastOne
    <2>2. \A j \in 1 .. x - 1 : j \in DOMAIN s /\ j < x
      BY <1>1, <2>1
    <2>3. First(x)
      BY <2>1, <2>2
    <2>4. QED
      BY <2>1, <2>3
  <1>4. PICK n : n \in DOMAIN s /\ s[n] = h /\ n = least
    BY <1>3
  <1> DEFINE a == SubSeq(s, 1, n - 1)
             b == SubSeq(s, n + 1, Len(s))
  <1>5. Without(s, h) = a \o b
    BY <1>4 DEF Without
  <1>6. PICK len \in Nat : len = Len(s) /\ DOMAIN s = 1 .. len
    BY <1>1
  <1>7. /\ n \in Nat /\ 1 <= n /\ n <= len /\ h \in S
        /\ \A k \in 1 .. len : s[k] \in S
    BY <1>4, <1>6
  <1>8. /\ a \in Seq(S) /\ Len(a) = n - 1
        /\ \A k \in 1 .. n - 1 : a[k] = s[k]
    <2>1. /\ 1 \in Int /\ n - 1 \in Int
          /\ \A k \in 1 .. n - 1 : k \in 1 .. len /\ s[k] \in S
      BY <1>7
    <2> HIDE DEF a
    <2>2. /\ a \in Seq(S)
          /\ Len(a) = IF 1 <= n - 1 THEN n - 1 - 1 + 1 ELSE 0
          /\ \A k \in 1 .. n - 1 - 1 + 1 : a[k] = s[1 + k - 1]
      BY <2>1, SubSeqProperties DEF a
    <2>3. Len(a) = n - 1
      BY <1>7, <2>2
    <2>4. \A k \in 1 .. n - 1 : k \in 1 .. n - 1 - 1 + 1 /\ 1 + k - 1 = k
      BY <1>7
    <2>5. QED
      BY <2>2, <2>3, <2>4
  <1>9. /\ b \in Seq(S) /\ Len(b) = len - n
        /\ \A k \in 1 .. len - n : b[k] = s[n + k]
    <2>1. /\ n + 1 \in Int /\ len \in Int
          /\ \A k \in n + 1 .. len : k \in 1 .. len /\ s[k] \in S
      BY <1>7
    <2> HIDE DEF b
    <2>2. /\ b \in Seq(S)
          /\ Len(b) = IF n + 1 <= len THEN len - (n + 1) + 1 ELSE 0
          /\ \A k \in 1 .. len - (n + 1) + 1 : b[k] = s[(n + 1) + k - 1]
      BY <1>6, <2>1, SubSeqProperties DEF b
    <2>3. Len(b) = len - n
      BY <1>7, <2>2
    <2>4. \A k \in 1 .. len - n : /\ k \in 1 .. len - (n + 1) + 1
                                  /\ (n + 1) + k - 1 = n + k
      BY <1>7
    <2>5. QED
      BY <2>2, <2>3, <2>4
  <1> HIDE DEF a, b
  <1>10. s = Append(a, h) \o b
    <2> DEFINE c == Append(a, h)
               d == c \o b
    <2>1. c \in Seq(S) /\ Len(c) = n
      BY <1>7, <1>8
    <2>2. c[n] = s[n] /\ \A k \in 1 .. n - 1 : c[k] = s[k]
      <3>1. \A k \in 1 .. Len(a) : c[k] = a[k]
        BY <1>8
      <3>2. c[Len(a) + 1] = h
        BY <1>8
      <3>3. Len(a) + 1 = n /\ Len(a) = n - 1
        BY <1>7, <1>8
      <3>4. QED
        BY <1>4, <1>8, <3>1, <3>2, <3>3
    <2> HIDE DEF c
    <2>3. \A k \in 1 .. n : c[k] = s[k]
      BY <1>7, <2>2
    <2>4. /\ d \in Seq(S) /\ Len(d) = Len(c) + Len(b)
          /\ \A k \in 1 .. Len(c) + Len(b) :
               d[k] = IF k <= Len(c) THEN c[k] ELSE b[k - Len(c)]
      BY <1>9, <2>1, ConcatProperties
    <2> HIDE DEF d
    <2>5. Len(d) = len
      BY <1>7, <1>9, <2>1, <2>4
    <2>6. ASSUME NEW k \in 1 .. len PROVE d[k] = s[k]
      <3>1. k \in 1 .. Len(c) + Len(b)
        BY <1>7, <1>9, <2>1
      <3>2. CASE k <= n
        BY <1>7, <2>1, <2>3, <2>4, <3>1, <3>2
      <3>3. CASE k > n
        <4>1. d[k] = b[k - n]
          BY <1>7, <2>1, <2>4, <3>1, <3>3
        <4>2. k - n \in 1 .. len - n /\ n + (k - n) = k
          BY <1>7, <3>3
        <4>3. QED
          BY <1>9, <4>1, <4>2
      <3>4. QED
        BY <1>7, <3>2, <3>3
    <2>7. d = s
      BY <1>6, <2>4, <2>5, <2>6
    <2>8. QED
      BY <2>7 DEF c, d
  <1>11. Without(s, h) \in Seq(S)
    BY <1>5, <1>8, <1>9, <1>10, <1>7
  <1>12. ASSUME NEW g
        PROVE  Count(s, g) = Count(Without(s, h), g) + One(g, h)
    <2>1. Append(a, h) \in Seq(S)
      BY <1>8, <1>7
    <2>2. Count(s, g) = Count(Append(a, h), g) + Count(b, g)
      <3>1. Count(Append(a, h) \o b, g) = Count(Append(a, h), g) + Count(b, g)
        BY <1>9, <2>1, CountConcat
      <3>2. QED
        BY <1>10, <3>1, Zenon
    <2>3. Count(Append(a, h), g) = Count(a, g) + One(g, h)
      BY <1>8, <1>9, <1>10, <1>7, CountAppend
    <2>4. Count(Without(s, h), g) = Count(a, g) + Count(b, g)
      BY <1>5, <1>8, <1>9, <1>10, <1>7, CountConcat
    <2>5. Count(a, g) \in Nat /\ Count(b, g) \in Nat /\ One(g, h) \in Nat
      BY <1>8, <1>9, <1>10, <1>7, CountType DEF One
    <2>6. QED
      BY <2>2, <2>3, <2>4, <2>5
  <1>13. QED
    BY <1>11, <1>12

-----------------------------------------------------------------------------
(* list.sort(): no two items have the same rank, so each finds a place.    *)
Before(s, i) == {j \in DOMAIN s : ComesFirst(s, j, i)}

LEMMA RankType ==
    ASSUME NEW S, NEW s \in Seq(S), NEW i \in DOMAIN s
    PROVE  Rank(s, i) \in 1 .. Len(s)
  <1>1. Len(s) \in Nat /\ DOMAIN s = 1 .. Len(s)
    OBVIOUS
  <1>2. IsFiniteSet(DOMAIN s) /\ Cardinality(DOMAIN s) = Len(s)
    <2>1. Cardinality(1 .. Len(s)) = IF 1 > Len(s) THEN 0 ELSE Len(s) - 1 + 1
      BY <1>1, FS_Interval
    <2>2. Cardinality(1 .. Len(s)) = Len(s)
      BY <1>1, <2>1
    <2>3. QED
      BY <1>1, <2>2, FS_Interval
  <1>3. IsFiniteSet(DOMAIN s \ {i}) /\ Cardinality(DOMAIN s \ {i}) = Len(s) - 1
    BY <1>2, FS_RemoveElement
  <1>4. Before(s, i) \subseteq DOMAIN s \ {i}
    BY <1>1 DEF Before, ComesFirst
  <1>5. IsFiniteSet(Before(s, i))
        /\ Cardinality(Before(s, i)) <= Cardinality(DOMAIN s \ {i})
    BY <1>3, <1>4, FS_Subset
  <1>6. Cardinality(Before(s, i)) \in Nat
    BY <1>5, FS_CardinalityType
  <1>7. Rank(s, i) = 1 + Cardinality(Before(s, i))
    BY DEF Rank, Before
  <1>8. QED
    BY <1>1, <1>3, <1>5, <1>6, <1>7

LEMMA RankOrders ==
    ASSUME NEW S, NEW s \in Seq(S), NEW i \in DOMAIN s, NEW j \in DOMAIN s,
           ComesFirst(s, i, j)
    PROVE  Rank(s, i) < Rank(s, j)
  <1>1. Len(s) \in Nat /\ DOMAIN s = 1 .. Len(s)
    OBVIOUS
  <1>2. IsFiniteSet(DOMAIN s)
    BY <1>1, FS_Interval
  <1>3. Before(s, i) \subseteq DOMAIN s /\ Before(s, j) \subseteq DOMAIN s
    BY DEF Before
  <1>4. IsFiniteSet(Before(s, i)) /\ IsFiniteSet(Before(s, j))
    BY <1>2, <1>3, FS_Subset
  <1>5. i \notin Before(s, i)
    BY <1>1 DEF Before, ComesFirst
  <1>6. Before(s, i) \cup {i} \subseteq Before(s, j)
    BY <1>1 DEF Before, ComesFirst
  <1>7. Cardinality(Before(s, i) \cup {i}) = Cardinality(Before(s, i)) + 1
    BY <1>4, <1>5, FS_AddElement
  <1>8. Cardinality(Before(s, i) \cup {i}) <= Cardinality(Before(s, j))
    BY <1>4, <1>6, FS_Subset
  <1>9. Cardinality(Before(s, i)) \in Nat /\ Cardinality(Before(s, j)) \in Nat
    BY <1>4, FS_CardinalityType
  <1>10. Rank(s, i) = 1 + Cardinality(Before(s, i))
         /\ Rank(s, j) = 1 + Cardinality(Before(s, j))
    BY DEF Rank, Before
  <1>11. QED
    BY <1>7, <1>8, <1>9, <1>10

LEMMA RankIsOne ==
    ASSUME NEW S, NEW s \in Seq(S)
    PROVE  /\ \A i, j \in DOMAIN s : Rank(s, i) = Rank(s, j) => i = j
           /\ \A k \in DOMAIN s : \E i \in DOMAIN s : Rank(s, i) = k
  <1> DEFINE D == DOMAIN s
             f == [i \in D |-> Rank(s, i)]
  <1>1. Len(s) \in Nat /\ D = 1 .. Len(s)
    OBVIOUS
  <1>2. ASSUME NEW i \in D, NEW j \in D, Rank(s, i) = Rank(s, j) PROVE i = j
    <2>1. Rank(s, i) \in Int
      BY <1>1, RankType
    <2>2. ~ComesFirst(s, i, j)
      BY <1>2, <2>1, RankOrders
    <2>3. ~ComesFirst(s, j, i)
      BY <1>2, <2>1, RankOrders
    <2>4. QED
      BY <1>1, <2>2, <2>3 DEF ComesFirst
  <1>3. f \in [D -> D]
    BY <1>1, RankType
  <1>4. \A x, y \in D : f[x] = f[y] => x = y
    BY <1>2
  <1>5. IsFiniteSet(D)
    BY <1>1, FS_Interval
  <1>6. f \in Surjection(D, D)
    <2> HIDE DEF D, f
    <2>1. f \in Injection(D, D)
      BY <1>3, <1>4, Fun_IsInj
    <2>2. QED
      BY <1>5, <2>1, FS_Injection
  <1>7. \A k \in D : \E i \in D : f[i] = k
    <2> HIDE DEF D, f
    <2>1. QED
      BY <1>6 DEF Surjection
  <1>8. QED
    BY <1>2, <1>7

LEMMA Sorted ==
    ASSUME NEW S, NEW s \in Seq(S)
    PROVE  /\ ByPriority(s) \in Seq(S)
           /\ UrgentFirst(ByPriority(s))
           /\ \A h : Count(ByPriority(s), h) = Count(s, h)
  <1> DEFINE D == DOMAIN s
             Which(k) == CHOOSE i \in D : Rank(s, i) = k
             t == ByPriority(s)
  <1>1. Len(s) \in Nat /\ D = 1 .. Len(s) /\ \A i \in D : s[i] \in S
    OBVIOUS
  <1>2. ASSUME NEW k \in D PROVE Which(k) \in D /\ Rank(s, Which(k)) = k
    <2>1. \E i \in D : Rank(s, i) = k
      BY RankIsOne
    <2>2. QED
      BY <2>1
  <1>3. ASSUME NEW i \in D PROVE Rank(s, i) \in D /\ Which(Rank(s, i)) = i
    <2>1. Rank(s, i) \in D
      BY <1>1, RankType
    <2>2. Which(Rank(s, i)) \in D /\ Rank(s, Which(Rank(s, i))) = Rank(s, i)
      BY <1>2, <2>1
    <2>3. QED
      BY <2>1, <2>2, RankIsOne
  <1>4. t = [k \in D |-> s[Which(k)]]
    BY DEF ByPriority
  <1> HIDE DEF t, Which
  <1>5. t \in Seq(S)
    <2>1. t \in [1 .. Len(s) -> S]
      BY <1>1, <1>2, <1>4
    <2>2. QED
      BY <1>1, <2>1
  <1>6. UrgentFirst(t)
    <2>1. SUFFICES ASSUME NEW i \in D, NEW j \in D, i < j, t[j] \in Urgent,
                          t[i] \notin Urgent
                   PROVE  FALSE
      BY <1>4 DEF UrgentFirst
    <2>2. s[Which(j)] \in Urgent /\ s[Which(i)] \notin Urgent
      BY <1>4, <2>1
    <2>3. ComesFirst(s, Which(j), Which(i))
      BY <2>2 DEF ComesFirst
    <2>4. Rank(s, Which(j)) < Rank(s, Which(i))
      BY <1>2, <2>3, RankOrders
    <2>5. QED
      BY <1>1, <1>2, <2>1, <2>4
  <1>7. ASSUME NEW h PROVE Count(t, h) = Count(s, h)
    <2> DEFINE A == Positions(s, h)
               B == Positions(t, h)
               f == [i \in A |-> Rank(s, i)]
    <2>1. A \subseteq D /\ \A i \in A : s[i] = h
      BY DEF Positions
    <2>2. \A k : k \in B <=> k \in D /\ s[Which(k)] = h
      BY <1>4 DEF Positions
    <2>3. f \in [A -> B]
      BY <1>3, <2>1, <2>2
    <2>4. \A x, y \in A : f[x] = f[y] => x = y
      BY <2>1, RankIsOne
    <2>5. \A z \in B : \E x \in A : f[x] = z
      <3>1. SUFFICES ASSUME NEW z \in B PROVE \E x \in A : f[x] = z
        OBVIOUS
      <3>2. Which(z) \in A
        BY <1>2, <2>2 DEF Positions
      <3>3. f[Which(z)] = z
        BY <1>2, <2>2, <3>2
      <3>4. QED
        BY <3>2, <3>3
    <2>6. IsFiniteSet(A)
      BY PositionsFinite
    <2>7. Cardinality(B) = Cardinality(A)
      <3> HIDE DEF A, B, f
      <3>1. QED
        BY <2>3, <2>4, <2>5, <2>6, SameCount
    <2>8. QED
      BY <2>7 DEF Count
  <1>8. QED
    BY <1>5, <1>6, <1>7 DEF t
-----------------------------------------------------------------------------
(* The invariant.                                                          *)
Lists == {"typed", "global"}
Busy(c) == change[c].at # "none"
HandlerCall ==
    [at : {"none", "sort", "sorting", "find", "remove"},
     h : Handler \cup {"none"}, left : Seq(Lists), items : Seq(Handler)]

HandlerTypes ==
    /\ lists \in [Lists -> Seq(Handler)]
    /\ change \in [Changer -> HandlerCall]
    /\ \A c \in Changer : Busy(c) => change[c].h \in Handler
                                     /\ change[c].left # <<>>
    /\ registered \in [Handler -> Nat]
    /\ owed \in [Handler -> Nat]
    /\ snapshot \in Seq(Handler)
    /\ called \in Seq(Handler)
    /\ event \in {"none", "reading", "calling", "handler"}
    /\ event = "handler" => snapshot # <<>>
    /\ upset \in {"no", "event", "lists"}

(* How often a handler is in the lists, and how often it is registered:    *)
(* the same between calls, and between the steps of the one call that is   *)
(* under way it tells what the call has done.                              *)
Listed(h) == Count(lists["typed"], h) + Count(lists["global"], h)

Idle ==
    /\ \A c \in Changer : ~Busy(c)
    /\ \A h \in Handler : Listed(h) = registered[h]

Counts(c) ==
    \A h \in Handler :
      /\ change[c].at = "sort" =>
           Listed(h) = registered[h] + One(h, change[c].h)
      /\ change[c].at = "sorting" =>
           Listed(h) + Count(change[c].items, h)
             = registered[h] + One(h, change[c].h)
      /\ change[c].at \in {"find", "remove"} => Listed(h) = registered[h]

InCall(c) ==
    LET l == Head(change[c].left) IN
    /\ Busy(c) /\ \A d \in Changer \ {c} : ~Busy(d)
    /\ Counts(c)
    /\ change[c].at = "sorting" => lists[l] = <<>>
    /\ change[c].at = "remove" => IsIn(change[c].h, lists[l])

ListsCount == upset # "lists" => Idle \/ \E c \in Changer : InCall(c)

Reading ==
    event = "reading" /\ upset = "no" =>
      /\ Idle
      /\ snapshot = lists["typed"]
      /\ owed = registered
      /\ called = <<>>

(* Those that the event has yet to go to.                                  *)
Rest == IF event = "handler" THEN Tail(snapshot) ELSE snapshot

Goes ==
    event \in {"calling", "handler"} /\ upset = "no" =>
      /\ \A h \in Handler : Calls(h) + Count(Rest, h) <= owed[h]
      /\ \A h \in Handler \ touched : Calls(h) + Count(Rest, h) = owed[h]
      /\ UrgentFirst(called)
      /\ UrgentFirst(Rest)
      /\ \A i \in DOMAIN called, j \in DOMAIN Rest :
           Rest[j] \in Urgent => called[i] \in Urgent

HandlersInv == HandlerTypes /\ ListsCount /\ Reading /\ Goes

-----------------------------------------------------------------------------
(* What a step of a call does to the counts of the lists.                  *)
LEMMA ListReplaced ==
    ASSUME HandlerTypes, NEW l \in Lists, NEW s \in Seq(Handler),
           lists' = [lists EXCEPT ![l] = s], NEW h
    PROVE  /\ Listed(h) \in Nat /\ Listed(h)' \in Nat
           /\ Count(lists[l], h) \in Nat /\ Count(s, h) \in Nat
           /\ Listed(h)' + Count(lists[l], h) = Listed(h) + Count(s, h)
  <1>1. /\ lists["typed"] \in Seq(Handler) /\ lists["global"] \in Seq(Handler)
        /\ lists'[l] = s /\ \A k \in Lists \ {l} : lists'[k] = lists[k]
    BY DEF HandlerTypes, Lists
  <1>2. PICK a, b : a = Count(lists["typed"], h) /\ b = Count(lists["global"], h)
    OBVIOUS
  <1>3. a \in Nat /\ b \in Nat /\ Count(s, h) \in Nat
    BY <1>1, <1>2, CountType
  <1>4. Listed(h) = a + b
    BY <1>2 DEF Listed
  <1>5. Listed(h)' = Count(lists'["typed"], h) + Count(lists'["global"], h)
    BY DEF Listed
  <1>6. CASE l = "typed"
    <2>1. Count(lists[l], h) = a /\ Listed(h)' = Count(s, h) + b
      BY <1>1, <1>2, <1>5, <1>6 DEF Lists
    <2>2. QED
      BY <1>3, <1>4, <2>1
  <1>7. CASE l = "global"
    <2>1. Count(lists[l], h) = b /\ Listed(h)' = a + Count(s, h)
      BY <1>1, <1>2, <1>5, <1>7 DEF Lists
    <2>2. QED
      BY <1>3, <1>4, <2>1
  <1>8. QED
    BY <1>6, <1>7 DEF Lists

LEMMA TailIsLeft ==
    ASSUME NEW S, NEW s \in Seq(S), s # <<>>, Len(s) # 1
    PROVE  Tail(s) # <<>>
  <1>1. Len(Tail(s)) = Len(s) - 1 /\ Len(s) \in Nat
    OBVIOUS
  <1>2. Len(Tail(s)) # 0
    BY <1>1
  <1>3. Len(<<>>) = 0
    OBVIOUS
  <1>4. QED
    BY <1>2, <1>3, Zenon

LEMMA CallType ==
    ASSUME HandlerTypes, NEW c \in Changer, Busy(c)
    PROVE  /\ change[c] \in HandlerCall
           /\ change[c].h \in Handler
           /\ Head(change[c].left) \in Lists
           /\ Tail(change[c].left) \in Seq(Lists)
           /\ Len(change[c].left) # 1 => Tail(change[c].left) # <<>>
           /\ change[c].items \in Seq(Handler)
           /\ lists[Head(change[c].left)] \in Seq(Handler)
  <1>1. /\ change[c] \in HandlerCall /\ change[c].h \in Handler
        /\ change[c].left # <<>> /\ change[c].left \in Seq(Lists)
        /\ change[c].items \in Seq(Handler)
    BY DEF HandlerTypes, HandlerCall
  <1>2. Head(change[c].left) \in Lists /\ Tail(change[c].left) \in Seq(Lists)
    BY <1>1, HeadAndTail
  <1>3. Len(change[c].left) # 1 => Tail(change[c].left) # <<>>
    BY <1>1, TailIsLeft
  <1>4. QED
    BY <1>1, <1>2, <1>3 DEF HandlerTypes

(* A call that moves on: c is what it is at next.                          *)
LEMMA NextListMoves ==
    ASSUME HandlerTypes, NEW c \in Changer, Busy(c), NextList(c)
    PROVE  \E n \in HandlerCall :
             /\ change' = [change EXCEPT ![c] = n]
             /\ \/ n = NoChange
                \/ n.at = "find" /\ n.left # <<>> /\ n.h = change[c].h
  <1>1. CASE Len(change[c].left) = 1
    <2>1. NoChange \in HandlerCall
      BY DEF NoChange, HandlerCall
    <2>2. change' = [change EXCEPT ![c] = NoChange]
      BY <1>1 DEF NextList
    <2>3. QED
      BY <2>1, <2>2
  <1>2. CASE Len(change[c].left) # 1
    <2> DEFINE n == [change[c] EXCEPT !.at = "find", !.left = Tail(@)]
    <2>1. n \in HandlerCall /\ n.at = "find" /\ n.left # <<>>
          /\ n.h = change[c].h
      BY <1>2, CallType DEF HandlerCall
    <2>2. change' = [change EXCEPT ![c] = n]
      BY <1>2 DEF NextList, HandlerTypes
    <2> HIDE DEF n
    <2>3. QED
      BY <2>1, <2>2
  <1>3. QED
    BY <1>1, <1>2

-----------------------------------------------------------------------------
(* The types.                                                              *)
LEMMA MoveTypes ==
    ASSUME HandlerTypes, NEW c \in Changer, NEW n \in HandlerCall,
           change' = [change EXCEPT ![c] = n],
           n.at # "none" => n.h \in Handler /\ n.left # <<>>,
           lists' \in [Lists -> Seq(Handler)],
           registered' \in [Handler -> Nat], UNCHANGED eventVars,
           upset' \in {"no", "event", "lists"}
    PROVE  HandlerTypes'
  <1>1. change' \in [Changer -> HandlerCall]
    BY DEF HandlerTypes
  <1>2. \A d \in Changer : Busy(d)' => change'[d].h \in Handler
                                      /\ change'[d].left # <<>>
    BY DEF HandlerTypes, Busy
  <1>3. QED
    BY <1>1, <1>2 DEF HandlerTypes, eventVars

LEMMA HandlerTypesKept ==
    ASSUME HandlerTypes, HandlersNext PROVE HandlerTypes'
  <1>0. NoChange \in HandlerCall /\ NoChange.at = "none"
    BY DEF NoChange, HandlerCall
  <1>1. ASSUME NEW c \in Changer, NEW h \in Handler, NEW place \in {"sort", "find"},
               NEW ls \in Seq(Lists), ls # <<>>,
               Begins(c, h, place, ls), lists' \in [Lists -> Seq(Handler)]
        PROVE  HandlerTypes'
    <2> DEFINE n == [at |-> place, h |-> h, left |-> ls, items |-> <<>>]
    <2>1. n \in HandlerCall /\ n.h \in Handler /\ n.left # <<>>
      <3>1. <<>> \in Seq(Handler)
        OBVIOUS
      <3>2. QED
        BY <1>1, <3>1 DEF HandlerCall
    <2>2. change' = [change EXCEPT ![c] = n]
      BY <1>1 DEF Begins
    <2>3. upset' \in {"no", "event", "lists"} /\ registered' = registered
          /\ UNCHANGED eventVars
      BY <1>1 DEF Begins, HandlerTypes
    <2> HIDE DEF n
    <2>4. QED
      BY <1>1, <2>1, <2>2, <2>3, MoveTypes DEF HandlerTypes
  <1>2. ASSUME NEW c \in Changer, NEW h \in Handler, NEW l \in DOMAIN lists,
               RegisterHandler(c, h, l)
        PROVE  HandlerTypes'
    <2>1. PICK ls : ls = <<l>>
      OBVIOUS
    <2>4. ls \in Seq(Lists) /\ ls # <<>>
      BY <2>1 DEF HandlerTypes
    <2>2. lists' \in [Lists -> Seq(Handler)]
      BY <1>2 DEF HandlerTypes, RegisterHandler
    <2>3. QED
      BY <1>1, <1>2, <2>1, <2>2, <2>4 DEF RegisterHandler
  <1>3. ASSUME NEW c \in Changer, NEW h \in Handler,
               NEW ls \in {<<"typed">>, <<"global", "typed">>},
               UnregisterHandler(c, h, ls)
        PROVE  HandlerTypes'
    <2>1. ls \in Seq(Lists) /\ ls # <<>>
      <3>1. \A k, l \in Lists : <<k>> \in Seq(Lists) /\ <<k, l>> \in Seq(Lists)
                               /\ <<k>> # <<>> /\ <<k, l>> # <<>>
        OBVIOUS
      <3>2. "typed" \in Lists /\ "global" \in Lists
        BY DEF Lists
      <3>3. QED
        BY <3>1, <3>2
    <2>2. lists' \in [Lists -> Seq(Handler)]
      BY <1>3 DEF HandlerTypes, UnregisterHandler
    <2>3. QED
      BY <1>1, <1>3, <2>1, <2>2 DEF UnregisterHandler
  <1>4. ASSUME NEW c \in Changer, NEW h \in Handler, NEW on \in BOOLEAN,
               SetEnabled(c, h, on)
        PROVE  HandlerTypes'
    BY <1>4 DEF SetEnabled, HandlerTypes, eventVars, Busy
  <1>5. ASSUME NEW c \in Changer, Sort(c) PROVE HandlerTypes'
    <2> DEFINE l == Head(change[c].left)
               n == [change[c] EXCEPT !.at = "sorting", !.items = lists[l]]
    <2>1. Busy(c)
      BY <1>5 DEF Sort, Busy
    <2>2. n \in HandlerCall /\ n.h \in Handler /\ n.left # <<>>
      BY <2>1, CallType DEF HandlerCall, HandlerTypes
    <2>3. change' = [change EXCEPT ![c] = n]
      BY <1>5 DEF Sort, HandlerTypes
    <2>4. lists' \in [Lists -> Seq(Handler)] /\ UNCHANGED <<registered, upset>>
          /\ UNCHANGED eventVars
      <3>1. <<>> \in Seq(Handler)
        OBVIOUS
      <3>2. QED
        BY <1>5, <3>1 DEF Sort, HandlerTypes
    <2> HIDE DEF n
    <2>5. QED
      BY <2>2, <2>3, <2>4, MoveTypes DEF HandlerTypes
  <1>6. ASSUME NEW c \in Changer, SortEnds(c) PROVE HandlerTypes'
    <2>1. Busy(c)
      BY <1>6 DEF SortEnds, Busy
    <2>2. ByPriority(change[c].items) \in Seq(Handler)
      BY <2>1, CallType, Sorted
    <2>3. lists' \in [Lists -> Seq(Handler)]
      BY <1>6, <2>2 DEF SortEnds, HandlerTypes
    <2>4. registered' \in [Handler -> Nat]
      <3>1. change[c].h \in Handler /\ registered \in [Handler -> Nat]
        BY <2>1 DEF HandlerTypes
      <3>2. QED
        BY <1>6, <3>1 DEF SortEnds
    <2>5. change' = [change EXCEPT ![c] = NoChange] /\ UNCHANGED eventVars
          /\ upset' = upset
      BY <1>6 DEF SortEnds
    <2>6. QED
      BY <1>0, <2>3, <2>4, <2>5, MoveTypes DEF HandlerTypes
  <1>7. ASSUME NEW c \in Changer, Find(c) PROVE HandlerTypes'
    <2>1. Busy(c) /\ UNCHANGED <<lists, registered, upset>> /\ UNCHANGED eventVars
      BY <1>7 DEF Find, Busy
    <2>2. CASE change' = [change EXCEPT ![c].at = "remove"]
      <3> DEFINE n == [change[c] EXCEPT !.at = "remove"]
      <3>1. n \in HandlerCall /\ n.h \in Handler /\ n.left # <<>>
        BY <2>1, CallType DEF HandlerCall, HandlerTypes
      <3>2. change' = [change EXCEPT ![c] = n]
        BY <2>2 DEF HandlerTypes
      <3> HIDE DEF n
      <3>3. QED
        BY <2>1, <3>1, <3>2, MoveTypes DEF HandlerTypes
    <2>3. CASE NextList(c)
      <3>1. PICK n \in HandlerCall :
              /\ change' = [change EXCEPT ![c] = n]
              /\ \/ n = NoChange
                 \/ n.at = "find" /\ n.left # <<>> /\ n.h = change[c].h
        BY <2>1, <2>3, NextListMoves
      <3>2. n.at # "none" => n.h \in Handler /\ n.left # <<>>
        BY <1>0, <2>1, <3>1, CallType
      <3>3. QED
        BY <2>1, <3>1, <3>2, MoveTypes DEF HandlerTypes
    <2>4. QED
      BY <1>7, <2>2, <2>3 DEF Find
  <1>8. ASSUME NEW c \in Changer, Remove(c) PROVE HandlerTypes'
    <2> DEFINE l == Head(change[c].left)
               h == change[c].h
    <2>1. Busy(c) /\ upset' = upset /\ UNCHANGED eventVars
      BY <1>8 DEF Remove, Busy
    <2>2. h \in Handler /\ l \in Lists /\ lists[l] \in Seq(Handler)
      BY <2>1, CallType
    <2>3. CASE IsIn(h, lists[l])
      <3>1. PICK n \in HandlerCall :
              /\ change' = [change EXCEPT ![c] = n]
              /\ \/ n = NoChange
                 \/ n.at = "find" /\ n.left # <<>> /\ n.h = change[c].h
        BY <1>8, <2>1, <2>3, NextListMoves DEF Remove
      <3>2. n.at # "none" => n.h \in Handler /\ n.left # <<>>
        BY <1>0, <2>2, <3>1
      <3>3. Without(lists[l], h) \in Seq(Handler)
        BY <2>2, <2>3, WithoutOne
      <3>4. lists' \in [Lists -> Seq(Handler)]
        BY <1>8, <2>3, <3>3 DEF Remove, HandlerTypes
      <3>5. registered' \in [Handler -> Nat]
        <4>1. registered \in [Handler -> Nat] /\ registered[h] \in Nat
          BY <2>2 DEF HandlerTypes
        <4>2. registered' = [registered EXCEPT ![h] = IF registered[h] > 0
                                                     THEN registered[h] - 1 ELSE 0]
          BY <1>8, <2>3 DEF Remove
        <4>3. (IF registered[h] > 0 THEN registered[h] - 1 ELSE 0) \in Nat
          BY <4>1
        <4>4. QED
          BY <4>1, <4>2, <4>3
      <3>6. QED
        BY <2>1, <3>1, <3>2, <3>4, <3>5, MoveTypes DEF HandlerTypes
    <2>4. CASE ~IsIn(h, lists[l])
      <3>1. change' = [change EXCEPT ![c] = NoChange]
            /\ UNCHANGED <<lists, registered>>
        BY <1>8, <2>4 DEF Remove
      <3>2. QED
        BY <1>0, <2>1, <3>1, MoveTypes DEF HandlerTypes
    <2>5. QED
      BY <2>3, <2>4
  <1>9. CASE BeginEvent
    BY <1>9 DEF BeginEvent, HandlerTypes, listVars, Busy, Lists
  <1>10. CASE ReadGlobal
    <2>1. snapshot \o lists["global"] \in Seq(Handler)
      BY DEF HandlerTypes, Lists
    <2>2. snapshot' \in Seq(Handler)
      BY <1>10, <2>1, Sorted DEF ReadGlobal
    <2>3. QED
      BY <1>10, <2>2 DEF ReadGlobal, HandlerTypes, listVars, Busy
  <1>11. CASE SkipHandler \/ HandlerReturns \/ HandlerRaises
    <2>1. snapshot # <<>> /\ snapshot \in Seq(Handler)
      BY <1>11 DEF SkipHandler, Calling, HandlerReturns, HandlerRaises,
         InHandler, HandlerTypes
    <2>2. snapshot' \in Seq(Handler)
      BY <1>11, <2>1, HeadAndTail DEF SkipHandler, HandlerReturns, HandlerRaises
    <2>3. event' = "calling" /\ UNCHANGED <<listVars, owed, upset, called>>
      BY <1>11 DEF SkipHandler, Calling, HandlerReturns, HandlerRaises, NotNow
    <2>4. QED
      BY <2>2, <2>3 DEF HandlerTypes, listVars, Busy
  <1>12. CASE CallHandler
    <2>1. snapshot # <<>> /\ snapshot \in Seq(Handler)
      BY <1>12 DEF CallHandler, Calling, HandlerTypes
    <2>2. Head(snapshot) \in Handler
      BY <2>1, HeadAndTail
    <2>3. called' \in Seq(Handler)
      BY <1>12, <2>2 DEF CallHandler, HandlerTypes
    <2>4. QED
      BY <1>12, <2>1, <2>3 DEF CallHandler, HandlerTypes, NotNow, listVars, Busy
  <1>13. CASE FilterRaises \/ HandlerStopsEvent \/ EventEnds
    <2>1. Over
      BY <1>13 DEF FilterRaises, HandlerStopsEvent, EventEnds
    <2>2. QED
      BY <2>1 DEF Over, HandlerTypes, listVars, Busy
  <1>14. QED
    BY <1>2, <1>3, <1>4, <1>5, <1>6, <1>7, <1>8, <1>9, <1>10, <1>11, <1>12,
       <1>13 DEF HandlersNext, CallChange, ChangeStep

-----------------------------------------------------------------------------
(* The counts.                                                             *)
LEMMA OneIsNat ==
    ASSUME NEW g, NEW h
    PROVE  One(g, h) \in Nat
  BY DEF One

LEMMA IdleToCall ==
    ASSUME HandlerTypes, ListsCount, NEW c \in Changer, NEW h, NEW place, NEW ls,
           Begins(c, h, place, ls), upset' # "lists"
    PROVE  Idle
  <1>1. /\ \A d \in Changer : ~Busy(d)
        /\ upset # "lists"
    BY DEF Begins, MayCall, Busy
  <1>2. QED
    BY <1>1 DEF ListsCount, InCall

LEMMA TheCall ==
    ASSUME ListsCount, upset # "lists", NEW c \in Changer, Busy(c)
    PROVE  InCall(c)
  BY DEF ListsCount, InCall, Idle

LEMMA CallBegun ==
    ASSUME HandlerTypes, NEW c \in Changer, NEW n,
           change' = [change EXCEPT ![c] = n], n.at # "none",
           \A d \in Changer \ {c} : ~Busy(d),
           n.at = "sorting" => lists'[Head(n.left)] = <<>>,
           n.at = "remove" => IsIn(n.h, lists'[Head(n.left)]),
           \A g \in Handler :
             /\ n.at = "sort" => Listed(g)' = registered'[g] + One(g, n.h)
             /\ n.at = "sorting" =>
                  Listed(g)' + Count(n.items, g) = registered'[g] + One(g, n.h)
             /\ n.at \in {"find", "remove"} => Listed(g)' = registered'[g]
    PROVE  ListsCount'
  <1>1. change'[c] = n /\ \A d \in Changer \ {c} : change'[d] = change[d]
    BY DEF HandlerTypes
  <1>2. Busy(c)' /\ \A d \in Changer \ {c} : ~Busy(d)'
    BY <1>1 DEF Busy
  <1>3. Counts(c)'
    BY <1>1 DEF Counts
  <1>4. InCall(c)'
    BY <1>1, <1>2, <1>3 DEF InCall
  <1>5. QED
    BY <1>4 DEF ListsCount

LEMMA CallEnded ==
    ASSUME HandlerTypes, NEW c \in Changer,
           change' = [change EXCEPT ![c] = NoChange],
           \A d \in Changer \ {c} : ~Busy(d),
           \A g \in Handler : Listed(g)' = registered'[g]
    PROVE  ListsCount'
  <1>1. \A d \in Changer : ~Busy(d)'
    BY DEF HandlerTypes, Busy, NoChange
  <1>2. QED
    BY <1>1 DEF ListsCount, Idle

LEMMA SameLists ==
    ASSUME ListsCount, UNCHANGED <<lists, change, registered>>,
           upset' # "lists" => upset # "lists"
    PROVE  ListsCount'
  <1>1. \A g : Listed(g)' = Listed(g)
    BY DEF Listed
  <1>2. \A c : Busy(c)' <=> Busy(c)
    BY DEF Busy
  <1>3. \A c : InCall(c) => InCall(c)'
    BY <1>1, <1>2 DEF InCall, Counts
  <1>4. Idle => Idle'
    BY <1>1, <1>2 DEF Idle
  <1>5. QED
    BY <1>3, <1>4 DEF ListsCount

LEMMA ListsCountKept ==
    ASSUME HandlerTypes, ListsCount, HandlersNext PROVE ListsCount'
  <1>1. ASSUME NEW c \in Changer, NEW h \in Handler, NEW l \in DOMAIN lists,
               RegisterHandler(c, h, l)
        PROVE  ListsCount'
    <2>1. SUFFICES ASSUME upset' # "lists" PROVE ListsCount'
      BY DEF ListsCount
    <2>2. Idle
      BY <1>1, <2>1, IdleToCall DEF RegisterHandler
    <2>3. l \in Lists /\ lists[l] \in Seq(Handler)
      BY DEF HandlerTypes
    <2>4. PICK s \in Seq(Handler) : s = Append(lists[l], h)
      <3>1. Append(lists[l], h) \in Seq(Handler)
        BY <2>3
      <3>2. QED
        BY <3>1, Zenon
    <2>5. lists' = [lists EXCEPT ![l] = s] /\ registered' = registered
      BY <1>1, <2>4 DEF RegisterHandler, Begins
    <2>6. ASSUME NEW g \in Handler
          PROVE  Listed(g)' = registered'[g] + One(g, h)
      <3>1. /\ Listed(g) \in Nat /\ Listed(g)' \in Nat
            /\ Count(lists[l], g) \in Nat
            /\ Listed(g)' + Count(lists[l], g) = Listed(g) + Count(s, g)
        BY <2>3, <2>5, ListReplaced
      <3>2. Count(s, g) = Count(lists[l], g) + One(g, h)
        BY <2>3, <2>4, CountAppend
      <3>3. Listed(g) = registered[g] /\ One(g, h) \in Nat
        BY <2>2, OneIsNat DEF Idle
      <3>4. QED
        BY <2>5, <3>1, <3>2, <3>3
    <2>7. PICK n : n = [at |-> "sort", h |-> h, left |-> <<l>>, items |-> <<>>]
      OBVIOUS
    <2>8. change' = [change EXCEPT ![c] = n]
      BY <1>1, <2>7 DEF RegisterHandler, Begins
    <2>9. n.at = "sort" /\ n.h = h
      BY <2>7
    <2>10. QED
      BY <2>2, <2>6, <2>8, <2>9, CallBegun DEF Idle
  <1>2. ASSUME NEW c \in Changer, NEW h \in Handler, NEW ls,
               UnregisterHandler(c, h, ls)
        PROVE  ListsCount'
    <2>1. SUFFICES ASSUME upset' # "lists" PROVE ListsCount'
      BY DEF ListsCount
    <2>2. Idle
      BY <1>2, <2>1, IdleToCall DEF UnregisterHandler
    <2>3. UNCHANGED <<lists, registered>>
      BY <1>2 DEF UnregisterHandler, Begins
    <2>4. \A g \in Handler : Listed(g)' = registered'[g]
      BY <2>2, <2>3 DEF Idle, Listed
    <2>5. PICK n : n = [at |-> "find", h |-> h, left |-> ls, items |-> <<>>]
      OBVIOUS
    <2>6. change' = [change EXCEPT ![c] = n] /\ n.at = "find"
      BY <1>2, <2>5 DEF UnregisterHandler, Begins
    <2>7. QED
      BY <2>2, <2>4, <2>6, CallBegun DEF Idle
  <1>3. ASSUME NEW c \in Changer, NEW h \in Handler, NEW on \in BOOLEAN,
               SetEnabled(c, h, on)
        PROVE  ListsCount'
    BY <1>3, SameLists DEF SetEnabled
  <1>4. ASSUME NEW c \in Changer, Sort(c) PROVE ListsCount'
    <2>1. SUFFICES ASSUME upset' # "lists" PROVE ListsCount'
      BY DEF ListsCount
    <2>2. change[c].at = "sort" /\ Busy(c) /\ UNCHANGED <<registered, upset>>
      BY <1>4 DEF Sort, Busy
    <2>3. InCall(c)
      BY <2>1, <2>2, TheCall
    <2>4. PICK l, n : /\ l = Head(change[c].left)
                      /\ n = [change[c] EXCEPT !.at = "sorting",
                                               !.items = lists[l]]
      OBVIOUS
    <2>5. /\ n.at = "sorting" /\ n.h = change[c].h
          /\ n.left = change[c].left /\ n.items = lists[l]
          /\ l \in Lists /\ lists[l] \in Seq(Handler)
      BY <2>2, <2>4, CallType DEF HandlerCall
    <2>6. /\ change' = [change EXCEPT ![c] = n]
          /\ lists' = [lists EXCEPT ![l] = <<>>]
      BY <1>4, <2>4 DEF Sort, HandlerTypes
    <2>7. ASSUME NEW g \in Handler
          PROVE  Listed(g)' + Count(n.items, g) = registered'[g] + One(g, n.h)
      <3>0. <<>> \in Seq(Handler)
        OBVIOUS
      <3>1. PICK s \in Seq(Handler) : s = <<>>
        BY <3>0, Zenon
      <3>2. /\ Listed(g) \in Nat /\ Listed(g)' \in Nat
            /\ Count(lists[l], g) \in Nat
            /\ Listed(g)' + Count(lists[l], g) = Listed(g) + Count(s, g)
        BY <2>5, <2>6, <3>1, ListReplaced
      <3>3. Count(s, g) = 0
        BY <3>1, CountEmpty
      <3>4. Listed(g) = registered[g] + One(g, change[c].h)
        BY <2>2, <2>3 DEF InCall, Counts
      <3>5. QED
        BY <2>2, <2>5, <3>2, <3>3, <3>4
    <2>8. lists'[Head(n.left)] = <<>>
      BY <2>4, <2>5, <2>6 DEF HandlerTypes
    <2>9. QED
      BY <2>3, <2>5, <2>6, <2>7, <2>8, CallBegun DEF InCall
  <1>5. ASSUME NEW c \in Changer, SortEnds(c) PROVE ListsCount'
    <2>1. SUFFICES ASSUME upset' # "lists" PROVE ListsCount'
      BY DEF ListsCount
    <2>2. change[c].at = "sorting" /\ Busy(c) /\ upset' = upset
      BY <1>5 DEF SortEnds, Busy
    <2>3. InCall(c)
      BY <2>1, <2>2, TheCall
    <2>4. PICK l, h, s : /\ l = Head(change[c].left) /\ h = change[c].h
                         /\ s = ByPriority(change[c].items)
      OBVIOUS
    <2>5. /\ l \in Lists /\ h \in Handler /\ change[c].items \in Seq(Handler)
          /\ registered \in [Handler -> Nat]
      BY <2>2, <2>4, CallType DEF HandlerTypes
    <2>6. s \in Seq(Handler) /\ \A g : Count(s, g) = Count(change[c].items, g)
      BY <2>4, <2>5, Sorted
    <2>7. /\ change' = [change EXCEPT ![c] = NoChange]
          /\ lists' = [lists EXCEPT ![l] = s]
          /\ registered' = [registered EXCEPT ![h] = registered[h] + 1]
      BY <1>5, <2>4 DEF SortEnds
    <2>8. ASSUME NEW g \in Handler PROVE Listed(g)' = registered'[g]
      <3>1. /\ Listed(g) \in Nat /\ Listed(g)' \in Nat
            /\ Count(s, g) \in Nat
            /\ Listed(g)' + Count(lists[l], g) = Listed(g) + Count(s, g)
        BY <2>5, <2>6, <2>7, ListReplaced
      <3>2. Count(lists[l], g) = 0
        BY <2>2, <2>3, <2>4, CountEmpty DEF InCall
      <3>3. Listed(g) + Count(s, g) = registered[g] + One(g, h)
        BY <2>2, <2>3, <2>4, <2>6 DEF InCall, Counts
      <3>4. registered'[g] = registered[g] + One(g, h)
        BY <2>5, <2>7 DEF One
      <3>5. QED
        BY <3>1, <3>2, <3>3, <3>4
    <2>9. QED
      BY <2>3, <2>7, <2>8, CallEnded DEF InCall
  <1>6. ASSUME NEW c \in Changer, InCall(c), NextList(c), Busy(c),
               \A g \in Handler : Listed(g)' = registered'[g]
        PROVE  ListsCount'
    <2>1. PICK n \in HandlerCall :
            /\ change' = [change EXCEPT ![c] = n]
            /\ \/ n = NoChange
               \/ n.at = "find" /\ n.left # <<>> /\ n.h = change[c].h
      BY <1>6, NextListMoves
    <2>2. CASE n = NoChange
      BY <1>6, <2>1, <2>2, CallEnded DEF InCall
    <2>3. CASE n.at = "find"
      BY <1>6, <2>1, <2>3, CallBegun DEF InCall
    <2>4. QED
      BY <2>1, <2>2, <2>3
  <1>7. ASSUME NEW c \in Changer, Find(c) PROVE ListsCount'
    <2>1. SUFFICES ASSUME upset' # "lists" PROVE ListsCount'
      BY DEF ListsCount
    <2>2. /\ change[c].at = "find" /\ Busy(c)
          /\ UNCHANGED <<lists, registered, upset>>
      BY <1>7 DEF Find, Busy
    <2>3. InCall(c)
      BY <2>1, <2>2, TheCall
    <2>4. \A g \in Handler : Listed(g)' = registered'[g]
      BY <2>2, <2>3 DEF InCall, Counts, Listed
    <2>5. CASE IsIn(change[c].h, lists[Head(change[c].left)])
      <3>1. PICK n : n = [change[c] EXCEPT !.at = "remove"]
        OBVIOUS
      <3>2. n.at = "remove" /\ n.h = change[c].h /\ n.left = change[c].left
        BY <2>2, <3>1, CallType DEF HandlerCall
      <3>3. change' = [change EXCEPT ![c] = n]
        BY <1>7, <2>5, <3>1 DEF Find, HandlerTypes
      <3>4. QED
        BY <2>2, <2>3, <2>4, <2>5, <3>2, <3>3, CallBegun DEF InCall
    <2>6. CASE NextList(c)
      BY <1>6, <2>2, <2>3, <2>4, <2>6
    <2>7. QED
      BY <1>7, <2>5, <2>6 DEF Find
  <1>8. ASSUME NEW c \in Changer, Remove(c) PROVE ListsCount'
    <2>1. SUFFICES ASSUME upset' # "lists" PROVE ListsCount'
      BY DEF ListsCount
    <2>2. change[c].at = "remove" /\ Busy(c) /\ upset' = upset
      BY <1>8 DEF Remove, Busy
    <2>3. InCall(c)
      BY <2>1, <2>2, TheCall
    <2>4. PICK l, h : l = Head(change[c].left) /\ h = change[c].h
      OBVIOUS
    <2>5. /\ l \in Lists /\ h \in Handler /\ lists[l] \in Seq(Handler)
          /\ IsIn(h, lists[l]) /\ registered \in [Handler -> Nat]
      BY <2>2, <2>3, <2>4, CallType DEF HandlerTypes, InCall
    <2>6. PICK s : s = Without(lists[l], h)
      OBVIOUS
    <2>7. /\ s \in Seq(Handler)
          /\ \A g : Count(lists[l], g) = Count(s, g) + One(g, h)
      BY <2>5, <2>6, WithoutOne
    <2>8. /\ NextList(c)
          /\ lists' = [lists EXCEPT ![l] = s]
          /\ registered' = [registered EXCEPT ![h] =
                              IF registered[h] > 0 THEN registered[h] - 1 ELSE 0]
      BY <1>8, <2>4, <2>5, <2>6 DEF Remove
    <2>9. ASSUME NEW g \in Handler PROVE Listed(g)' = registered'[g]
      <3>1. /\ Listed(g) \in Nat /\ Listed(g)' \in Nat
            /\ Count(s, g) \in Nat
            /\ Listed(g)' + Count(lists[l], g) = Listed(g) + Count(s, g)
        BY <2>5, <2>7, <2>8, ListReplaced
      <3>2. Listed(g) = registered[g]
        BY <2>2, <2>3 DEF InCall, Counts
      <3>3. Listed(g)' + One(g, h) = registered[g]
        BY <2>7, <3>1, <3>2, OneIsNat
      <3>4. CASE g = h
        BY <2>5, <2>8, <3>1, <3>3, <3>4 DEF One
      <3>5. CASE g # h
        BY <2>5, <2>8, <3>1, <3>3, <3>5 DEF One
      <3>6. QED
        BY <3>4, <3>5
    <2>10. QED
      BY <1>6, <2>2, <2>3, <2>8, <2>9
  <1>9. CASE BeginEvent
    BY <1>9, SameLists DEF BeginEvent, listVars
  <1>10. CASE ReadGlobal
    BY <1>10, SameLists DEF ReadGlobal, listVars
  <1>11. CASE SkipHandler \/ HandlerReturns \/ HandlerRaises \/ CallHandler
    <2>1. NotNow
      BY <1>11 DEF SkipHandler, HandlerReturns, HandlerRaises, CallHandler
    <2>2. QED
      BY <2>1, SameLists DEF NotNow, listVars
  <1>12. CASE FilterRaises \/ HandlerStopsEvent \/ EventEnds
    <2>1. Over
      BY <1>12 DEF FilterRaises, HandlerStopsEvent, EventEnds
    <2>2. QED
      BY <2>1, SameLists DEF Over, listVars
  <1>13. QED
    BY <1>1, <1>2, <1>3, <1>4, <1>5, <1>7, <1>8, <1>9, <1>10, <1>11, <1>12
    DEF HandlersNext, CallChange, ChangeStep

-----------------------------------------------------------------------------
(* What is read for an event.                                              *)
LEMMA SameReading ==
    ASSUME Reading, UNCHANGED <<lists, change, registered, eventVars, upset>>
    PROVE  Reading'
  <1>1. \A g : Listed(g)' = Listed(g)
    BY DEF Listed
  <1>2. \A c : Busy(c)' <=> Busy(c)
    BY DEF Busy
  <1>3. QED
    BY <1>1, <1>2 DEF Reading, Idle, eventVars

LEMMA ReadingKept ==
    ASSUME HandlerTypes, ListsCount, Reading, HandlersNext PROVE Reading'
  <1>1. ASSUME NEW c \in Changer, NEW h, NEW place, NEW ls,
               Begins(c, h, place, ls)
        PROVE  Reading'
    <2>1. event' = event /\ (event = "reading" => upset' # "no")
      BY <1>1 DEF Begins, eventVars
    <2>2. QED
      BY <2>1 DEF Reading
  <1>2. ASSUME NEW c \in Changer, NEW h \in Handler, NEW on \in BOOLEAN,
               SetEnabled(c, h, on)
        PROVE  Reading'
    BY <1>2, SameReading DEF SetEnabled
  <1>3. ASSUME NEW c \in Changer, ChangeStep(c) PROVE Reading'
    <2>1. Busy(c) /\ event' = event /\ upset' = upset
      BY <1>3 DEF ChangeStep, Sort, SortEnds, Find, Remove, Busy, eventVars
    <2>2. QED
      BY <2>1 DEF Reading, Idle
  <1>4. CASE BeginEvent
    <2>1. SUFFICES ASSUME upset' = "no" PROVE Reading'
      BY DEF Reading
    <2>2. upset # "lists" /\ \A c \in Changer : ~Busy(c)
      BY <1>4, <2>1 DEF BeginEvent, Busy
    <2>3. Idle
      BY <2>2 DEF ListsCount, InCall
    <2>4. UNCHANGED <<lists, change, registered>>
      BY <1>4 DEF BeginEvent, listVars
    <2>5. Idle'
      BY <2>3, <2>4 DEF Idle, Listed, Busy
    <2>6. snapshot' = lists'["typed"] /\ owed' = registered' /\ called' = <<>>
      BY <1>4, <2>4 DEF BeginEvent
    <2>7. QED
      BY <2>5, <2>6 DEF Reading
  <1>5. CASE \/ ReadGlobal \/ SkipHandler \/ FilterRaises \/ CallHandler
             \/ HandlerReturns \/ HandlerStopsEvent \/ HandlerRaises
             \/ EventEnds
    <2>1. event' # "reading"
      BY <1>5 DEF ReadGlobal, SkipHandler, FilterRaises, CallHandler,
         HandlerReturns, HandlerStopsEvent, HandlerRaises, EventEnds, Over,
         Calling
    <2>2. QED
      BY <2>1 DEF Reading
  <1>6. QED
    BY <1>1, <1>2, <1>3, <1>4, <1>5 DEF HandlersNext, CallChange, RegisterHandler,
       UnregisterHandler

-----------------------------------------------------------------------------
(* An event that goes to its handlers.                                     *)
LEMMA CallsCount ==
    ASSUME NEW h
    PROVE  Calls(h) = Count(called, h)
  BY DEF Calls, Count, Positions

LEMMA SameGoes ==
    ASSUME Goes, UNCHANGED eventVars, upset' = "no" => upset = "no",
           touched \subseteq touched'
    PROVE  Goes'
  <1>1. \A h : Calls(h)' = Calls(h)
    BY DEF Calls, eventVars
  <1>2. Rest' = Rest
    BY DEF Rest, eventVars
  <1>3. UNCHANGED <<event, called, owed>>
    BY DEF eventVars
  <1>4. SUFFICES ASSUME event \in {"calling", "handler"}, upset = "no"
                 PROVE  Goes'
    BY <1>3 DEF Goes
  <1>5. /\ \A h \in Handler : Calls(h)' + Count(Rest', h) <= owed'[h]
        /\ \A h \in Handler \ touched' : Calls(h)' + Count(Rest', h) = owed'[h]
    BY <1>1, <1>2, <1>3, <1>4 DEF Goes
  <1>6. UrgentFirst(called') /\ UrgentFirst(Rest')
    BY <1>2, <1>3, <1>4 DEF Goes
  <1>7. \A i \in DOMAIN called', j \in DOMAIN Rest' :
          Rest'[j] \in Urgent => called'[i] \in Urgent
    BY <1>2, <1>3, <1>4 DEF Goes
  <1>8. QED
    BY <1>5, <1>6, <1>7 DEF Goes

LEMMA UrgentFirstTail ==
    ASSUME NEW S, NEW s \in Seq(S), s # <<>>, UrgentFirst(s)
    PROVE  UrgentFirst(Tail(s))
  <1>1. /\ Len(s) \in Nat \ {0} /\ DOMAIN s = 1 .. Len(s)
        /\ DOMAIN Tail(s) = 1 .. Len(s) - 1
        /\ \A k \in 1 .. Len(s) - 1 : Tail(s)[k] = s[k + 1]
    OBVIOUS
  <1>2. \A i, j \in 1 .. Len(s) - 1 : /\ i + 1 \in DOMAIN s /\ j + 1 \in DOMAIN s
                                      /\ i < j => i + 1 < j + 1
    BY <1>1
  <1>3. QED
    BY <1>1, <1>2 DEF UrgentFirst

LEMMA GoesKept ==
    ASSUME HandlerTypes, ListsCount, Reading, Goes, HandlersNext PROVE Goes'
  <1>1. ASSUME NEW c \in Changer, NEW h, NEW place, NEW ls,
               Begins(c, h, place, ls)
        PROVE  Goes'
    <2>1. /\ UNCHANGED eventVars /\ touched \subseteq touched'
          /\ upset' = "no" => upset = "no"
      BY <1>1 DEF Begins
    <2>2. QED
      BY <2>1, SameGoes
  <1>2. ASSUME NEW c \in Changer, NEW h \in Handler, NEW on \in BOOLEAN,
               SetEnabled(c, h, on)
        PROVE  Goes'
    BY <1>2, SameGoes DEF SetEnabled
  <1>3. ASSUME NEW c \in Changer, ChangeStep(c) PROVE Goes'
    <2>1. UNCHANGED eventVars /\ UNCHANGED <<touched, upset>>
      BY <1>3 DEF ChangeStep, Sort, SortEnds, Find, Remove
    <2>2. QED
      BY <2>1, SameGoes
  <1>4. CASE BeginEvent \/ FilterRaises \/ HandlerStopsEvent \/ EventEnds
    <2>1. event' \notin {"calling", "handler"}
      BY <1>4 DEF BeginEvent, FilterRaises, HandlerStopsEvent, EventEnds, Over
    <2>2. QED
      BY <2>1 DEF Goes
  <1>5. CASE ReadGlobal
    <2>1. SUFFICES ASSUME upset = "no" PROVE Goes'
      BY <1>5 DEF ReadGlobal, Goes
    <2>2. /\ Idle /\ snapshot = lists["typed"] /\ owed = registered
          /\ called = <<>>
      BY <1>5, <2>1 DEF ReadGlobal, Reading
    <2>3. lists["typed"] \in Seq(Handler) /\ lists["global"] \in Seq(Handler)
      BY DEF HandlerTypes, Lists
    <2>4. PICK s \in Seq(Handler) : s = snapshot \o lists["global"]
      <3>1. snapshot \o lists["global"] \in Seq(Handler)
        BY <2>2, <2>3
      <3>2. QED
        BY <3>1, Zenon
    <2>5. \A h \in Handler : Count(s, h) = owed[h]
      BY <2>2, <2>3, <2>4, CountConcat DEF Idle, Listed
    <2>6. /\ event' = "calling" /\ snapshot' = ByPriority(s)
          /\ UNCHANGED <<called, owed, touched>>
      BY <1>5, <2>4 DEF ReadGlobal
    <2>7. /\ UrgentFirst(snapshot')
          /\ \A h : Count(snapshot', h) = Count(s, h)
      BY <2>6, Sorted
    <2>8. Rest' = snapshot'
      BY <2>6 DEF Rest
    <2>9. called' = <<>> /\ \A h : Calls(h)' = 0
      <3>1. \A h : Calls(h)' = Count(called', h)
        BY DEF Calls, Count, Positions
      <3>2. QED
        BY <2>2, <2>6, <3>1, CountEmpty
    <2>10. \A h \in Handler : Calls(h)' + Count(Rest', h) = owed'[h]
                              /\ owed'[h] \in Nat
      BY <2>5, <2>6, <2>7, <2>8, <2>9 DEF HandlerTypes
    <2>11. UrgentFirst(called') /\ UrgentFirst(Rest')
      BY <2>7, <2>8, <2>9 DEF UrgentFirst
    <2>12. \A i \in DOMAIN called', j \in DOMAIN Rest' :
             Rest'[j] \in Urgent => called'[i] \in Urgent
      BY <2>9
    <2>13. QED
      BY <2>10, <2>11, <2>12 DEF Goes
  <1>6. CASE SkipHandler \/ HandlerReturns \/ HandlerRaises
    <2>1. SUFFICES ASSUME upset = "no" PROVE Goes'
      BY <1>6 DEF SkipHandler, HandlerReturns, HandlerRaises, NotNow, Goes
    <2>2. /\ event \in {"calling", "handler"} /\ snapshot # <<>>
          /\ snapshot \in Seq(Handler) /\ called \in Seq(Handler)
          /\ owed \in [Handler -> Nat]
      BY <1>6 DEF SkipHandler, HandlerReturns, HandlerRaises, Calling, InHandler,
         HandlerTypes
    <2>3. /\ event' = "calling" /\ snapshot' = Tail(snapshot)
          /\ UNCHANGED <<called, owed>> /\ touched \subseteq touched'
      BY <1>6 DEF SkipHandler, HandlerReturns, HandlerRaises, Calling, NotNow
    <2>4. Rest' = Tail(snapshot) /\ \A h : Calls(h)' = Calls(h)
      BY <2>3 DEF Rest, Calls
    <2>5. CASE event = "handler"
      <3>1. Rest' = Rest
        BY <2>4, <2>5 DEF Rest
      <3>2. /\ \A h \in Handler : Calls(h)' + Count(Rest', h) <= owed'[h]
            /\ \A h \in Handler \ touched' :
                 Calls(h)' + Count(Rest', h) = owed'[h]
        BY <2>1, <2>2, <2>3, <2>4, <3>1 DEF Goes
      <3>3. UrgentFirst(called') /\ UrgentFirst(Rest')
        BY <2>1, <2>2, <2>3, <3>1 DEF Goes
      <3>4. \A i \in DOMAIN called', j \in DOMAIN Rest' :
              Rest'[j] \in Urgent => called'[i] \in Urgent
        BY <2>1, <2>2, <2>3, <3>1 DEF Goes
      <3>5. QED
        BY <3>2, <3>3, <3>4 DEF Goes
    <2>6. CASE event = "calling"
      <3>1. Rest = snapshot /\ Head(snapshot) \in touched'
        BY <1>6, <2>6 DEF Rest, SkipHandler, HandlerReturns, HandlerRaises,
           InHandler
      <3>2. ASSUME NEW h \in Handler
            PROVE  /\ Calls(h)' + Count(Rest', h) <= owed'[h]
                   /\ h \notin touched' => Calls(h)' + Count(Rest', h) = owed'[h]
        <4>1. /\ Calls(h) \in Nat /\ Count(Rest', h) \in Nat
              /\ Count(snapshot, h) = Count(Rest', h) + One(h, Head(snapshot))
          <5>1. Tail(snapshot) \in Seq(Handler)
            BY <2>2, HeadAndTail
          <5>2. QED
            BY <2>2, <2>4, <5>1, CountTail, CountType, CallsCount
        <4>2. /\ Calls(h) + Count(snapshot, h) <= owed[h]
              /\ h \notin touched => Calls(h) + Count(snapshot, h) = owed[h]
          BY <2>1, <2>2, <3>1 DEF Goes
        <4>3. CASE h = Head(snapshot)
          <5>1. One(h, Head(snapshot)) = 1 /\ h \in touched'
            BY <3>1, <4>3 DEF One
          <5>2. QED
            BY <2>2, <2>3, <2>4, <4>1, <4>2, <5>1
        <4>4. CASE h # Head(snapshot)
          <5>1. Count(snapshot, h) = Count(Rest', h)
            BY <4>1, <4>4 DEF One
          <5>2. QED
            BY <2>3, <2>4, <4>2, <5>1
        <4>5. QED
          BY <4>3, <4>4
      <3>3. UrgentFirst(called') /\ UrgentFirst(Rest')
        BY <2>1, <2>2, <2>3, <2>4, <3>1, UrgentFirstTail DEF Goes
      <3>4. \A i \in DOMAIN called', j \in DOMAIN Rest' :
              Rest'[j] \in Urgent => called'[i] \in Urgent
        <4>1. \A j \in DOMAIN Tail(snapshot) :
                j + 1 \in DOMAIN snapshot /\ Tail(snapshot)[j] = snapshot[j + 1]
          BY <2>2
        <4>2. QED
          BY <2>1, <2>2, <2>3, <2>4, <3>1, <4>1 DEF Goes
      <3>5. QED
        BY <3>2, <3>3, <3>4 DEF Goes
    <2>7. QED
      BY <2>2, <2>5, <2>6
  <1>7. CASE CallHandler
    <2>1. SUFFICES ASSUME upset = "no" PROVE Goes'
      BY <1>7 DEF CallHandler, NotNow, Goes
    <2>2. /\ event = "calling" /\ snapshot # <<>>
          /\ snapshot \in Seq(Handler) /\ called \in Seq(Handler)
          /\ owed \in [Handler -> Nat]
      BY <1>7 DEF CallHandler, Calling, HandlerTypes
    <2>3. PICK h \in Handler : h = Head(snapshot)
      BY <2>2, HeadAndTail
    <2>4. /\ event' = "handler" /\ called' = Append(called, h)
          /\ UNCHANGED <<snapshot, owed, touched>>
      BY <1>7, <2>3 DEF CallHandler, NotNow
    <2>5. Rest = snapshot /\ Rest' = Tail(snapshot)
      BY <2>2, <2>4 DEF Rest
    <2>6. ASSUME NEW g \in Handler
          PROVE  Calls(g)' + Count(Rest', g) = Calls(g) + Count(Rest, g)
      <3>1. Calls(g)' = Count(Append(called, h), g) /\ Calls(g) = Count(called, g)
        BY <2>4 DEF Calls, Count, Positions
      <3>2. Count(Append(called, h), g) = Count(called, g) + One(g, h)
        BY <2>2, CountAppend
      <3>3. Count(snapshot, g) = Count(Tail(snapshot), g) + One(g, h)
        BY <2>2, <2>3, CountTail
      <3>4. Count(called, g) \in Nat /\ Count(Tail(snapshot), g) \in Nat
            /\ One(g, h) \in Nat
        BY <2>2, HeadAndTail, CountType, OneIsNat
      <3>5. QED
        BY <2>5, <3>1, <3>2, <3>3, <3>4
    <2>7. /\ \A g \in Handler : Calls(g)' + Count(Rest', g) <= owed'[g]
          /\ \A g \in Handler \ touched' : Calls(g)' + Count(Rest', g) = owed'[g]
      BY <2>1, <2>2, <2>4, <2>6 DEF Goes
    <2>8. PICK n \in Nat : /\ n = Len(called) /\ DOMAIN called = 1 .. n
                           /\ DOMAIN called' = 1 .. n + 1
                           /\ \A k \in 1 .. n : called'[k] = called[k]
                           /\ called'[n + 1] = h
      BY <2>2, <2>4
    <2>9. /\ 1 \in DOMAIN snapshot /\ snapshot[1] = h
          /\ \A j \in DOMAIN Tail(snapshot) :
               /\ j + 1 \in DOMAIN snapshot /\ 1 < j + 1
               /\ Tail(snapshot)[j] = snapshot[j + 1]
      BY <2>2, <2>3
    <2>10. /\ UrgentFirst(called) /\ UrgentFirst(snapshot)
           /\ \A i \in DOMAIN called, j \in DOMAIN snapshot :
                snapshot[j] \in Urgent => called[i] \in Urgent
      BY <2>1, <2>2, <2>5 DEF Goes
    <2>11. UrgentFirst(called')
      <3>1. SUFFICES ASSUME NEW i \in 1 .. n + 1, NEW j \in 1 .. n + 1, i < j,
                            called'[j] \in Urgent
                     PROVE  called'[i] \in Urgent
        BY <2>8 DEF UrgentFirst
      <3>2. i \in 1 .. n /\ called'[i] = called[i]
        BY <2>8, <3>1
      <3>3. CASE j = n + 1
        BY <2>8, <2>9, <2>10, <3>1, <3>2, <3>3
      <3>4. CASE j # n + 1
        <4>1. j \in 1 .. n
          BY <3>4
        <4>2. QED
          BY <2>8, <2>10, <3>1, <3>2, <4>1 DEF UrgentFirst
      <3>5. QED
        BY <3>3, <3>4
    <2>12. UrgentFirst(Rest')
      BY <2>2, <2>5, <2>10, UrgentFirstTail
    <2>13. \A i \in DOMAIN called', j \in DOMAIN Rest' :
             Rest'[j] \in Urgent => called'[i] \in Urgent
      <3>1. SUFFICES ASSUME NEW i \in 1 .. n + 1, NEW j \in DOMAIN Tail(snapshot),
                            snapshot[j + 1] \in Urgent
                     PROVE  called'[i] \in Urgent
        BY <2>5, <2>8, <2>9
      <3>2. h \in Urgent
        BY <2>9, <2>10, <3>1 DEF UrgentFirst
      <3>3. CASE i = n + 1
        BY <2>8, <3>2, <3>3
      <3>4. CASE i # n + 1
        <4>1. i \in 1 .. n
          BY <3>4
        <4>2. QED
          BY <2>8, <2>9, <2>10, <3>1, <4>1
      <3>5. QED
        BY <3>3, <3>4
    <2>14. QED
      BY <2>7, <2>11, <2>12, <2>13 DEF Goes
  <1>8. QED
    BY <1>1, <1>2, <1>3, <1>4, <1>5, <1>6, <1>7 DEF HandlersNext, CallChange,
       RegisterHandler, UnregisterHandler

-----------------------------------------------------------------------------
LEMMA HandlersInvInit == HandlersInit => HandlersInv
  <1> SUFFICES ASSUME HandlersInit PROVE HandlersInv
    OBVIOUS
  <1>1. \A S : <<>> \in Seq(S)
    OBVIOUS
  <1>2. \A c \in Changer : change[c] = NoChange /\ ~Busy(c)
    BY DEF HandlersInit, Busy, NoChange
  <1>3. lists \in [Lists -> Seq(Handler)] /\ snapshot \in Seq(Handler)
        /\ called \in Seq(Handler)
    BY <1>1 DEF HandlersInit, Lists
  <1>4. NoChange \in HandlerCall
    BY <1>1 DEF NoChange, HandlerCall
  <1>5. change \in [Changer -> HandlerCall]
    BY <1>4 DEF HandlersInit
  <1>6. HandlerTypes
    BY <1>2, <1>3, <1>5 DEF HandlersInit, HandlerTypes
  <1>7. Idle
    <2>1. lists["typed"] = <<>> /\ lists["global"] = <<>>
          /\ \A h \in Handler : registered[h] = 0
      BY DEF HandlersInit
    <2>2. QED
      BY <1>2, <2>1, CountEmpty DEF Idle, Listed
  <1>8. event = "none"
    BY DEF HandlersInit
  <1>9. QED
    BY <1>6, <1>7, <1>8 DEF HandlersInv, ListsCount, Reading, Goes

LEMMA HandlersInvKept ==
    HandlersInv /\ [HandlersNext]_handlerVars => HandlersInv'
  <1>1. SUFFICES ASSUME HandlersInv, [HandlersNext]_handlerVars
                 PROVE  HandlersInv'
    OBVIOUS
  <1>2. CASE HandlersNext
    BY <1>1, <1>2, HandlerTypesKept, ListsCountKept, ReadingKept, GoesKept
    DEF HandlersInv
  <1>3. CASE UNCHANGED handlerVars
    <2>1. UNCHANGED <<lists, change, registered, eventVars, upset, touched>>
      BY <1>3 DEF handlerVars, listVars
    <2>2. HandlerTypes'
      BY <1>1, <2>1 DEF HandlersInv, HandlerTypes, Busy, eventVars
    <2>3. ListsCount' /\ Reading' /\ Goes'
      BY <1>1, <2>1, SameLists, SameReading, SameGoes DEF HandlersInv
    <2>4. QED
      BY <2>2, <2>3 DEF HandlersInv
  <1>4. QED
    BY <1>1, <1>2, <1>3

LEMMA HandlersInvImplies == HandlersInv => HandlersAreCalled
  <1> SUFFICES ASSUME HandlersInv, event # "none", upset = "no"
               PROVE  HandlersAreCalled
    BY DEF HandlersAreCalled
  <1>1. HandlerTypes /\ Reading /\ Goes
    BY DEF HandlersInv
  <1>2. called \in Seq(Handler) /\ owed \in [Handler -> Nat]
        /\ Rest \in Seq(Handler)
    <2>1. snapshot # <<>> => Tail(snapshot) \in Seq(Handler)
      BY <1>1, HeadAndTail DEF HandlerTypes
    <2>2. QED
      BY <1>1, <2>1 DEF HandlerTypes, Rest
  <1>3. \A h : Calls(h) \in Nat /\ Count(Rest, h) \in Nat
    BY <1>2, CallsCount, CountType
  <1>4. CASE event = "reading"
    <2>1. called = <<>> /\ \A h : Calls(h) = 0
      BY <1>1, <1>4, CallsCount, CountEmpty DEF Reading
    <2>2. QED
      BY <1>2, <1>4, <2>1 DEF HandlersAreCalled
  <1>5. CASE event \in {"calling", "handler"}
    <2>1. \A h \in Handler : Calls(h) <= owed[h]
      <3>1. \A h \in Handler : Calls(h) + Count(Rest, h) <= owed[h]
        BY <1>1, <1>5 DEF Goes
      <3>2. QED
        BY <1>2, <1>3, <3>1
    <2>2. \A i, j \in DOMAIN called :
            i < j /\ called[j] \in Urgent => called[i] \in Urgent
      BY <1>1, <1>5 DEF Goes, UrgentFirst
    <2>3. ASSUME event = "calling", snapshot = <<>>,
                 NEW h \in Handler \ touched
          PROVE  Calls(h) = owed[h]
      <3>1. Rest = <<>>
        BY <2>3 DEF Rest
      <3>2. Calls(h) + Count(Rest, h) = owed[h]
        BY <1>1, <1>5 DEF Goes
      <3>3. Count(Rest, h) = 0
        BY <3>1, CountEmpty
      <3>4. QED
        BY <1>3, <3>2, <3>3
    <2>4. QED
      BY <2>1, <2>2, <2>3 DEF HandlersAreCalled
  <1>6. QED
    BY <1>1, <1>4, <1>5 DEF HandlerTypes

(* An event goes to the handlers registered when it began, once for each   *)
(* registration and high priority first, and to all that stay enabled,     *)
(* unless one stops it: whatever _process_event_immediate()'s handlers     *)
(* register and unregister, and for any threads that change the lists,     *)
(* as long as no call of theirs overlaps the reading or another call.      *)
THEOREM HandlersAreCalledHolds == HandlersSpec => []HandlersAreCalled
  <1>1. HandlersInit => HandlersInv
    BY HandlersInvInit
  <1>2. HandlersInv /\ [HandlersNext]_handlerVars => HandlersInv'
    BY HandlersInvKept
  <1>3. HandlersInv => HandlersAreCalled
    BY HandlersInvImplies
  <1>4. QED
    BY <1>1, <1>2, <1>3, PTL DEF HandlersSpec
=============================================================================
