-------------------------- MODULE ExtensionProofs --------------------------
(***************************************************************************)
(* Proofs about the extensions (src/revitpy/extensions): that LoadOrder    *)
(* answers right for every set of names and every graph of dependencies,   *)
(* and that ExtensionManager keeps every active object in its tables, for  *)
(* every number of tasks, extensions and calls.                            *)
(*                                                                         *)
(* LoadOrder.  The path is a chain of dependencies without repetition, so  *)
(* a dependency that is found on it closes a circle; and every dependency  *)
(* of a visit under way is yet to be visited, done, or the visit inside it *)
(* - so that all are done when the visit ends.                             *)
(*                                                                         *)
(* ExtensionManager.  What is being activated is in the tables already,    *)
(* and what a call takes out or replaces is not active by then: its own    *)
(* hooks saw to that, and an activation of another task beside it is in    *)
(* overlapped.  For this an object has to belong to one extension, a load  *)
(* or unload to hold the lock, and shutdown() to run once at a time.       *)
(***************************************************************************)
EXTENDS LoadOrder, ExtensionManager, SequenceTheorems, WellFoundedInduction,
        TLAPS

Once(s) == \A i, j \in DOMAIN s : s[i] = s[j] => i = j

OrderTypeOK ==
    /\ Registered \subseteq Name
    /\ graph \in [Registered -> SUBSET Name]
    /\ path \in Seq(Name)
    /\ todo \in [Name -> SUBSET Name]
    /\ resolved \in Seq(Name)
    /\ answer \in {"none", "order", "cycle"}

PathIsChain ==
    /\ Listed(path) \subseteq Registered \ Listed(resolved)
    /\ Once(path)
    /\ \A i \in 1 .. Len(path) - 1 : path[i + 1] \in graph[path[i]]

(* Where a dependency of the i-th visit under way can be                   *)
NothingForgotten ==
    \A i \in 1 .. Len(path) :
      /\ todo[path[i]] \subseteq graph[path[i]]
      /\ \A d \in graph[path[i]] \cap Registered :
           \/ d \in todo[path[i]]
           \/ d \in Listed(resolved)
           \/ i < Len(path) /\ path[i + 1] = d

DependenciesFirst ==
    /\ Listed(resolved) \subseteq Registered
    /\ Once(resolved)
    /\ \A i \in 1 .. Len(resolved) :
         \A d \in graph[resolved[i]] \cap Registered :
           \E j \in 1 .. i - 1 : resolved[j] = d

AnswerIsRight ==
    /\ answer = "order" => Registered \subseteq Listed(resolved)
    /\ answer = "cycle" => Cyclic

OrderInv ==
    /\ OrderTypeOK
    /\ PathIsChain
    /\ NothingForgotten
    /\ DependenciesFirst
    /\ AnswerIsRight
-----------------------------------------------------------------------------
LEMMA ListedAppend ==
    ASSUME NEW S, NEW s \in Seq(S), NEW e \in S
    PROVE  /\ Append(s, e) \in Seq(S)
           /\ Len(Append(s, e)) = Len(s) + 1
           /\ \A i \in 1 .. Len(s) : Append(s, e)[i] = s[i]
           /\ Append(s, e)[Len(s) + 1] = e
           /\ Listed(Append(s, e)) = Listed(s) \cup {e}
           /\ Once(s) /\ e \notin Listed(s) => Once(Append(s, e))
  <1>1. /\ Append(s, e) \in Seq(S)
        /\ Len(Append(s, e)) = Len(s) + 1
        /\ \A i \in 1 .. Len(s) : Append(s, e)[i] = s[i]
        /\ Append(s, e)[Len(s) + 1] = e
    OBVIOUS
  <1>2. Listed(Append(s, e)) \subseteq Listed(s) \cup {e}
    BY <1>1 DEF Listed
  <1>3. Listed(s) \cup {e} \subseteq Listed(Append(s, e))
    BY <1>1 DEF Listed
  <1>4. ASSUME Once(s), e \notin Listed(s) PROVE Once(Append(s, e))
    BY <1>1, <1>4 DEF Listed, Once
  <1>5. QED
    BY <1>1, <1>2, <1>3, <1>4

LEMMA ListedFront ==
    ASSUME NEW S, NEW s \in Seq(S), s # <<>>, Once(s)
    PROVE  LET f == SubSeq(s, 1, Len(s) - 1) IN
           /\ f \in Seq(S)
           /\ Len(f) = Len(s) - 1
           /\ \A i \in 1 .. Len(s) - 1 : f[i] = s[i]
           /\ Listed(f) = Listed(s) \ {s[Len(s)]}
           /\ Once(f)
  <1> DEFINE f == SubSeq(s, 1, Len(s) - 1)
  <1>1. Len(s) \in Nat \ {0}
    OBVIOUS
  <1>2. \A i \in 1 .. Len(s) - 1 : s[i] \in S
    BY <1>1
  <1>3. /\ f \in Seq(S)
        /\ Len(f) = IF 1 <= Len(s) - 1 THEN (Len(s) - 1) - 1 + 1 ELSE 0
        /\ \A i \in 1 .. (Len(s) - 1) - 1 + 1 : f[i] = s[1 + i - 1]
    BY <1>1, <1>2, SubSeqProperties
  <1> HIDE DEF f
  <1>4. Len(f) = Len(s) - 1
    <2>1. \A n \in Nat \ {0} :
             (IF 1 <= n - 1 THEN (n - 1) - 1 + 1 ELSE 0) = n - 1
      OBVIOUS
    <2>2. (IF 1 <= Len(s) - 1 THEN (Len(s) - 1) - 1 + 1 ELSE 0) = Len(s) - 1
      BY <1>1, <2>1
    <2>3. Len(f) = IF 1 <= Len(s) - 1 THEN (Len(s) - 1) - 1 + 1 ELSE 0
      BY <1>3
    <2>4. QED
      BY <2>2, <2>3
  <1>5. ASSUME NEW i \in 1 .. Len(s) - 1
        PROVE  f[i] = s[i]
    <2>1. i \in 1 .. (Len(s) - 1) - 1 + 1 /\ 1 + i - 1 = i
      BY <1>1
    <2>2. QED
      BY <1>3, <2>1
  <1>6. /\ f \in Seq(S)
        /\ Len(f) = Len(s) - 1
        /\ \A i \in 1 .. Len(s) - 1 : f[i] = s[i]
    BY <1>3, <1>4, <1>5
  <1>7. Listed(f) \subseteq Listed(s) \ {s[Len(s)]}
    BY <1>1, <1>6 DEF Listed, Once
  <1>8. Listed(s) \ {s[Len(s)]} \subseteq Listed(f)
    BY <1>1, <1>6 DEF Listed
  <1>9. Once(f)
    BY <1>1, <1>6 DEF Once
  <1>10. QED
    BY <1>6, <1>7, <1>8, <1>9 DEF f

(* The innermost visit                                                     *)
LEMMA TopOfPath ==
    ASSUME OrderTypeOK, PathIsChain, path # <<>>
    PROVE  /\ Len(path) \in Nat \ {0}
           /\ Len(path) \in DOMAIN path
           /\ Top \in Name /\ Top \in Registered
           /\ Top \in Listed(path) /\ Top \notin Listed(resolved)
           /\ todo[Top] \subseteq Name
           /\ \A i \in 1 .. Len(path) - 1 : path[i] # Top
  <1>1. Len(path) \in Nat \ {0} /\ DOMAIN path = 1 .. Len(path)
    BY DEF OrderTypeOK
  <1>2. Top \in Listed(path)
    BY <1>1 DEF Listed, Top
  <1>3. Top \in Registered /\ Top \notin Listed(resolved) /\ Top \in Name
    BY <1>2 DEF PathIsChain, OrderTypeOK
  <1>4. \A i \in 1 .. Len(path) - 1 : path[i] # Top
    BY <1>1 DEF PathIsChain, Once, Top
  <1>5. todo[Top] \subseteq Name
    BY <1>3 DEF OrderTypeOK
  <1>6. QED
    BY <1>1, <1>2, <1>3, <1>4, <1>5
-----------------------------------------------------------------------------
LEMMA InvInit == OrderInit => OrderInv
  <1> SUFFICES ASSUME OrderInit PROVE OrderInv
    OBVIOUS
  <1>1. Listed(path) = {} /\ Listed(resolved) = {} /\ Len(path) = 0
        /\ Len(resolved) = 0 /\ DOMAIN path = {} /\ DOMAIN resolved = {}
    BY DEF OrderInit, Listed
  <1>2. Registered \subseteq Name /\ graph \in [Registered -> SUBSET Name]
    BY DEF OrderInit, Registered
  <1>3. OrderTypeOK
    BY <1>2 DEF OrderTypeOK, OrderInit
  <1>4. PathIsChain /\ NothingForgotten /\ DependenciesFirst /\ AnswerIsRight
    BY <1>1 DEF PathIsChain, NothingForgotten, DependenciesFirst,
                AnswerIsRight, Once, OrderInit
  <1>5. QED
    BY <1>3, <1>4 DEF OrderInv

LEMMA VisitNextStep ==
    ASSUME OrderInv, NEW n \in Name, VisitNext(n)
    PROVE  OrderInv'
  <1> USE DEF OrderInv
  <1>1. /\ path' = <<n>> /\ Len(path') = 1 /\ DOMAIN path' = {1}
        /\ path'[1] = n /\ Listed(path') = {n}
    BY DEF VisitNext, Listed
  <1>2. n \in Registered /\ n \notin Listed(resolved) /\ graph[n] \subseteq Name
    BY DEF VisitNext, OrderTypeOK
  <1>3. /\ UNCHANGED <<graph, resolved, answer>> /\ Registered' = Registered
        /\ Listed(resolved)' = Listed(resolved) /\ Cyclic' = Cyclic
    BY DEF VisitNext, Registered, Listed, Cyclic
  <1>4. todo' = [todo EXCEPT ![n] = graph[n]]
    BY DEF VisitNext
  <1>5. OrderTypeOK'
    BY <1>1, <1>2, <1>3, <1>4 DEF OrderTypeOK
  <1>6. PathIsChain'
    BY <1>1, <1>2, <1>3 DEF PathIsChain, Once
  <1>7. NothingForgotten'
    BY <1>1, <1>2, <1>3, <1>4 DEF NothingForgotten, OrderTypeOK
  <1>8. DependenciesFirst' /\ AnswerIsRight'
    BY <1>3 DEF DependenciesFirst, AnswerIsRight, Once
  <1>9. QED
    BY <1>5, <1>6, <1>7, <1>8

(* The path up to the dependency that is found on it is the circle.        *)
LEMMA FindCycleStep ==
    ASSUME OrderInv, NEW d \in Name, FindCycle(d)
    PROVE  OrderInv'
  <1> USE DEF OrderInv
  <1>1. /\ UNCHANGED <<graph, path, todo, resolved>> /\ answer' = "cycle"
        /\ Registered' = Registered /\ Listed(resolved)' = Listed(resolved)
        /\ Listed(path)' = Listed(path) /\ Cyclic' = Cyclic
    BY DEF FindCycle, Registered, Listed, Cyclic
  <1>2. /\ path # <<>> /\ d \in todo[Top] /\ d \in Listed(path)
    BY DEF FindCycle
  <1>3. Len(path) \in Nat \ {0} /\ DOMAIN path = 1 .. Len(path)
    BY <1>2 DEF OrderTypeOK
  <1>4. d \in graph[Top]
    BY <1>2, <1>3 DEF NothingForgotten, Top
  <1>5. ASSUME NEW m \in Listed(path)
        PROVE  graph[m] \cap Listed(path) # {}
    <2>1. PICK i \in 1 .. Len(path) : m = path[i]
      BY <1>3 DEF Listed
    <2>2. CASE i = Len(path)
      BY <1>2, <1>4, <2>1, <2>2 DEF Top
    <2>3. CASE i < Len(path)
      <3>1. i + 1 \in 1 .. Len(path) /\ i \in 1 .. Len(path) - 1
        BY <1>3, <2>3
      <3>2. path[i + 1] \in graph[m] /\ path[i + 1] \in Listed(path)
        BY <1>3, <2>1, <3>1 DEF PathIsChain, Listed
      <3>3. QED
        BY <3>2
    <2>4. i = Len(path) \/ i < Len(path)
      <3>1. \A k \in Nat : \A j \in 1 .. k : j = k \/ j < k
        OBVIOUS
      <3>2. Len(path) \in Nat
        BY <1>3
      <3>3. QED
        BY <2>1, <3>1, <3>2
    <2>5. QED
      BY <2>2, <2>3, <2>4
  <1>6. Listed(path) \in (SUBSET Registered) \ {{}}
    BY <1>2 DEF PathIsChain
  <1>7. Cyclic
    BY <1>5, <1>6 DEF Cyclic
  <1>8. OrderTypeOK' /\ PathIsChain' /\ NothingForgotten' /\ DependenciesFirst'
    BY <1>1 DEF OrderTypeOK, PathIsChain, NothingForgotten, DependenciesFirst,
                Once
  <1>9. AnswerIsRight'
    BY <1>1, <1>7 DEF AnswerIsRight
  <1>10. QED
    BY <1>8, <1>9

LEMMA SkipStep ==
    ASSUME OrderInv, NEW d \in Name, Skip(d)
    PROVE  OrderInv'
  <1> USE DEF OrderInv
  <1>1. /\ UNCHANGED <<graph, path, resolved, answer>>
        /\ Registered' = Registered /\ Listed(resolved)' = Listed(resolved)
        /\ Listed(path)' = Listed(path) /\ Cyclic' = Cyclic
    BY DEF Skip, Registered, Listed, Cyclic
  <1>2. /\ path # <<>>
        /\ d \in Listed(resolved) \/ d \notin Registered
        /\ todo' = [todo EXCEPT ![Top] = @ \ {d}]
    BY DEF Skip
  <1>3. Top \in Name /\ Len(path) \in Nat
    BY <1>2, TopOfPath DEF Skip
  <1>4. OrderTypeOK'
    BY <1>1, <1>2, <1>3 DEF OrderTypeOK
  <1>5. PathIsChain' /\ DependenciesFirst' /\ AnswerIsRight'
    BY <1>1 DEF PathIsChain, DependenciesFirst, AnswerIsRight, Once
  <1>6. ASSUME NEW m \in Name
        PROVE  /\ todo'[m] \subseteq todo[m]
               /\ \A e \in todo[m] : e \in todo'[m] \/ e = d
    BY <1>2, <1>3 DEF OrderTypeOK
  <1>7. NothingForgotten'
    <2> SUFFICES ASSUME NEW i \in 1 .. Len(path)
                 PROVE  /\ todo'[path[i]] \subseteq graph[path[i]]
                        /\ \A e \in graph[path[i]] \cap Registered :
                             \/ e \in todo'[path[i]]
                             \/ e \in Listed(resolved)
                             \/ i < Len(path) /\ path[i + 1] = e
      BY <1>1 DEF NothingForgotten
    <2>1. path[i] \in Name
      BY DEF OrderTypeOK
    <2>2. QED
      BY <1>2, <1>6, <2>1 DEF NothingForgotten, Skip
  <1>8. QED
    BY <1>4, <1>5, <1>7

LEMMA DescendStep ==
    ASSUME OrderInv, NEW d \in Name, Descend(d)
    PROVE  OrderInv'
  <1> USE DEF OrderInv
  <1>1. /\ UNCHANGED <<graph, resolved, answer>> /\ Registered' = Registered
        /\ Listed(resolved)' = Listed(resolved) /\ Cyclic' = Cyclic
    BY DEF Descend, Registered, Listed, Cyclic
  <1>2. /\ path # <<>> /\ d \in todo[Top]
        /\ d \in Registered \ (Listed(path) \cup Listed(resolved))
        /\ path' = Append(path, d)
        /\ todo' = [todo EXCEPT ![Top] = @ \ {d}, ![d] = graph[d]]
    BY DEF Descend
  <1>2a. path \in Seq(Name) /\ Once(path)
    BY DEF OrderTypeOK, PathIsChain
  <1>3. /\ path' \in Seq(Name) /\ Len(path') = Len(path) + 1
        /\ \A i \in 1 .. Len(path) : path'[i] = path[i]
        /\ path'[Len(path) + 1] = d
        /\ Listed(path') = Listed(path) \cup {d}
        /\ Once(path')
    BY <1>2, <1>2a, ListedAppend
  <1>4. /\ Len(path) \in Nat \ {0} /\ Top \in Name /\ Top \in Listed(path)
        /\ Top = path[Len(path)]
        /\ \A i \in 1 .. Len(path) - 1 : path[i] # Top
    BY <1>2, TopOfPath DEF Top
  <1>5. d # Top /\ d \in graph[Top] /\ graph[d] \subseteq Name
    BY <1>2, <1>4 DEF NothingForgotten, OrderTypeOK
  <1>6. /\ todo'[d] = graph[d] /\ todo'[Top] = todo[Top] \ {d}
        /\ \A m \in Name \ {d, Top} : todo'[m] = todo[m]
        /\ todo' \in [Name -> SUBSET Name]
    BY <1>2, <1>4, <1>5 DEF OrderTypeOK
  <1>7. OrderTypeOK'
    BY <1>1, <1>3, <1>6 DEF OrderTypeOK
  <1>8. PathIsChain'
    <2>1. ASSUME NEW i \in 1 .. Len(path') - 1
          PROVE  path'[i + 1] \in graph[path'[i]]
      <3>1. CASE i = Len(path)
        BY <1>3, <1>4, <1>5, <3>1
      <3>2. CASE i < Len(path)
        <4>1. i \in 1 .. Len(path) - 1 /\ i + 1 \in 1 .. Len(path)
              /\ i \in 1 .. Len(path)
          BY <1>4, <3>2
        <4>2. QED
          BY <1>3, <4>1 DEF PathIsChain
      <3>3. QED
        BY <1>3, <1>4, <3>1, <3>2
    <2>2. QED
      BY <1>1, <1>2, <1>3, <2>1 DEF PathIsChain
  <1>9. NothingForgotten'
    <2> SUFFICES ASSUME NEW i \in 1 .. Len(path')
                 PROVE  /\ todo'[path'[i]] \subseteq graph[path'[i]]
                        /\ \A e \in graph[path'[i]] \cap Registered :
                             \/ e \in todo'[path'[i]]
                             \/ e \in Listed(resolved)
                             \/ i < Len(path') /\ path'[i + 1] = e
      BY <1>1 DEF NothingForgotten
    <2>1. CASE i = Len(path) + 1
      BY <1>3, <1>6, <2>1
    <2>2. CASE i = Len(path)
      <3>1. path'[i] = Top /\ path'[i + 1] = d /\ i < Len(path')
        BY <1>3, <1>4, <2>2
      <3>2. /\ todo[Top] \subseteq graph[Top]
            /\ \A e \in graph[Top] \cap Registered :
                 e \in todo[Top] \/ e \in Listed(resolved)
        BY <1>4 DEF NothingForgotten
      <3>3. QED
        BY <1>6, <3>1, <3>2
    <2>3. CASE i < Len(path)
      <3>1. i \in 1 .. Len(path) - 1 /\ i \in 1 .. Len(path)
            /\ i + 1 \in 1 .. Len(path) /\ i < Len(path')
        BY <1>3, <1>4, <2>3
      <3>2. path'[i] = path[i] /\ path'[i + 1] = path[i + 1]
        BY <1>3, <3>1
      <3>3. path[i] \in Name \ {d, Top}
        <4>1. path[i] \in Listed(path) /\ path[i] \in Name
          BY <3>1 DEF Listed, OrderTypeOK
        <4>2. QED
          BY <1>2, <1>4, <3>1, <4>1
      <3>4. todo'[path[i]] = todo[path[i]]
        BY <1>6, <3>3
      <3>5. QED
        BY <3>1, <3>2, <3>4 DEF NothingForgotten
    <2>4. QED
      BY <1>3, <1>4, <2>1, <2>2, <2>3
  <1>10. DependenciesFirst' /\ AnswerIsRight'
    BY <1>1 DEF DependenciesFirst, AnswerIsRight, Once
  <1>11. QED
    BY <1>7, <1>8, <1>9, <1>10

(* The visit has nothing left to visit, so all it depends on is resolved.  *)
LEMMA ResolveStep ==
    ASSUME OrderInv, Resolve
    PROVE  OrderInv'
  <1> USE DEF OrderInv
  <1>1. /\ UNCHANGED <<graph, todo, answer>> /\ Registered' = Registered
        /\ Cyclic' = Cyclic /\ answer = "none"
    BY DEF Resolve, Registered, Cyclic
  <1>2. /\ path # <<>> /\ todo[Top] = {}
        /\ resolved' = Append(resolved, Top)
        /\ path' = SubSeq(path, 1, Len(path) - 1)
    BY DEF Resolve
  <1>3. /\ Len(path) \in Nat \ {0} /\ Top \in Name /\ Top \in Registered
        /\ Top = path[Len(path)] /\ Top \notin Listed(resolved)
    BY <1>2, TopOfPath DEF Top
  <1>2a. path \in Seq(Name) /\ Once(path) /\ resolved \in Seq(Name) /\ Once(resolved)
    BY DEF OrderTypeOK, PathIsChain, DependenciesFirst
  <1>4. /\ resolved' \in Seq(Name) /\ Len(resolved') = Len(resolved) + 1
        /\ \A i \in 1 .. Len(resolved) : resolved'[i] = resolved[i]
        /\ resolved'[Len(resolved) + 1] = Top
        /\ Listed(resolved') = Listed(resolved) \cup {Top}
        /\ Once(resolved')
    BY <1>2, <1>3, <1>2a, ListedAppend
  <1>5. /\ path' \in Seq(Name) /\ Len(path') = Len(path) - 1
        /\ \A i \in 1 .. Len(path) - 1 : path'[i] = path[i]
        /\ Listed(path') = Listed(path) \ {Top}
        /\ Once(path')
    BY <1>2, <1>3, <1>2a, ListedFront
  <1>6. OrderTypeOK'
    BY <1>1, <1>4, <1>5 DEF OrderTypeOK
  <1>7. PathIsChain'
    <2>1. ASSUME NEW i \in 1 .. Len(path') - 1
          PROVE  path'[i + 1] \in graph[path'[i]]
      <3>1. i \in 1 .. Len(path) - 1 /\ i + 1 \in 1 .. Len(path) - 1
        BY <1>3, <1>5
      <3>2. QED
        BY <1>5, <3>1 DEF PathIsChain
    <2>2. QED
      BY <1>1, <1>4, <1>5, <2>1 DEF PathIsChain
  <1>8. NothingForgotten'
    <2> SUFFICES ASSUME NEW i \in 1 .. Len(path')
                 PROVE  /\ todo[path'[i]] \subseteq graph[path'[i]]
                        /\ \A e \in graph[path'[i]] \cap Registered :
                             \/ e \in todo[path'[i]]
                             \/ e \in Listed(resolved')
                             \/ i < Len(path') /\ path'[i + 1] = e
      BY <1>1 DEF NothingForgotten
    <2>1. i \in 1 .. Len(path) - 1 /\ i \in 1 .. Len(path) /\ path'[i] = path[i]
      BY <1>3, <1>5
    <2>2. CASE i = Len(path) - 1
      <3>1. path[i + 1] = Top
        BY <1>3, <2>1, <2>2
      <3>2. QED
        BY <1>4, <2>1, <3>1 DEF NothingForgotten
    <2>3. CASE i < Len(path) - 1
      <3>1. i + 1 \in 1 .. Len(path) - 1 /\ i < Len(path')
        BY <1>3, <1>5, <2>1, <2>3
      <3>2. path'[i + 1] = path[i + 1]
        BY <1>5, <3>1
      <3>3. QED
        BY <1>4, <2>1, <3>1, <3>2 DEF NothingForgotten
    <2>4. QED
      BY <1>3, <2>1, <2>2, <2>3
  <1>9. DependenciesFirst'
    <2>1. \A d \in graph[Top] \cap Registered : d \in Listed(resolved)
      BY <1>2, <1>3 DEF NothingForgotten
    <2>2. ASSUME NEW i \in 1 .. Len(resolved'),
                 NEW d \in graph[resolved'[i]] \cap Registered
          PROVE  \E j \in 1 .. i - 1 : resolved'[j] = d
      <3>0. Len(resolved) \in Nat /\ DOMAIN resolved = 1 .. Len(resolved)
        BY DEF OrderTypeOK
      <3>1. CASE i = Len(resolved) + 1
        <4>1. PICK j \in 1 .. Len(resolved) : resolved[j] = d
          BY <1>4, <2>1, <3>0, <3>1 DEF Listed
        <4>2. j \in 1 .. i - 1 /\ resolved'[j] = d
          BY <1>4, <3>0, <3>1, <4>1
        <4>3. QED
          BY <4>2
      <3>2. CASE i \in 1 .. Len(resolved)
        <4>1. PICK j \in 1 .. i - 1 : resolved[j] = d
          BY <1>4, <3>2 DEF DependenciesFirst
        <4>2. resolved'[j] = d
          BY <1>4, <3>0, <3>2, <4>1
        <4>3. QED
          BY <4>2
      <3>3. QED
        BY <1>4, <3>0, <3>1, <3>2
    <2>3. QED
      BY <1>1, <1>3, <1>4, <2>2 DEF DependenciesFirst
  <1>10. AnswerIsRight'
    BY <1>1 DEF AnswerIsRight
  <1>11. QED
    BY <1>6, <1>7, <1>8, <1>9, <1>10

LEMMA ReturnStep ==
    ASSUME OrderInv, Return
    PROVE  OrderInv'
  <1> USE DEF OrderInv
  <1>1. /\ UNCHANGED <<graph, path, todo, resolved>> /\ answer' = "order"
        /\ Registered' = Registered /\ Listed(resolved)' = Listed(resolved)
        /\ Listed(path)' = Listed(path) /\ Registered \subseteq Listed(resolved)
    BY DEF Return, Registered, Listed
  <1>2. QED
    BY <1>1 DEF OrderTypeOK, PathIsChain, NothingForgotten, DependenciesFirst,
                AnswerIsRight, Once

LEMMA InvStutter ==
    ASSUME OrderInv, UNCHANGED orderVars
    PROVE  OrderInv'
  BY DEF OrderInv, OrderTypeOK, PathIsChain, NothingForgotten,
         DependenciesFirst, AnswerIsRight, Once, Registered, Listed, Cyclic,
         orderVars

LEMMA InvHolds == OrderSpec => []OrderInv
  <1>1. OrderInv /\ [OrderNext]_orderVars => OrderInv'
    <2> SUFFICES ASSUME OrderInv, [OrderNext]_orderVars PROVE OrderInv'
      OBVIOUS
    <2>1. CASE \E n \in Name : VisitNext(n)
      BY <2>1, VisitNextStep
    <2>2. CASE \E d \in Name : FindCycle(d) \/ Skip(d) \/ Descend(d)
      BY <2>2, FindCycleStep, SkipStep, DescendStep
    <2>3. CASE Resolve
      BY <2>3, ResolveStep
    <2>4. CASE Return
      BY <2>4, ReturnStep
    <2>5. CASE UNCHANGED orderVars
      BY <2>5, InvStutter
    <2>6. QED
      BY <2>1, <2>2, <2>3, <2>4, <2>5 DEF OrderNext
  <1>2. QED
    BY InvInit, <1>1, PTL DEF OrderSpec

(* resolve_load_order() returns every registered extension once, after     *)
(* what it depends on, and raises only for circular dependencies.          *)
THEOREM OrderIsRightHolds == OrderSpec => []OrderIsRight
  <1>1. OrderInv => OrderIsRight
    <2> SUFFICES ASSUME OrderInv PROVE OrderIsRight
      OBVIOUS
    <2>1. DOMAIN resolved = 1 .. Len(resolved)
      BY DEF OrderInv, OrderTypeOK
    <2>2. answer = "order" => Listed(resolved) = Registered
      BY DEF OrderInv, DependenciesFirst, AnswerIsRight
    <2>3. QED
      BY <2>1, <2>2 DEF OrderInv, OrderIsRight, DependenciesFirst,
                        AnswerIsRight, Once
  <1>2. QED
    BY InvHolds, <1>1, PTL
-----------------------------------------------------------------------------
(* ExtensionManager                                                        *)
Status == {"unloaded", "loading", "initializing", "active", "deactivating",
           "deactivated", "disposed", "error"}

Calls ==
    [op : {"none", "load", "load_to_activate", "activate", "deactivate",
           "unload", "shutdown"},
     x  : Extension \cup {"none"},
     o  : Nat,
     at : {"none", "waits", "loading", "reloading", "activating",
           "deactivating", "disposing"}]

ManagerTypes ==
    /\ DOMAIN listed \subseteq Extension
    /\ listed = [x \in DOMAIN listed |-> listed[x]]
    /\ \A x \in DOMAIN listed : listed[x] \in 1 .. objects
    /\ order \in Seq(Extension)
    /\ objects \in Nat
    /\ status \in [Object -> Status]
    /\ doing \in [Task -> Calls]
    /\ stopping.index \in Nat

(* Which hook a call may be awaiting, and for what.                        *)
BusyCall(c) == c.at \notin {"none", "waits"}
LockedCall(c) == c.op \in Loads \cup {"unload"} /\ BusyCall(c)
Fits(c) ==
    /\ c.at = "none" <=> c.op = "none"
    /\ c.at = "waits" => c.op \in Loads \cup {"unload"}
    /\ c.at = "loading" => c.op \in Loads
    /\ c.at = "reloading" => c.op = "activate"
    /\ c.at = "activating" => c.op \in Loads \cup {"activate"}
    /\ c.at = "deactivating" => c.op \in {"deactivate", "unload", "shutdown"}
    /\ c.at = "disposing" => c.op \in {"unload", "shutdown"}
    /\ c.at # "none" => c.x \in Extension
    /\ BusyCall(c) => c.o \in 1 .. objects

CallsFit ==
    /\ \A t \in Task : Fits(doing[t])
    /\ \A t \in Task : LockedCall(doing[t]) => holder = t

OneShutdown ==
    /\ \A s, t \in Task :
         doing[s].op = "shutdown" /\ doing[t].op = "shutdown" => s = t
    /\ initialized => \A t \in Task : doing[t].op # "shutdown"
    /\ (\A t \in Task : doing[t].op # "shutdown") => stopping.seen = {}

(* An object belongs to one extension.                                     *)
Owners ==
    /\ \A x, y \in DOMAIN listed : listed[x] = listed[y] => x = y
    /\ \A t \in Task, x \in DOMAIN listed :
         BusyCall(doing[t]) /\ doing[t].o = listed[x] => doing[t].x = x
    /\ \A s, t \in Task :
         BusyCall(doing[s]) /\ BusyCall(doing[t]) /\ doing[s].o = doing[t].o
           => doing[s].x = doing[t].x

Excused == Overlap \subseteq overlapped

Found(x, o) == x \in DOMAIN listed /\ listed[x] = o
Settled(o) == o \in overlapped \/ o \notin Object
Quiet(o) == o \in overlapped \/ o \notin Object \/ status[o] # "active"

(* What is being activated is in the tables; what a load will replace, or  *)
(* shutdown() has dealt with, is not active; and unload_extension() takes  *)
(* out the object it has disposed of.                                      *)
ActivatesListed ==
    \A t \in Task : doing[t].at \in {"reloading", "activating"} =>
      Found(doing[t].x, doing[t].o) \/ Settled(doing[t].o)

LoadReplacesQuiet ==
    \A t \in Task : doing[t].at = "loading" /\ doing[t].x \in DOMAIN listed =>
      Quiet(listed[doing[t].x])

SeenIsQuiet == \A x \in stopping.seen \cap DOMAIN listed : Quiet(listed[x])

UnloadsListed ==
    \A t \in Task :
      doing[t].op = "unload" /\ BusyCall(doing[t])
        => Found(doing[t].x, doing[t].o) \/ doing[t].x \notin DOMAIN listed

DisposedIsExcused ==
    \A t \in Task : Activating(t) /\ doing[t].o \in Object =>
      doing[t].o \in overlapped \/ status[doing[t].o] # "disposed"

ManagerInv ==
    /\ ManagerTypes /\ CallsFit /\ OneShutdown /\ Owners /\ Excused
    /\ ActivatesListed /\ LoadReplacesQuiet /\ SeenIsQuiet
    /\ UnloadsListed /\ DisposedIsExcused
    /\ ActiveIsListed

LEMMA ManagerInitInv == ManagerInit => ManagerInv
<1> SUFFICES ASSUME ManagerInit PROVE ManagerInv
  OBVIOUS
<1> USE DEF ManagerInit
<1>1. \A t \in Task : doing[t] = Idle
  OBVIOUS
<1>2. ManagerTypes
  BY DEF ManagerTypes, NothingListed, Status, Calls, Idle, NotStopping
<1>3. CallsFit
  BY <1>1 DEF CallsFit, Fits, BusyCall, LockedCall, Idle
<1>4. OneShutdown
  BY <1>1 DEF OneShutdown, Idle, NotStopping
<1>5. Owners
  BY <1>1 DEF Owners, BusyCall, Idle, NothingListed
<1>6. Excused
  BY <1>1 DEF Excused, Overlap, Activating, Idle
<1>7. ActivatesListed /\ LoadReplacesQuiet /\ UnloadsListed
      /\ DisposedIsExcused
  BY <1>1 DEF ActivatesListed, LoadReplacesQuiet, UnloadsListed,
              DisposedIsExcused, Activating, Idle
<1>8. SeenIsQuiet
  BY DEF SeenIsQuiet, NotStopping
<1>9. ActiveIsListed
  BY DEF ActiveIsListed
<1> QED
  BY <1>2, <1>3, <1>4, <1>5, <1>6, <1>7, <1>8, <1>9 DEF ManagerInv

-----------------------------------------------------------------------------
QuietNext(o) == o \in overlapped' \/ o \notin Object \/ status'[o] # "active"
FoundNext(x, o) == x \in DOMAIN listed' /\ listed'[x] = o

(* A step of task t, which goes on with call c.  Only the hook of the task *)
(* itself makes an object active or disposed of.                           *)
StatusMoves(t, st) ==
    /\ st \in [Object -> Status]
    /\ \A o \in Object :
         /\ st[o] = "active" => \/ status[o] = "active"
                                \/ o = doing[t].o /\ doing[t].at = "activating"
         /\ st[o] = "disposed" => \/ status[o] = "disposed"
                                  \/ o = doing[t].o /\ doing[t].at = "disposing"

CallMoves(t, c) ==
    /\ c \in Calls
    /\ doing' = [doing EXCEPT ![t] = c]
    /\ Fits(c)'
    /\ LockedCall(c) => holder' = t
    /\ holder' = holder \/ holder \in {"nobody", t}
    /\ StatusMoves(t, status')
    /\ objects' \in Nat /\ objects' >= objects
    /\ Records
    /\ BusyCall(c) => \/ BusyCall(doing[t]) /\ c.o = doing[t].o
                                            /\ c.x = doing[t].x
                      \/ Found(c.x, c.o)
                      \/ c.o > objects
    /\ c.at \in {"reloading", "activating"} => Found(c.x, c.o)'
                                               \/ Settled(c.o)
    /\ c.at \in {"loading", "reloading", "activating"} /\ c.o \in Object =>
         status'[c.o] \notin {"active", "disposed"}
    /\ c.at = "loading" =>
         UNCHANGED listed /\ (c.x \in DOMAIN listed => QuietNext(listed[c.x]))
    /\ c.op = "unload" /\ BusyCall(c) =>
         (Found(c.x, c.o) \/ c.x \notin DOMAIN listed)'

ShutdownMoves(t, c) ==
    /\ initialized' => initialized
    /\ c.op = "shutdown" =>
         doing[t].op = "shutdown" \/ (initialized /\ ~initialized')
    /\ stopping' = stopping \/ stopping'.seen = {} \/ c.op = "shutdown"
    /\ doing[t].op = "shutdown" /\ c.op # "shutdown" => stopping'.seen = {}
    /\ stopping'.index \in Nat
    /\ \A x \in stopping'.seen \cap DOMAIN listed' :
         x \in stopping.seen \/ QuietNext(listed'[x])

(* What the tables lose is not active any more, nor being activated, but   *)
(* for what is excused; what they gain is what the task has loaded.        *)
TablesMove(t, c) ==
    /\ DOMAIN listed' \subseteq Extension
    /\ listed' = [x \in DOMAIN listed' |-> listed'[x]]
    /\ order' \in Seq(Extension)
    /\ \A x \in DOMAIN listed : \/ FoundNext(x, listed[x])
                                \/ /\ QuietNext(listed[x])
                                   /\ \A s \in Task \ {t} :
                                        Activating(s) /\ doing[s].o = listed[x]
                                          => Settled(listed[x])
    /\ \A x \in DOMAIN listed' : \/ Found(x, listed'[x])
                                 \/ /\ doing[t].at = "loading"
                                    /\ c.at = "activating"
                                    /\ c.o = doing[t].o /\ c.x = doing[t].x
                                    /\ x = c.x /\ listed'[x] = c.o

(* An activation beside a call that takes out or replaces is recorded.     *)
LEMMA ExcusedIs ==
    ASSUME ManagerInv, NEW s \in Task, NEW t \in Task, s # t,
           Activating(s), TakesOut(t, doing[s].x)
    PROVE  doing[s].o \in overlapped
  BY DEF ManagerInv, Excused, Overlap

LEMMA StepKeeps ==
    ASSUME ManagerInv, LockAssumption, NEW t \in Task, NEW c,
           CallMoves(t, c), ShutdownMoves(t, c), TablesMove(t, c)
    PROVE  ManagerInv'
<1>1. /\ doing'[t] = c
      /\ \A s \in Task \ {t} : doing'[s] = doing[s]
      /\ doing \in [Task -> Calls] /\ doing' \in [Task -> Calls]
  BY DEF ManagerInv, ManagerTypes, CallMoves
<1>2. /\ overlapped \subseteq overlapped' /\ Overlap' \subseteq overlapped'
      /\ objects \in Nat /\ objects' \in Nat /\ objects <= objects'
  BY DEF CallMoves, Records, ManagerInv, ManagerTypes
<1>3. StatusMoves(t, status')
  BY DEF CallMoves
<1>4. ManagerTypes'
  <2>1. \A x \in DOMAIN listed' : listed'[x] \in 1 .. objects'
    <3>1. SUFFICES ASSUME NEW x \in DOMAIN listed'
                   PROVE  listed'[x] \in 1 .. objects'
      OBVIOUS
    <3>2. CASE Found(x, listed'[x])
      BY <1>2, <3>2 DEF Found, ManagerInv, ManagerTypes
    <3>3. CASE doing[t].at = "loading" /\ listed'[x] = c.o /\ c.o = doing[t].o
      <4>1. doing[t].o \in 1 .. objects
        BY <3>3 DEF ManagerInv, CallsFit, Fits, BusyCall
      <4> QED
        BY <1>2, <3>3, <4>1
    <3> QED
      BY <3>2, <3>3 DEF TablesMove
  <2> QED
    BY <1>1, <1>2, <1>3, <2>1
    DEF ManagerTypes, TablesMove, ShutdownMoves, StatusMoves
<1>5. CallsFit'
  <2>1. \A s \in Task : Fits(doing[s])' 
    <3>1. Fits(doing[t])'
      BY <1>1 DEF CallMoves, Fits, BusyCall
    <3>2. ASSUME NEW s \in Task \ {t} PROVE Fits(doing[s])'
      <4>1. Fits(doing[s])
        BY DEF ManagerInv, CallsFit
      <4> QED
        BY <1>1, <1>2, <4>1 DEF Fits, BusyCall
    <3> QED
      BY <3>1, <3>2
  <2>2. \A s \in Task : LockedCall(doing'[s]) => holder' = s
    <3>1. ASSUME NEW s \in Task \ {t}, LockedCall(doing'[s])
          PROVE  holder' = s
      <4>1. holder = s
        BY <1>1, <3>1 DEF ManagerInv, CallsFit
      <4> QED
        BY <4>1 DEF CallMoves, LockAssumption
    <3> QED
      BY <1>1, <3>1 DEF CallMoves
  <2> QED
    BY <2>1, <2>2 DEF CallsFit, LockedCall, BusyCall
<1>6. OneShutdown'
  <2>1. OneShutdown
    BY DEF ManagerInv
  <2>2. \A s \in Task : doing'[s].op = "shutdown" =>
          \/ doing[s].op = "shutdown"
          \/ s = t /\ initialized /\ ~initialized'
    BY <1>1 DEF ShutdownMoves
  <2>3. \A r, s \in Task :
          doing'[r].op = "shutdown" /\ doing'[s].op = "shutdown" => r = s
    BY <2>1, <2>2 DEF OneShutdown
  <2>4. initialized' => \A s \in Task : doing'[s].op # "shutdown"
    BY <2>1, <2>2 DEF OneShutdown, ShutdownMoves
  <2>5. (\A s \in Task : doing'[s].op # "shutdown") => stopping'.seen = {}
    <3>1. SUFFICES ASSUME \A s \in Task : doing'[s].op # "shutdown"
                   PROVE  stopping'.seen = {}
      OBVIOUS
    <3>2. c.op # "shutdown"
      BY <1>1, <3>1
    <3>3. CASE doing[t].op = "shutdown"
      BY <3>2, <3>3 DEF ShutdownMoves
    <3>4. CASE doing[t].op # "shutdown"
      <4>1. \A s \in Task : doing[s].op # "shutdown"
        BY <1>1, <3>1, <3>4
      <4> QED
        BY <2>1, <3>2, <4>1 DEF OneShutdown, ShutdownMoves
    <3> QED
      BY <3>3, <3>4
  <2> QED
    BY <2>3, <2>4, <2>5 DEF OneShutdown
(* Another task that holds the lock does not do so beside a load.          *)
<1>7. \A x \in DOMAIN listed' : Found(x, listed'[x]) \/
        /\ x = doing[t].x /\ listed'[x] = doing[t].o
        /\ doing[t].at = "loading" /\ BusyCall(doing[t])
        /\ c.at = "activating" /\ c.o = listed'[x]
  BY DEF TablesMove, BusyCall
<1>8. doing[t].at = "loading" =>
        \A s \in Task \ {t} : ~LockedCall(doing[s])
  BY DEF ManagerInv, CallsFit, Fits, LockedCall, BusyCall
<1>9. Owners'
  <2>1. Owners
    BY DEF ManagerInv
  <2>2. \A x \in DOMAIN listed : listed[x] \in 1 .. objects
    BY DEF ManagerInv, ManagerTypes
  <2>3. \A s \in Task : BusyCall(doing[s]) => doing[s].o \in 1 .. objects
    BY DEF ManagerInv, CallsFit, Fits
  <2>4. \A x, y \in DOMAIN listed' : listed'[x] = listed'[y] => x = y
    BY <1>7, <2>1 DEF Owners, Found
  <2>5. BusyCall(c) => /\ \A x \in DOMAIN listed' : c.o = listed'[x] => c.x = x
                       /\ \A s \in Task \ {t} :
                            BusyCall(doing[s]) /\ doing[s].o = c.o
                              => doing[s].x = c.x
    <3>1. SUFFICES ASSUME BusyCall(c)
                   PROVE  /\ \A x \in DOMAIN listed : c.o = listed[x] => c.x = x
                          /\ \A s \in Task \ {t} :
                               BusyCall(doing[s]) /\ doing[s].o = c.o
                                 => doing[s].x = c.x
      BY DEF TablesMove, Found
    <3>2. CASE BusyCall(doing[t]) /\ c.o = doing[t].o /\ c.x = doing[t].x
      BY <2>1, <3>2 DEF Owners
    <3>3. CASE Found(c.x, c.o)
      BY <2>1, <3>3 DEF Owners, Found
    <3>4. CASE c.o > objects
      BY <1>2, <2>2, <2>3, <3>4
    <3> QED
      BY <3>1, <3>2, <3>3, <3>4 DEF CallMoves
  <2>6. \A s \in Task \ {t}, x \in DOMAIN listed' :
          BusyCall(doing[s]) /\ doing[s].o = listed'[x] => doing[s].x = x
    BY <1>7, <2>1 DEF Owners, Found
  <2>7. \A s \in Task, x \in DOMAIN listed' :
          BusyCall(doing'[s]) /\ doing'[s].o = listed'[x] => doing'[s].x = x
    BY <1>1, <2>5, <2>6
  <2>8. \A r, s \in Task : BusyCall(doing'[r]) /\ BusyCall(doing'[s])
          /\ doing'[r].o = doing'[s].o => doing'[r].x = doing'[s].x
    BY <1>1, <2>1, <2>5 DEF Owners
  <2> QED
    BY <2>4, <2>7, <2>8 DEF Owners, BusyCall
<1>10. Excused'
  BY <1>2 DEF Excused
(* An object that the step activates is in the tables, or excused.         *)
<1>11. \A o \in Object : status'[o] = "active" =>
         \/ status[o] = "active" 
         \/ /\ o = doing[t].o /\ doing[t].at = "activating"
            /\ o \in overlapped \/ Found(doing[t].x, o)
  BY <1>3 DEF StatusMoves, ManagerInv, ActivatesListed, Settled
(* An object in the tables is not activated beside a call that will take   *)
(* it out, unless it is excused.                                           *)
<1>12. ASSUME NEW s \in Task \ {t}, NEW x \in DOMAIN listed, NEW o,
              o = listed[x], TakesOut(s, x), Quiet(o)
       PROVE  QuietNext(o)
  <2>1. SUFFICES ASSUME o \in Object, o \notin overlapped,
                        status'[o] = "active"
                 PROVE  FALSE
    BY <1>2 DEF QuietNext
  <2>2. o = doing[t].o /\ doing[t].at = "activating"
    BY <1>11, <1>12, <2>1 DEF Quiet
  <2>3. doing[t].x = x
    BY <1>12, <2>2 DEF ManagerInv, Owners, BusyCall
  <2> QED
    BY <1>12, <2>1, <2>2, <2>3, ExcusedIs DEF Activating
<1>13. ActivatesListed'
  <2>1. ASSUME NEW s \in Task \ {t},
               doing[s].at \in {"reloading", "activating"}
        PROVE  FoundNext(doing[s].x, doing[s].o) \/ Settled(doing[s].o)
    <3>1. Found(doing[s].x, doing[s].o) \/ Settled(doing[s].o)
      BY <2>1 DEF ManagerInv, ActivatesListed
    <3> QED
      BY <2>1, <3>1 DEF TablesMove, Found, Activating
  <2>2. c.at \in {"reloading", "activating"} =>
          FoundNext(c.x, c.o) \/ Settled(c.o)
    BY DEF CallMoves, Found, FoundNext
  <2>3. \A o : Settled(o) => o \in overlapped' \/ o \notin Object
    BY <1>2 DEF Settled
  <2> QED
    BY <1>1, <2>1, <2>2, <2>3 DEF ActivatesListed, Found, FoundNext, Settled
<1>14. LoadReplacesQuiet'
  <2>1. ASSUME NEW s \in Task \ {t}, doing[s].at = "loading",
               doing[s].x \in DOMAIN listed'
        PROVE  QuietNext(listed'[doing[s].x])
    <3>1. doing[s].op \in Loads /\ LockedCall(doing[s])
      BY <2>1 DEF ManagerInv, CallsFit, Fits, LockedCall, BusyCall
    <3>2. Found(doing[s].x, listed'[doing[s].x])
      BY <1>7, <1>8, <2>1, <3>1
    <3>3. Quiet(listed[doing[s].x])
      BY <2>1, <3>2 DEF ManagerInv, LoadReplacesQuiet, Found
    <3>4. TakesOut(s, doing[s].x)
      BY <2>1, <3>1 DEF TakesOut
    <3> QED
      BY <1>12, <3>2, <3>3, <3>4 DEF Found
  <2>2. c.at = "loading" /\ c.x \in DOMAIN listed' => QuietNext(listed'[c.x])
    BY DEF CallMoves
  <2> QED
    BY <1>1, <2>1, <2>2 DEF LoadReplacesQuiet, Quiet, QuietNext
<1>15. SeenIsQuiet'
  <2>1. ASSUME NEW x \in stopping'.seen \cap DOMAIN listed'
        PROVE  QuietNext(listed'[x])
    <3>1. CASE x \notin stopping.seen
      BY <3>1 DEF ShutdownMoves
    <3>2. CASE x \in stopping.seen /\ Found(x, listed'[x])
      <4>1. PICK s \in Task : doing[s].op = "shutdown"
        BY <3>2 DEF ManagerInv, OneShutdown
      <4>2. Quiet(listed[x])
        BY <3>2 DEF ManagerInv, SeenIsQuiet, Found
      <4>3. CASE s # t
        BY <1>12, <3>2, <4>1, <4>2, <4>3 DEF Found, TakesOut
      <4>4. CASE s = t
        <5>1. doing[t].at # "activating"
          BY <4>1, <4>4 DEF ManagerInv, CallsFit, Fits, Loads
        <5> QED
          BY <1>2, <1>11, <3>2, <4>2, <5>1 DEF Quiet, QuietNext, Found
      <4> QED
        BY <4>3, <4>4
    <3>3. CASE c.at = "activating" /\ c.o = listed'[x]
      BY <3>3 DEF CallMoves, QuietNext
    <3> QED
      BY <1>7, <3>1, <3>2, <3>3
  <2> QED
    BY <2>1 DEF SeenIsQuiet, Quiet, QuietNext
<1>16. UnloadsListed'
  <2>1. ASSUME NEW s \in Task \ {t}, doing[s].op = "unload",
               BusyCall(doing[s]), doing[s].x \in DOMAIN listed'
        PROVE  listed'[doing[s].x] = doing[s].o
    <3>1. LockedCall(doing[s])
      BY <2>1 DEF LockedCall
    <3>2. Found(doing[s].x, listed'[doing[s].x])
      BY <1>7, <1>8, <2>1, <3>1
    <3> QED
      BY <2>1, <3>2 DEF ManagerInv, UnloadsListed, Found
  <2>2. c.op = "unload" /\ BusyCall(c) =>
          FoundNext(c.x, c.o) \/ c.x \notin DOMAIN listed'
    BY DEF CallMoves, Found, FoundNext
  <2> QED
    BY <1>1, <2>1, <2>2 DEF UnloadsListed, Found, FoundNext, BusyCall
<1>17. DisposedIsExcused'
  <2>1. ASSUME NEW s \in Task \ {t}, Activating(s), doing[s].o \in Object,
               status'[doing[s].o] = "disposed"
        PROVE  doing[s].o \in overlapped
    <3>1. CASE status[doing[s].o] = "disposed"
      BY <2>1, <3>1 DEF ManagerInv, DisposedIsExcused
    <3>2. CASE doing[s].o = doing[t].o /\ doing[t].at = "disposing"
      <4>1. doing[s].x = doing[t].x
        BY <2>1, <3>2 DEF ManagerInv, Owners, BusyCall, Activating
      <4>2. TakesOut(t, doing[s].x)
        BY <3>2, <4>1 DEF ManagerInv, CallsFit, Fits, TakesOut
      <4> QED
        BY <2>1, <4>2, ExcusedIs
    <3> QED
      BY <1>3, <2>1, <3>1, <3>2 DEF StatusMoves
  <2>2. c.at \in {"loading", "reloading", "activating"} /\ c.o \in Object =>
          status'[c.o] # "disposed"
    BY DEF CallMoves
  <2> QED
    BY <1>1, <1>2, <2>1, <2>2 DEF DisposedIsExcused, Activating
<1>18. ActiveIsListed'
  <2>1. ASSUME NEW o \in Object, status'[o] = "active", o \notin overlapped'
        PROVE  \E x \in DOMAIN listed' : listed'[x] = o
    <3>1. PICK x \in DOMAIN listed : listed[x] = o
      BY <1>2, <1>11, <2>1 DEF ManagerInv, ActiveIsListed, Found
    <3> QED
      BY <2>1, <3>1 DEF TablesMove, QuietNext, FoundNext
  <2> QED
    BY <2>1 DEF ActiveIsListed
<1> QED
  BY <1>4, <1>5, <1>6, <1>9, <1>10, <1>13, <1>14, <1>15, <1>16, <1>17, <1>18
  DEF ManagerInv
-----------------------------------------------------------------------------
(* The parts the steps are made of.                                        *)
LEMMA SameTables ==
    ASSUME ManagerInv, NEW t \in Task, NEW c, UNCHANGED <<listed, order>>
    PROVE  TablesMove(t, c)
  BY DEF ManagerInv, ManagerTypes, TablesMove, Found, FoundNext

LEMMA SameShutdown ==
    ASSUME ManagerInv, NEW t \in Task, NEW c, UNCHANGED stopping,
           initialized' => initialized,
           c.op = "shutdown" <=> doing[t].op = "shutdown"
    PROVE  ShutdownMoves(t, c)
  BY DEF ManagerInv, ManagerTypes, ShutdownMoves

LEMMA SameStatus ==
    ASSUME ManagerInv, NEW t \in Task PROVE StatusMoves(t, status)
  BY DEF ManagerInv, ManagerTypes, StatusMoves

LEMMA AfterMoves ==
    ASSUME ManagerInv, NEW t \in Task, NEW v \in Status,
           v = "active" => doing[t].at = "activating",
           v = "disposed" => doing[t].at = "disposing"
    PROVE  /\ StatusMoves(t, After(t, v))
           /\ doing[t].o \in Object => After(t, v)[doing[t].o] = v
  BY DEF ManagerInv, ManagerTypes, StatusMoves, After

LEMMA DuringMoves ==
    ASSUME NEW t \in Task, NEW st, StatusMoves(t, st), NEW o, NEW v,
           v \in Status \ {"active", "disposed"} \/ v = st[o]
    PROVE  /\ StatusMoves(t, [st EXCEPT ![o] = v])
           /\ o \in Object => [st EXCEPT ![o] = v][o] = v
<1>1. st \in [Object -> Status]
  BY DEF StatusMoves
<1>2. o \in Object => v \in Status
  BY <1>1
<1>3. [st EXCEPT ![o] = v] \in [Object -> Status]
  BY <1>1, <1>2
<1>4. \A p \in Object : [st EXCEPT ![o] = v][p] = IF p = o THEN v ELSE st[p]
  BY <1>1
<1> QED
  BY <1>3, <1>4 DEF StatusMoves

(* The holder of the lock, when t asks for it or gives it back.            *)
LEMMA AcquiresMoves ==
    ASSUME NEW t \in Task, Acquires(t)
    PROVE  holder' = holder \/ holder \in {"nobody", t}
  BY DEF Acquires

LEMMA CallReturns ==
    ASSUME ManagerInv, LockAssumption, NEW t \in Task, NEW st,
           StatusMoves(t, st), Returns(t, st),
           holder' = holder \/ holder \in {"nobody", t},
           UNCHANGED objects, Records
    PROVE  CallMoves(t, Idle)
<1>1. Idle \in Calls /\ Fits(Idle)' /\ ~BusyCall(Idle) /\ Idle.op = "none"
      /\ Idle.at = "none"
  BY DEF Idle, Calls, Fits, BusyCall
<1> QED
  BY <1>1 DEF CallMoves, Returns, LockedCall, ManagerInv, ManagerTypes

(* A hook is awaited for what the tables have, or for the same object as   *)
(* before.                                                                 *)
LEMMA CallAwaits ==
    ASSUME ManagerInv, LockAssumption, NEW t \in Task, NEW st,
           StatusMoves(t, st), NEW c \in Calls, Fits(c), BusyCall(c),
           NEW v, v \in Status \ {"active", "disposed"} \/ v = st[c.o],
           Awaits(t, c, st, v),
           UNCHANGED objects, Records,
           holder' = holder \/ holder \in {"nobody", t},
           c.op \in Loads \cup {"unload"} => holder' = t,
           \/ BusyCall(doing[t]) /\ c.o = doing[t].o /\ c.x = doing[t].x
           \/ Found(c.x, c.o),
           c.at # "loading",
           c.at \in {"reloading", "activating"} =>
             /\ v \notin {"active", "disposed"}
             /\ FoundNext(c.x, c.o) \/ Settled(c.o),
           c.op = "unload" => FoundNext(c.x, c.o) \/ c.x \notin DOMAIN listed'
    PROVE  CallMoves(t, c)
<1>1. StatusMoves(t, status') /\ (c.o \in Object => status'[c.o] = v)
  <2>1. PICK o : o = c.o
    OBVIOUS
  <2>2. v \in Status \ {"active", "disposed"} \/ v = st[o]
    BY <2>1
  <2>3. status' = [st EXCEPT ![o] = v]
    BY <2>1 DEF Awaits
  <2>4. /\ StatusMoves(t, [st EXCEPT ![o] = v])
        /\ o \in Object => [st EXCEPT ![o] = v][o] = v
    BY <2>2, DuringMoves
  <2> QED
    BY <2>1, <2>3, <2>4
<1>2. doing' = [doing EXCEPT ![t] = c] /\ Fits(c)'
  BY DEF Awaits, Fits, BusyCall
<1>3. objects' \in Nat /\ objects' >= objects
  BY DEF ManagerInv, ManagerTypes
<1> QED
  BY <1>1, <1>2, <1>3 DEF CallMoves, LockedCall, Found, FoundNext

(* Extension.activate_extension() of what the tables have.                 *)
LEMMA ActivatesKeeps ==
    ASSUME ManagerInv, LockAssumption, NEW t \in Task, NEW st,
           StatusMoves(t, st), NEW x \in DOMAIN listed, Activates(t, x, st),
           doing[t].op # "shutdown",
           holder' = holder \/ holder \in {"nobody", t},
           UNCHANGED <<listed, order, objects, stopping, initialized>>, Records
    PROVE  ManagerInv'
<1>1. PICK o : o = listed[x]
  OBVIOUS
<1>2. x \in Extension /\ o \in 1 .. objects /\ objects \in Nat
  BY <1>1 DEF ManagerInv, ManagerTypes
<1>3. CASE Returns(t, st)
  <2>1. CallMoves(t, Idle)
    BY <1>3, CallReturns
  <2>2. ShutdownMoves(t, Idle) /\ TablesMove(t, Idle)
    BY SameTables, SameShutdown DEF Idle
  <2> QED
    BY <2>1, <2>2, StepKeeps
<1>4. ASSUME NEW a \in {"reloading", "activating"},
             NEW v \in {"loading", "initializing"},
             Awaits(t, [op |-> "activate", x |-> x, o |-> o, at |-> a], st, v)
      PROVE  ManagerInv'
  <2>1. PICK c : c = [op |-> "activate", x |-> x, o |-> o, at |-> a]
    OBVIOUS
  <2>2. c \in Calls /\ Fits(c) /\ BusyCall(c)
    BY <1>2, <2>1 DEF Calls, Fits, BusyCall
  <2>3. Found(c.x, c.o) /\ FoundNext(c.x, c.o)
    BY <1>1, <2>1 DEF Found, FoundNext
  <2>4. CallMoves(t, c)
    BY <1>4, <2>1, <2>2, <2>3, CallAwaits DEF Loads, Status
  <2>5. ShutdownMoves(t, c) /\ TablesMove(t, c)
    BY <2>1, SameTables, SameShutdown
  <2> QED
    BY <2>4, <2>5, StepKeeps
<1> QED
  BY <1>1, <1>3, <1>4 DEF Activates
(* load_extension() gives the lock back, and activate_extension() goes on  *)
(* with what is listed.                                                    *)
LEMMA LoadReturnsKeeps ==
    ASSUME ManagerInv, LockAssumption, NEW t \in Task, NEW st, NEW success,
           StatusMoves(t, st), LoadReturns(t, success, st),
           doing[t].op \in Loads, holder = t,
           UNCHANGED <<listed, order, objects, stopping, initialized>>, Records
    PROVE  ManagerInv'
<1>1. doing[t].op # "shutdown"
  BY DEF Loads
<1>2. CASE Returns(t, st)
  <2>1. CallMoves(t, Idle)
    BY <1>2, CallReturns
  <2>2. ShutdownMoves(t, Idle) /\ TablesMove(t, Idle)
    BY <1>1, SameTables, SameShutdown DEF Idle
  <2> QED
    BY <2>1, <2>2, StepKeeps
<1>3. CASE IsListed(doing[t].x) /\ Activates(t, doing[t].x, st)
  <2>1. PICK x : x = doing[t].x
    OBVIOUS
  <2>2. x \in DOMAIN listed /\ Activates(t, x, st)
    BY <1>3, <2>1 DEF IsListed
  <2> QED
    BY <1>1, <2>2, ActivatesKeeps
<1> QED
  BY <1>2, <1>3 DEF LoadReturns

(* Extension.dispose_extension() awaits a hook of the object, which is not *)
(* active then.                                                            *)
LEMMA DisposesMoves ==
    ASSUME ManagerInv, LockAssumption, NEW t \in Task, NEW st,
           StatusMoves(t, st),
           NEW op \in {"unload", "shutdown"}, NEW x \in Extension,
           NEW o \in 1 .. objects, NEW call \in Calls,
           call.op = op, call.x = x, call.o = o,
           Disposes(t, call, st),
           UNCHANGED <<listed, objects>>, Records,
           holder' = holder, op = "unload" => holder = t,
           \/ BusyCall(doing[t]) /\ o = doing[t].o /\ x = doing[t].x
           \/ Found(x, o),
           op = "unload" => Found(x, o) \/ x \notin DOMAIN listed
    PROVE  \E c : CallMoves(t, c) /\ c.op = op /\ QuietNext(o)
<1>1. ASSUME NEW a \in {"deactivating", "disposing"}, NEW v,
             v = "deactivating" \/ v = st[o], o \in Object => v # "active",
             Awaits(t, [call EXCEPT !.at = a], st, v)
      PROVE  \E c : CallMoves(t, c) /\ c.op = op /\ QuietNext(o)
  <2>1. PICK c : c = [call EXCEPT !.at = a]
    OBVIOUS
  <2>2. c \in Calls /\ c.op = op /\ c.x = x /\ c.o = o /\ c.at = a
    BY <2>1 DEF Calls
  <2>3. Fits(c) /\ BusyCall(c)
    BY <2>2 DEF Fits, BusyCall, Loads
  <2>4. v \in Status \ {"active", "disposed"} \/ v = st[c.o]
    BY <1>1, <2>2 DEF Status
  <2>5. Awaits(t, c, st, v)
    BY <1>1, <2>1
  <2>6. FoundNext(x, o) \/ x \notin DOMAIN listed' \/ op # "unload"
    BY DEF Found, FoundNext
  <2>7. CallMoves(t, c)
    BY <2>2, <2>3, <2>4, <2>5, <2>6, CallAwaits DEF Loads
  <2>8. status' = [st EXCEPT ![o] = v] /\ st \in [Object -> Status]
    BY <2>2, <2>5 DEF Awaits, StatusMoves
  <2>9. QuietNext(o)
    BY <1>1, <2>8 DEF QuietNext
  <2> QED
    BY <2>2, <2>7, <2>9
<1> QED
  BY <1>1 DEF Disposes

LEMMA WithoutIsSeq ==
    ASSUME NEW S, NEW q \in Seq(S), NEW x
    PROVE  Without(q, x) \in Seq(S)
<1>1. CASE \E i \in DOMAIN q : q[i] = x
  <2>1. PICK at : at = CHOOSE i \in DOMAIN q : q[i] = x
    OBVIOUS
  <2>2. at \in 1 .. Len(q)
    BY <1>1, <2>1
  <2>3. SubSeq(q, 1, at - 1) \in Seq(S)
    BY <2>2, SubSeqProperties
  <2>4. SubSeq(q, at + 1, Len(q)) \in Seq(S)
    BY <2>2, SubSeqProperties
  <2>5. Without(q, x) = SubSeq(q, 1, at - 1) \o SubSeq(q, at + 1, Len(q))
    BY <1>1, <2>1 DEF Without
  <2> QED
    BY <2>3, <2>4, <2>5, ConcatProperties
<1>2. CASE ~ \E i \in DOMAIN q : q[i] = x
  BY <1>2 DEF Without
<1> QED
  BY <1>1, <1>2

(* unload_extension() takes the extension out.                             *)
LEMMA UnlistsKeeps ==
    ASSUME ManagerInv, LockAssumption, NEW t \in Task, NEW st,
           StatusMoves(t, st), NEW x \in Extension, Unlists(x),
           Returns(t, st), doing[t].op # "shutdown", holder = t,
           x \in DOMAIN listed =>
             /\ listed[x] \in Object => st[listed[x]] # "active"
             /\ \A s \in Task \ {t} :
                  Activating(s) /\ doing[s].o = listed[x] => Settled(listed[x]),
           UNCHANGED <<objects, stopping, initialized>>, Records
    PROVE  ManagerInv'
<1>1. CallMoves(t, Idle)
  BY CallReturns
<1>2. ShutdownMoves(t, Idle)
  BY SameShutdown DEF Idle
<1>3. /\ DOMAIN listed' = DOMAIN listed \ {x}
      /\ \A y \in DOMAIN listed' : listed'[y] = listed[y]
      /\ listed' = [y \in DOMAIN listed' |-> listed'[y]]
  BY DEF Unlists
<1>4. order' \in Seq(Extension)
  BY WithoutIsSeq DEF Unlists, ManagerInv, ManagerTypes
<1>5. status' = st
  BY DEF Returns
<1>6. TablesMove(t, Idle)
  BY <1>3, <1>4, <1>5 DEF TablesMove, ManagerInv, ManagerTypes, Found,
                          FoundNext, QuietNext
<1> QED
  BY <1>1, <1>2, <1>6, StepKeeps

LEMMA UnloadDisposesKeeps ==
    ASSUME ManagerInv, LockAssumption, NEW t \in Task, NEW st,
           StatusMoves(t, st), NEW x \in Extension, NEW o \in 1 .. objects,
           UnloadDisposes(t, x, o, st), doing[t].op = "unload", holder = t,
           Found(x, o) \/ x \notin DOMAIN listed,
           \/ BusyCall(doing[t]) /\ o = doing[t].o /\ x = doing[t].x
           \/ Found(x, o),
           st[o] = "disposed" => st = status,
           UNCHANGED <<objects, stopping, initialized>>, Records
    PROVE  ManagerInv'
<1>1. CASE st[o] = "disposed"
  <2>1. \A s \in Task \ {t} : Activating(s) /\ doing[s].o = o => Settled(o)
    BY <1>1 DEF ManagerInv, DisposedIsExcused, Settled
  <2> QED
    BY <1>1, <2>1, UnlistsKeeps DEF UnloadDisposes, Found
<1>2. CASE st[o] # "disposed"
  <2>1. PICK call : call = [op |-> "unload", x |-> x, o |-> o, at |-> "none"]
    OBVIOUS
  <2>2. call \in Calls
    BY <2>1 DEF Calls, ManagerInv, ManagerTypes
  <2>3. Disposes(t, call, st) /\ UNCHANGED <<tables, lockVars>>
    BY <1>2, <2>1 DEF UnloadDisposes
  <2>4. UNCHANGED <<listed, order>> /\ holder' = holder
    BY <2>3 DEF tables, lockVars
  <2>5. \E c : CallMoves(t, c) /\ c.op = "unload" /\ QuietNext(o)
    BY <2>1, <2>2, <2>3, <2>4, DisposesMoves
  <2>6. PICK c : CallMoves(t, c) /\ c.op = "unload"
    BY <2>5
  <2> QED
    BY <2>4, <2>6, SameTables, SameShutdown, StepKeeps
<1> QED
  BY <1>1, <1>2
-----------------------------------------------------------------------------
(* shutdown(): the step that starts it, or goes on after a hook.           *)
Stops(t, st, seen) ==
    /\ StatusMoves(t, st)
    /\ initialized' => initialized
    /\ seen \subseteq stopping.seen
    /\ \/ doing[t].op = "shutdown"
       \/ /\ doing[t].op = "none" /\ initialized /\ ~initialized'
          /\ st = status /\ seen = {}
    /\ holder' = holder
    /\ UNCHANGED objects
    /\ Records

LEMMA ShutdownEndsKeeps ==
    ASSUME ManagerInv, LockAssumption, NEW t \in Task, NEW st, NEW seen,
           Stops(t, st, seen), NEW cleared \in BOOLEAN,
           ShutdownEnds(t, st, cleared),
           cleared => \A x \in DOMAIN listed :
             /\ listed[x] \in overlapped \/ listed[x] \notin Object
                \/ st[listed[x]] # "active"
             /\ \A s \in Task \ {t} :
                  Activating(s) /\ doing[s].o = listed[x] => Settled(listed[x])
    PROVE  ManagerInv'
<1>1. Returns(t, st) /\ stopping' = NotStopping /\ status' = st
  BY DEF ShutdownEnds, Returns
<1>2. CallMoves(t, Idle)
  BY <1>1, CallReturns DEF Stops
<1>3. ShutdownMoves(t, Idle)
  BY <1>1 DEF Stops, ShutdownMoves, Idle, NotStopping
<1>4. TablesMove(t, Idle)
  <2>1. CASE cleared
    <3>1. listed' = NothingListed /\ order' = <<>>
      BY <2>1 DEF ShutdownEnds
    <3>2. DOMAIN listed' = {} /\ listed' = [x \in DOMAIN listed' |-> listed'[x]]
      BY <3>1 DEF NothingListed
    <3>3. overlapped \subseteq overlapped'
      BY DEF Stops, Records
    <3> QED
      BY <1>1, <2>1, <3>1, <3>2, <3>3 DEF TablesMove, QuietNext
  <2>2. CASE ~cleared
    BY <2>2, SameTables DEF ShutdownEnds, tables
  <2> QED
    BY <2>1, <2>2
<1> QED
  BY <1>2, <1>3, <1>4, StepKeeps

(* The loop over what is listed: one that it has seen is not active.       *)
LEMMA ShutdownDisposesKeeps ==
    ASSUME ManagerInv, LockAssumption, NEW t \in Task, NEW st, NEW seen,
           Stops(t, st, seen), NEW size, ShutdownDisposes(t, st, seen, size)
    PROVE  ManagerInv'
<1> DEFINE left == {x \in DOMAIN listed \ seen : st[listed[x]] # "disposed"}
<1>1. CASE ShutdownEnds(t, st, FALSE)
  BY <1>1, ShutdownEndsKeeps
<1>2. CASE left = {} /\ ShutdownEnds(t, st, TRUE)
  <2>1. doing[t].at # "activating"
    BY DEF Stops, ManagerInv, CallsFit, Fits, Loads
  <2>2. ASSUME NEW x \in DOMAIN listed
        PROVE  \/ listed[x] \in overlapped \/ listed[x] \notin Object
               \/ st[listed[x]] # "active"
    <3>1. CASE x \in seen
      <4>1. Quiet(listed[x])
        BY <3>1 DEF Stops, ManagerInv, SeenIsQuiet
      <4> QED
        BY <2>1, <4>1 DEF Stops, StatusMoves, Quiet
    <3>2. CASE x \notin seen
      BY <1>2, <3>2
    <3> QED
      BY <3>1, <3>2
  <2>3. ASSUME NEW x \in DOMAIN listed, NEW s \in Task \ {t}, Activating(s),
               doing[s].o = listed[x]
        PROVE  Settled(listed[x])
    <3>1. CASE doing[t].op = "shutdown"
      <4>1. TakesOut(t, doing[s].x)
        BY <3>1 DEF TakesOut
      <4> QED
        BY <2>3, <4>1, ExcusedIs DEF Settled
    <3>2. CASE st = status /\ seen = {}
      <4>1. status[listed[x]] = "disposed"
        BY <1>2, <3>2
      <4> QED
        BY <2>3, <4>1 DEF ManagerInv, DisposedIsExcused, Settled
    <3> QED
      BY <3>1, <3>2 DEF Stops
  <2> QED
    BY <1>2, <2>2, <2>3, ShutdownEndsKeeps
<1>3. ASSUME NEW x \in left,
             Disposes(t, [op |-> "shutdown", x |-> x, o |-> listed[x],
                          at |-> "none"], st),
             stopping' = [index |-> 0, size |-> size, seen |-> seen \cup {x}],
             UNCHANGED tables
      PROVE  ManagerInv'
  <2>1. PICK o : o = listed[x]
    OBVIOUS
  <2>2. x \in Extension /\ o \in 1 .. objects /\ Found(x, o)
        /\ objects \in Nat
    BY <2>1 DEF ManagerInv, ManagerTypes, Found
  <2>3. PICK call : call = [op |-> "shutdown", x |-> x, o |-> o,
                            at |-> "none"]
    OBVIOUS
  <2>4. call \in Calls
    BY <2>2, <2>3 DEF Calls
  <2>5. Disposes(t, call, st) /\ UNCHANGED <<listed, order>>
    BY <1>3, <2>1, <2>3 DEF tables
  <2>6. \E c : CallMoves(t, c) /\ c.op = "shutdown" /\ QuietNext(o)
    BY <2>2, <2>3, <2>4, <2>5, DisposesMoves DEF Stops
  <2>7. PICK c : CallMoves(t, c) /\ c.op = "shutdown" /\ QuietNext(o)
    BY <2>6
  <2>8. ShutdownMoves(t, c)
    BY <1>3, <2>1, <2>5, <2>7 DEF Stops, ShutdownMoves
  <2>9. TablesMove(t, c)
    BY <2>5, SameTables
  <2> QED
    BY <2>7, <2>8, <2>9, StepKeeps
<1> QED
  BY <1>1, <1>2, <1>3 DEF ShutdownDisposes

LEMMA GreatestOne ==
    ASSUME NEW n \in Nat, NEW T \in SUBSET (1 .. n), T # {}
    PROVE  \E x \in T : \A y \in T : y <= x
<1> DEFINE R == OpToRel(<, Nat)
           U == {n - i : i \in T}
<1>1. IsWellFoundedOn(R, Nat)
  BY NatLessThanWellFounded
<1>2. U \subseteq Nat
  OBVIOUS
<1>3. U # {}
  <2>1. PICK i : i \in T
    OBVIOUS
  <2>2. n - i \in U
    BY <2>1
  <2> QED
    BY <2>2
<1> HIDE DEF R, U
<1>4. PICK u \in U : \A v \in U : ~(<<v, u>> \in R)
  BY <1>1, <1>2, <1>3, WFMin, Zenon
<1>5. \A v \in U : ~(v < u)
  BY <1>2, <1>4 DEF R, OpToRel
<1>6. PICK x \in T : u = n - x
  BY <1>4 DEF U
<1>7. \A y \in T : n - y \in U
  BY DEF U
<1>8. \A y \in T : ~(n - y < n - x)
  BY <1>5, <1>6, <1>7
<1> QED
  BY <1>8

(* The loop over the order, from the latest back.                          *)
LEMMA ShutdownDeactivatesKeeps ==
    ASSUME ManagerInv, LockAssumption, NEW t \in Task, NEW st,
           Stops(t, st, {}), NEW index \in Nat,
           ShutdownDeactivates(t, st, index)
    PROVE  ManagerInv'
<1> DEFINE active == {i \in 1 .. index : /\ index <= Len(order)
                                         /\ IsListed(order[i])
                                         /\ st[listed[order[i]]] = "active"}
<1>1. CASE active = {}
  <2>1. PICK size : size = Cardinality(DOMAIN listed)
    OBVIOUS
  <2>2. ShutdownDisposes(t, st, {}, size)
    BY <1>1, <2>1 DEF ShutdownDeactivates
  <2> QED
    BY <2>2, ShutdownDisposesKeeps
<1>2. CASE active # {}
  <2>1. PICK last : last = CHOOSE i \in active : \A j \in active : j <= i
    OBVIOUS
  <2>2. active \in SUBSET (1 .. index)
    OBVIOUS
  <2>3. \E i \in active : \A j \in active : j <= i
    <3> HIDE DEF active
    <3> QED
      BY <1>2, <2>2, GreatestOne
  <2>4. last \in active
    <3> HIDE DEF active
    <3> QED
      BY <2>1, <2>3
  <2>5. PICK x, o : x = order[last] /\ o = listed[x]
    OBVIOUS
  <2>6. x \in DOMAIN listed /\ last \in Nat
    BY <2>4, <2>5 DEF IsListed
  <2>7. x \in Extension /\ o \in 1 .. objects /\ Found(x, o)
        /\ objects \in Nat
    BY <2>5, <2>6 DEF ManagerInv, ManagerTypes, Found
  <2>8. PICK c : c = [op |-> "shutdown", x |-> x, o |-> o,
                      at |-> "deactivating"]
    OBVIOUS
  <2>9. c \in Calls /\ Fits(c) /\ BusyCall(c)
    BY <2>7, <2>8 DEF Calls, Fits, BusyCall
  <2>10. /\ Awaits(t, c, st, "deactivating")
         /\ stopping' = [NotStopping EXCEPT !.index = last]
         /\ UNCHANGED <<listed, order>>
    BY <1>2, <2>1, <2>5, <2>8 DEF ShutdownDeactivates, tables
  <2>11. CallMoves(t, c)
    BY <2>7, <2>8, <2>9, <2>10, CallAwaits DEF Stops, Status, Loads
  <2>12. ShutdownMoves(t, c)
    BY <2>6, <2>8, <2>10 DEF Stops, ShutdownMoves, NotStopping
  <2> QED
    BY <2>10, <2>11, <2>12, SameTables, StepKeeps
<1> QED
  BY <1>1, <1>2
-----------------------------------------------------------------------------
(* The calls.                                                              *)
LEMMA AskKeeps ==
    ASSUME ManagerInv, LockAssumption, NEW t \in Task, doing[t].op = "none",
           NEW x \in Extension, NEW op \in Loads \cup {"unload"},
           AsksForLock(t, op, x), Records
    PROVE  ManagerInv'
<1>1. PICK c : c = [op |-> op, x |-> x, o |-> 0, at |-> "waits"]
  OBVIOUS
<1>3. c \in Calls /\ Fits(c)' /\ ~BusyCall(c) /\ c.op # "shutdown"
  BY <1>1 DEF Calls, Fits, BusyCall, Loads
<1>4. /\ doing' = [doing EXCEPT ![t] = c] /\ status' = status
      /\ UNCHANGED <<listed, order, objects, stopping, initialized>>
  BY <1>1 DEF AsksForLock, tables
<1>5. holder' = holder \/ holder \in {"nobody", t}
  BY AcquiresMoves DEF AsksForLock
<1>6. StatusMoves(t, status')
  BY <1>4, SameStatus
<1>7. CallMoves(t, c)
  BY <1>1, <1>3, <1>4, <1>5, <1>6
  DEF CallMoves, LockedCall, ManagerInv, ManagerTypes
<1>8. ShutdownMoves(t, c) /\ TablesMove(t, c)
  BY <1>3, <1>4, SameTables, SameShutdown
<1> QED
  BY <1>7, <1>8, StepKeeps

LEMMA ActivateCallKeeps ==
    ASSUME ManagerInv, LockAssumption, NEW t \in Task, NEW x \in Extension,
           CallActivate(t, x)
    PROVE  ManagerInv'
<1>1. doing[t].op = "none" /\ Records
  BY DEF CallActivate, Begins
<1>2. CASE IsListed(x)
  <2>1. PICK st : st = status
    OBVIOUS
  <2>2. StatusMoves(t, st)
    BY <2>1, SameStatus
  <2>3. /\ Activates(t, x, st) /\ holder' = holder
        /\ UNCHANGED <<listed, order, objects, stopping, initialized>>
    BY <1>2, <2>1 DEF CallActivate, tables, lockVars
  <2> QED
    BY <1>1, <1>2, <2>2, <2>3, ActivatesKeeps DEF IsListed
<1>3. CASE ~IsListed(x)
  BY <1>1, <1>3, AskKeeps DEF CallActivate, Loads
<1> QED
  BY <1>2, <1>3

LEMMA DeactivateCallKeeps ==
    ASSUME ManagerInv, LockAssumption, NEW t \in Task, NEW x \in Extension,
           CallDeactivate(t, x)
    PROVE  ManagerInv'
<1>1. PICK o, st : o = listed[x] /\ st = status
  OBVIOUS
<1>2. doing[t].op = "none" /\ Found(x, o)
  BY <1>1 DEF CallDeactivate, Begins, IsListed, Found
<1>3. o \in 1 .. objects /\ objects \in Nat
  BY <1>2 DEF ManagerInv, ManagerTypes, Found
<1>4. PICK c : c = [op |-> "deactivate", x |-> x, o |-> o,
                    at |-> "deactivating"]
  OBVIOUS
<1>5. c \in Calls /\ Fits(c) /\ BusyCall(c)
  BY <1>3, <1>4 DEF Calls, Fits, BusyCall
<1>6. /\ Awaits(t, c, st, "deactivating") /\ Records /\ holder' = holder
      /\ UNCHANGED <<listed, order, objects, stopping, initialized>>
  BY <1>1, <1>4 DEF CallDeactivate, tables, lockVars
<1>7. StatusMoves(t, st)
  BY <1>1, SameStatus
<1>8. CallMoves(t, c)
  BY <1>2, <1>4, <1>5, <1>6, <1>7, CallAwaits DEF Status, Loads
<1>9. ShutdownMoves(t, c) /\ TablesMove(t, c)
  BY <1>2, <1>4, <1>6, SameTables, SameShutdown
<1> QED
  BY <1>8, <1>9, StepKeeps

LEMMA ShutdownCallKeeps ==
    ASSUME ManagerInv, LockAssumption, NEW t \in Task, CallShutdown(t)
    PROVE  ManagerInv'
<1>1. PICK index, st : index = Len(order) /\ st = status
  OBVIOUS
<1>2. index \in Nat
  BY <1>1 DEF ManagerInv, ManagerTypes
<1>3. StatusMoves(t, st)
  BY <1>1, SameStatus
<1>4. Stops(t, st, {})
  BY <1>1, <1>3 DEF CallShutdown, Begins, Stops, lockVars
<1>5. ShutdownDeactivates(t, st, index)
  BY <1>1 DEF CallShutdown
<1> QED
  BY <1>2, <1>4, <1>5, ShutdownDeactivatesKeeps

-----------------------------------------------------------------------------
(* What a call does with the lock.                                         *)
LEMMA RunsHolds ==
    ASSUME ManagerInv, NEW t \in Task, NEW ops, Runs(t, ops)
    PROVE  /\ holder = t /\ doing[t].op \in ops /\ doing[t].at = "waits"
           /\ doing[t].x \in Extension
  BY DEF Runs, Holds, ManagerInv, CallsFit, Fits

LEMMA LoadFindsKeeps ==
    ASSUME ManagerInv, LockAssumption, NEW t \in Task, LoadFindsNothingToDo(t)
    PROVE  ManagerInv'
<1>1. PICK st, success : st = status /\ LoadReturns(t, success, st)
  BY DEF LoadFindsNothingToDo
<1>2. holder = t /\ doing[t].op \in Loads
  BY RunsHolds DEF LoadFindsNothingToDo
<1>3. StatusMoves(t, st)
  BY <1>1, SameStatus
<1> QED
  BY <1>1, <1>2, <1>3, LoadReturnsKeeps DEF LoadFindsNothingToDo, tables

LEMMA LoadMakesKeeps ==
    ASSUME ManagerInv, LockAssumption, NEW t \in Task, LoadMakesObject(t)
    PROVE  ManagerInv'
<1>1. /\ holder = t /\ doing[t].op \in Loads /\ doing[t].at = "waits"
      /\ doing[t].x \in Extension
  BY RunsHolds DEF LoadMakesObject, ToBeLoaded
<1>2. PICK n, x, op : n = objects + 1 /\ x = doing[t].x /\ op = doing[t].op
  OBVIOUS
<1>3. objects \in Nat /\ n \in Nat /\ n > objects /\ objects' = n
      /\ doing[t] \in Calls
  BY <1>2 DEF LoadMakesObject, ManagerInv, ManagerTypes
<1>4. PICK c : c = [doing[t] EXCEPT !.at = "loading", !.o = n]
  OBVIOUS
<1>5. c \in Calls /\ c.op = op /\ c.x = x /\ c.o = n /\ c.at = "loading"
  BY <1>2, <1>3, <1>4 DEF Calls
<1>6. Fits(c)' /\ BusyCall(c)
  BY <1>1, <1>2, <1>3, <1>5 DEF Fits, BusyCall, Loads
<1>7. /\ doing' = [doing EXCEPT ![t] = c]
      /\ status' = [status EXCEPT ![n] = "loading"]
      /\ UNCHANGED <<listed, order, stopping, initialized>>
      /\ holder' = holder /\ Records
  BY <1>3, <1>4, <1>5 DEF LoadMakesObject, Awaits, tables, lockVars
<1>8. /\ StatusMoves(t, status')
      /\ n \in Object => status'[n] = "loading"
  <2>1. PICK st : st = status
    OBVIOUS
  <2>2. StatusMoves(t, st)
    BY <2>1, SameStatus
  <2>3. /\ StatusMoves(t, [st EXCEPT ![n] = "loading"])
        /\ n \in Object => [st EXCEPT ![n] = "loading"][n] = "loading"
    BY <2>2, DuringMoves DEF Status
  <2>4. status' = [st EXCEPT ![n] = "loading"]
    BY <1>7, <2>1, Zenon
  <2> QED
    BY <2>3, <2>4
<1>9. ASSUME x \in DOMAIN listed PROVE QuietNext(listed[x])
  <2>1. listed[x] \in 1 .. objects
    BY <1>9 DEF ManagerInv, ManagerTypes
  <2>2. status[listed[x]] \in {"unloaded", "error", "disposed"}
    BY <1>2, <1>9 DEF LoadMakesObject, ToBeLoaded, IsListed, IsLoaded
  <2>3. listed[x] \in Object => status'[listed[x]] = status[listed[x]]
    BY <1>3, <1>7, <2>1 DEF ManagerInv, ManagerTypes
  <2> QED
    BY <2>2, <2>3 DEF QuietNext
<1>10. CallMoves(t, c)
  BY <1>1, <1>2, <1>3, <1>5, <1>6, <1>7, <1>8, <1>9
  DEF CallMoves, LockedCall, Loads
<1>11. ShutdownMoves(t, c) /\ TablesMove(t, c)
  BY <1>1, <1>2, <1>5, <1>7, SameTables, SameShutdown DEF Loads
<1> QED
  BY <1>10, <1>11, StepKeeps

LEMMA UnloadRunsKeeps ==
    ASSUME ManagerInv, LockAssumption, NEW t \in Task, UnloadRuns(t)
    PROVE  ManagerInv'
<1>1. holder = t /\ doing[t].op = "unload" /\ doing[t].x \in Extension
  BY RunsHolds DEF UnloadRuns
<1>2. PICK x, o, st : x = doing[t].x /\ o = listed[x] /\ st = status
  OBVIOUS
<1>3. StatusMoves(t, st)
  BY <1>2, SameStatus
<1>4. UNCHANGED <<objects, stopping, initialized>> /\ Records
  BY DEF UnloadRuns
<1>5. CASE IsListed(x)
  <2>1. Found(x, o) /\ o \in 1 .. objects
    BY <1>2, <1>5 DEF IsListed, Found, ManagerInv, ManagerTypes
  <2>2. UnloadDisposes(t, x, o, st)
    BY <1>2, <1>5 DEF UnloadRuns
  <2> QED
    BY <1>1, <1>2, <1>3, <1>4, <2>1, <2>2, UnloadDisposesKeeps
<1>6. CASE ~IsListed(x)
  <2>1. Returns(t, st) /\ UNCHANGED <<listed, order>>
    BY <1>2, <1>6 DEF UnloadRuns, tables
  <2>2. CallMoves(t, Idle)
    BY <1>1, <1>3, <1>4, <2>1, CallReturns
  <2>3. ShutdownMoves(t, Idle) /\ TablesMove(t, Idle)
    BY <1>1, <1>4, <2>1, SameTables, SameShutdown DEF Idle
  <2> QED
    BY <2>2, <2>3, StepKeeps
<1> QED
  BY <1>5, <1>6
-----------------------------------------------------------------------------
(* What follows a hook.                                                    *)
LEMMA BusyIs ==
    ASSUME ManagerInv, NEW t \in Task, BusyCall(doing[t])
    PROVE  /\ doing[t] \in Calls /\ Fits(doing[t])
           /\ doing[t].x \in Extension /\ doing[t].o \in 1 .. objects
           /\ objects \in Nat
           /\ doing[t].op \in Loads \cup {"unload"} => holder = t
  BY DEF ManagerInv, ManagerTypes, CallsFit, Fits, LockedCall, BusyCall

LEMMA LoadHookKeeps ==
    ASSUME ManagerInv, LockAssumption, NEW t \in Task, LoadHookEnds(t)
    PROVE  ManagerInv'
<1>1. doing[t].at = "loading" /\ BusyCall(doing[t])
  BY DEF LoadHookEnds, BusyCall
<1>2. /\ doing[t] \in Calls /\ doing[t].op \in Loads /\ holder = t
      /\ doing[t].x \in Extension /\ doing[t].o \in 1 .. objects
      /\ objects \in Nat
  BY <1>1, BusyIs DEF Fits
<1>3. UNCHANGED <<objects, stopping, initialized>> /\ Records
  BY DEF LoadHookEnds
<1>4. CASE LoadReturns(t, FALSE, After(t, "error")) /\ UNCHANGED tables
  <2>1. PICK st : st = After(t, "error")
    OBVIOUS
  <2>2. StatusMoves(t, st)
    BY <2>1, AfterMoves DEF Status
  <2> QED
    BY <1>2, <1>3, <1>4, <2>1, <2>2, LoadReturnsKeeps DEF tables
<1>5. CASE /\ listed' = [y \in DOMAIN listed \cup {doing[t].x} |->
                           IF y = doing[t].x THEN doing[t].o ELSE listed[y]]
           /\ order' = IF doing[t].x \in {order[i] : i \in DOMAIN order}
                       THEN order ELSE Append(order, doing[t].x)
           /\ Awaits(t, [doing[t] EXCEPT !.at = "activating"], status,
                     "initializing")
           /\ UNCHANGED <<registered, lockVars>>
  <2>1. PICK x, o, op : x = doing[t].x /\ o = doing[t].o /\ op = doing[t].op
    OBVIOUS
  <2>2. PICK c : c = [doing[t] EXCEPT !.at = "activating"]
    OBVIOUS
  <2>3. c \in Calls /\ c.op = op /\ c.x = x /\ c.o = o /\ c.at = "activating"
    BY <1>2, <2>1, <2>2 DEF Calls
  <2>4. Fits(c)' /\ BusyCall(c)
    BY <1>2, <1>3, <2>1, <2>3 DEF Fits, BusyCall, Loads
  <2>5. /\ doing' = [doing EXCEPT ![t] = c]
        /\ status' = [status EXCEPT ![o] = "initializing"]
        /\ holder' = holder
    BY <1>5, <2>2, <2>3 DEF Awaits, lockVars
  <2>6. /\ StatusMoves(t, status')
        /\ o \in Object => status'[o] = "initializing"
    <3>1. PICK st : st = status
      OBVIOUS
    <3>2. StatusMoves(t, st)
      BY <3>1, SameStatus
    <3>3. /\ StatusMoves(t, [st EXCEPT ![o] = "initializing"])
          /\ o \in Object => [st EXCEPT ![o] = "initializing"][o] = "initializing"
      BY <3>2, DuringMoves DEF Status
    <3>4. status' = [st EXCEPT ![o] = "initializing"]
      BY <2>5, <3>1, Zenon
    <3> QED
      BY <3>3, <3>4
  <2>7. /\ DOMAIN listed' = DOMAIN listed \cup {x}
        /\ listed'[x] = o
        /\ \A y \in DOMAIN listed \ {x} : listed'[y] = listed[y]
        /\ listed' = [y \in DOMAIN listed' |-> listed'[y]]
    BY <1>5, <2>1
  <2>8. order' \in Seq(Extension)
    BY <1>2, <1>5 DEF ManagerInv, ManagerTypes
  <2>9. CallMoves(t, c)
    BY <1>1, <1>2, <1>3, <2>1, <2>3, <2>4, <2>5, <2>6, <2>7
    DEF CallMoves, LockedCall, Found, Loads
  <2>10. ShutdownMoves(t, c)
    BY <1>2, <1>3, <2>1, <2>3, SameShutdown DEF Loads
(* What the load replaces is not active, nor being activated.              *)
  <2>11. ASSUME x \in DOMAIN listed PROVE QuietNext(listed[x])
    <3>1. Quiet(listed[x])
      BY <1>1, <2>1, <2>11 DEF ManagerInv, LoadReplacesQuiet
    <3>2. overlapped \subseteq overlapped'
      BY <1>3 DEF Records
    <3> QED
      BY <1>1, <2>6, <3>1, <3>2 DEF Quiet, QuietNext, StatusMoves
  <2>12. ASSUME x \in DOMAIN listed, NEW s \in Task \ {t}, Activating(s),
                doing[s].o = listed[x]
         PROVE  Settled(listed[x])
    <3>1. doing[s].x = x
      BY <2>12 DEF ManagerInv, Owners, BusyCall, Activating
    <3>2. TakesOut(t, doing[s].x)
      BY <1>1, <1>2, <2>1, <3>1 DEF TakesOut
    <3> QED
      BY <2>12, <3>2, ExcusedIs DEF Settled
  <2>13. TablesMove(t, c)
    BY <1>1, <1>2, <2>1, <2>3, <2>7, <2>8, <2>11, <2>12
    DEF TablesMove, Found, FoundNext, ManagerInv, ManagerTypes
  <2> QED
    BY <2>9, <2>10, <2>13, StepKeeps
<1> QED
  BY <1>4, <1>5 DEF LoadHookEnds

LEMMA ReloadHookKeeps ==
    ASSUME ManagerInv, LockAssumption, NEW t \in Task, ReloadHookEnds(t)
    PROVE  ManagerInv'
<1>1. doing[t].at = "reloading" /\ BusyCall(doing[t])
  BY DEF ReloadHookEnds, BusyCall
<1>2. /\ doing[t] \in Calls /\ doing[t].op = "activate"
      /\ doing[t].x \in Extension /\ doing[t].o \in 1 .. objects
      /\ objects \in Nat
  BY <1>1, BusyIs DEF Fits
<1>3. /\ UNCHANGED <<listed, order, objects, stopping, initialized>>
      /\ holder' = holder /\ Records
  BY DEF ReloadHookEnds, tables, lockVars
<1>4. CASE Returns(t, After(t, "error"))
  <2>1. PICK st : st = After(t, "error")
    OBVIOUS
  <2>2. StatusMoves(t, st) /\ Returns(t, st)
    BY <1>4, <2>1, AfterMoves DEF Status
  <2>3. CallMoves(t, Idle)
    BY <1>3, <2>2, CallReturns
  <2>4. ShutdownMoves(t, Idle) /\ TablesMove(t, Idle)
    BY <1>2, <1>3, SameTables, SameShutdown DEF Idle
  <2> QED
    BY <2>3, <2>4, StepKeeps
<1>5. CASE Awaits(t, [doing[t] EXCEPT !.at = "activating"], status,
                  "initializing")
  <2>1. PICK x, o, st : x = doing[t].x /\ o = doing[t].o /\ st = status
    OBVIOUS
  <2>2. PICK c : c = [doing[t] EXCEPT !.at = "activating"]
    OBVIOUS
  <2>3. /\ c \in Calls /\ c.op = "activate" /\ c.x = x /\ c.o = o
        /\ c.at = "activating"
    BY <1>2, <2>1, <2>2 DEF Calls
  <2>4. Fits(c) /\ BusyCall(c)
    BY <1>2, <2>1, <2>3 DEF Fits, BusyCall, Loads
  <2>5. FoundNext(x, o) \/ Settled(o)
    BY <1>1, <1>3, <2>1 DEF ManagerInv, ActivatesListed, Found, FoundNext
  <2>6. StatusMoves(t, st) /\ Awaits(t, c, st, "initializing")
    BY <1>5, <2>1, <2>2, SameStatus
  <2>7. CallMoves(t, c)
    BY <1>1, <1>3, <2>1, <2>3, <2>4, <2>5, <2>6, CallAwaits
    DEF Status, Loads
  <2>8. ShutdownMoves(t, c) /\ TablesMove(t, c)
    BY <1>2, <1>3, <2>3, SameTables, SameShutdown
  <2> QED
    BY <2>7, <2>8, StepKeeps
<1> QED
  BY <1>4, <1>5 DEF ReloadHookEnds

LEMMA ActivateHookKeeps ==
    ASSUME ManagerInv, LockAssumption, NEW t \in Task, ActivateHookEnds(t)
    PROVE  ManagerInv'
<1>1. doing[t].at = "activating" /\ BusyCall(doing[t])
  BY DEF ActivateHookEnds, BusyCall
<1>2. /\ doing[t].op \in Loads \cup {"activate"}
      /\ doing[t].op \in Loads => holder = t
  BY <1>1, BusyIs DEF Fits
<1>3. /\ UNCHANGED <<listed, order, objects, stopping, initialized>>
      /\ Records
  BY DEF ActivateHookEnds, tables
<1>4. PICK v \in {"active", "error"} :
        IF doing[t].op \in Loads THEN LoadReturns(t, TRUE, After(t, v))
        ELSE Returns(t, After(t, v)) /\ UNCHANGED lockVars
  BY DEF ActivateHookEnds
<1>5. PICK st : st = After(t, v)
  OBVIOUS
<1>6. StatusMoves(t, st)
  BY <1>1, <1>5, AfterMoves DEF Status
<1>7. CASE doing[t].op \in Loads
  BY <1>2, <1>3, <1>4, <1>5, <1>6, <1>7, LoadReturnsKeeps
<1>8. CASE doing[t].op \notin Loads
  <2>1. Returns(t, st) /\ holder' = holder
    BY <1>4, <1>5, <1>8 DEF lockVars
  <2>2. CallMoves(t, Idle)
    BY <1>3, <1>6, <2>1, CallReturns
  <2>3. ShutdownMoves(t, Idle) /\ TablesMove(t, Idle)
    BY <1>2, <1>3, SameTables, SameShutdown DEF Idle, Loads
  <2> QED
    BY <2>2, <2>3, StepKeeps
<1> QED
  BY <1>7, <1>8

LEMMA DeactivateHookKeeps ==
    ASSUME ManagerInv, LockAssumption, NEW t \in Task, DeactivateHookEnds(t)
    PROVE  ManagerInv'
<1>1. doing[t].at = "deactivating" /\ BusyCall(doing[t])
  BY DEF DeactivateHookEnds, BusyCall
<1>2. /\ doing[t] \in Calls /\ doing[t].x \in Extension
      /\ doing[t].o \in 1 .. objects /\ objects \in Nat
      /\ doing[t].op = "unload" => holder = t
  BY <1>1, BusyIs
<1>3. UNCHANGED <<objects, initialized>> /\ Records
  BY DEF DeactivateHookEnds
<1>4. PICK v \in {"deactivated", "error"} :
        LET now == After(t, v) IN
         \/ /\ doing[t].op = "deactivate"
            /\ Returns(t, now)
            /\ UNCHANGED <<tables, lockVars, stopping>>
         \/ /\ doing[t].op = "unload"
            /\ UnloadDisposes(t, doing[t].x, doing[t].o, now)
            /\ UNCHANGED stopping
         \/ /\ doing[t].op = "shutdown" /\ stopping.index > 0
            /\ ShutdownDeactivates(t, now, stopping.index - 1)
            /\ UNCHANGED lockVars
         \/ /\ doing[t].op = "shutdown" /\ stopping.index = 0
            /\ Disposes(t, doing[t], now)
            /\ UNCHANGED <<tables, lockVars, stopping>>
  BY DEF DeactivateHookEnds
<1>5. PICK st, call, x, o : /\ st = After(t, v) /\ call = doing[t]
                            /\ x = doing[t].x /\ o = doing[t].o
  OBVIOUS
<1>6. StatusMoves(t, st)
  BY <1>5, AfterMoves DEF Status
<1>7. CASE /\ doing[t].op = "deactivate" /\ Returns(t, st)
           /\ UNCHANGED <<tables, lockVars, stopping>>
  <2>1. UNCHANGED <<listed, order>> /\ holder' = holder
    BY <1>7 DEF tables, lockVars
  <2>2. CallMoves(t, Idle)
    BY <1>3, <1>6, <1>7, <2>1, CallReturns
  <2>3. ShutdownMoves(t, Idle) /\ TablesMove(t, Idle)
    BY <1>3, <1>7, <2>1, SameTables, SameShutdown DEF Idle
  <2> QED
    BY <2>2, <2>3, StepKeeps
<1>8. CASE /\ doing[t].op = "unload" /\ UnloadDisposes(t, x, o, st)
           /\ UNCHANGED stopping
  <2>1. Found(x, o) \/ x \notin DOMAIN listed
    BY <1>1, <1>5, <1>8 DEF ManagerInv, UnloadsListed
  <2>2. st[o] = "disposed" => st = status
    <3>1. status \in [Object -> Status]
      BY DEF ManagerInv, ManagerTypes
    <3>2. CASE o \in Object
      BY <1>5, <3>1, <3>2 DEF After
    <3>3. CASE o \notin Object
      BY <1>5, <3>1, <3>3 DEF After
    <3> QED
      BY <3>2, <3>3
  <2> QED
    BY <1>1, <1>2, <1>3, <1>5, <1>6, <1>8, <2>1, <2>2, UnloadDisposesKeeps
<1>9. CASE /\ doing[t].op = "shutdown" /\ stopping.index > 0
           /\ ShutdownDeactivates(t, st, stopping.index - 1)
           /\ UNCHANGED lockVars
  <2>1. PICK index : index = stopping.index - 1
    OBVIOUS
  <2>2. index \in Nat
    BY <1>9, <2>1 DEF ManagerInv, ManagerTypes
  <2>3. Stops(t, st, {})
    BY <1>3, <1>6, <1>9 DEF Stops, lockVars
  <2>4. ShutdownDeactivates(t, st, index)
    BY <1>9, <2>1
  <2> QED
    BY <2>2, <2>3, <2>4, ShutdownDeactivatesKeeps
<1>10. CASE /\ doing[t].op = "shutdown" /\ Disposes(t, call, st)
            /\ UNCHANGED <<tables, lockVars, stopping>>
  <2>1. UNCHANGED <<listed, order>> /\ holder' = holder
    BY <1>10 DEF tables, lockVars
  <2>2. call \in Calls /\ call.op = "shutdown" /\ call.x = x /\ call.o = o
    BY <1>2, <1>5, <1>10
  <2>3. x \in Extension /\ o \in 1 .. objects
    BY <1>2, <1>5
  <2>4. \E c : CallMoves(t, c) /\ c.op = "shutdown" /\ QuietNext(o)
    BY <1>1, <1>3, <1>5, <1>6, <1>10, <2>1, <2>2, <2>3, DisposesMoves
  <2>5. PICK c : CallMoves(t, c) /\ c.op = "shutdown"
    BY <2>4
  <2> QED
    BY <1>3, <1>10, <2>1, <2>5, SameTables, SameShutdown, StepKeeps
<1> QED
  BY <1>4, <1>5, <1>7, <1>8, <1>9, <1>10

LEMMA DisposeHookKeeps ==
    ASSUME ManagerInv, LockAssumption, NEW t \in Task, DisposeHookEnds(t)
    PROVE  ManagerInv'
<1>1. doing[t].at = "disposing" /\ BusyCall(doing[t])
  BY DEF DisposeHookEnds, BusyCall
<1>2. /\ doing[t] \in Calls /\ doing[t].x \in Extension
      /\ doing[t].o \in 1 .. objects /\ objects \in Nat
      /\ doing[t].op = "unload" => holder = t
  BY <1>1, BusyIs
<1>3. UNCHANGED <<objects, initialized>> /\ Records
  BY DEF DisposeHookEnds
<1>4. PICK v \in {"disposed", "error"} :
        LET now == After(t, v) IN
         \/ /\ doing[t].op = "unload"
            /\ Unlists(doing[t].x) /\ Releases /\ Returns(t, now)
            /\ UNCHANGED stopping
         \/ /\ doing[t].op = "shutdown"
            /\ ShutdownDisposes(t, now, stopping.seen, stopping.size)
            /\ UNCHANGED lockVars
  BY DEF DisposeHookEnds
<1>5. PICK st, x, o : st = After(t, v) /\ x = doing[t].x /\ o = doing[t].o
  OBVIOUS
<1>6. StatusMoves(t, st) /\ (o \in Object => st[o] = v)
  BY <1>1, <1>5, AfterMoves DEF Status
<1>7. CASE /\ doing[t].op = "unload" /\ Unlists(x) /\ Returns(t, st)
           /\ UNCHANGED stopping
  <2>1. ASSUME x \in DOMAIN listed
        PROVE  /\ listed[x] \in Object => st[listed[x]] # "active"
               /\ \A s \in Task \ {t} :
                    Activating(s) /\ doing[s].o = listed[x]
                      => Settled(listed[x])
    <3>1. listed[x] = o
      BY <1>1, <1>5, <1>7, <2>1 DEF ManagerInv, UnloadsListed, Found
    <3>2. ASSUME NEW s \in Task \ {t}, Activating(s), doing[s].o = o
          PROVE  Settled(o)
      <4>1. doing[s].x = x
        BY <1>1, <1>5, <3>2 DEF ManagerInv, Owners, BusyCall, Activating
      <4>2. TakesOut(t, doing[s].x)
        BY <1>1, <1>5, <1>7, <4>1 DEF TakesOut
      <4> QED
        BY <3>2, <4>2, ExcusedIs DEF Settled
    <3> QED
      BY <1>6, <3>1, <3>2
  <2> QED
    BY <1>2, <1>3, <1>5, <1>6, <1>7, <2>1, UnlistsKeeps
<1>8. CASE /\ doing[t].op = "shutdown"
           /\ ShutdownDisposes(t, st, stopping.seen, stopping.size)
           /\ UNCHANGED lockVars
  <2>1. PICK seen, size : seen = stopping.seen /\ size = stopping.size
    OBVIOUS
  <2>2. Stops(t, st, seen)
    BY <1>3, <1>6, <1>8, <2>1 DEF Stops, lockVars
  <2>3. ShutdownDisposes(t, st, seen, size)
    BY <1>8, <2>1
  <2> QED
    BY <2>2, <2>3, ShutdownDisposesKeeps
<1> QED
  BY <1>4, <1>5, <1>7, <1>8
-----------------------------------------------------------------------------
(* A step that leaves alone what the invariant speaks of.                  *)
LEMMA StutterKeeps ==
    ASSUME ManagerInv, holder' = holder,
           UNCHANGED <<listed, order, status, objects, doing, stopping,
                       initialized, overlapped>>
    PROVE  ManagerInv'
<1>1. ManagerTypes' /\ CallsFit' /\ OneShutdown' /\ Owners'
  BY DEF ManagerInv, ManagerTypes, CallsFit, Fits, LockedCall, BusyCall,
         OneShutdown, Owners
<1>2. Excused'
  BY DEF ManagerInv, Excused, Overlap, Activating, TakesOut
<1>3. ActivatesListed' /\ LoadReplacesQuiet' /\ SeenIsQuiet'
  BY DEF ManagerInv, ActivatesListed, LoadReplacesQuiet, SeenIsQuiet, Found,
         Settled, Quiet
<1>4. UnloadsListed' /\ DisposedIsExcused' /\ ActiveIsListed'
  BY DEF ManagerInv, UnloadsListed, DisposedIsExcused, ActiveIsListed, Found,
         BusyCall, Activating
<1> QED
  BY <1>1, <1>2, <1>3, <1>4 DEF ManagerInv

LEMMA ManagerStep ==
    ASSUME LockAssumption, ManagerInv, [ManagerNext]_managerVars
    PROVE  ManagerInv'
<1>1. CASE UNCHANGED managerVars
  BY <1>1, StutterKeeps DEF managerVars, lockVars, tables
<1>2. ASSUME NEW t \in Task, NEW x \in Extension,
             NEW op \in Loads \cup {"unload"}, CallLocked(t, op, x)
      PROVE  ManagerInv'
  BY <1>2, AskKeeps DEF CallLocked, Begins
<1>3. ASSUME NEW t \in Task, LoadWaitsForItself(t)
      PROVE  ManagerInv'
  BY <1>3, StutterKeeps DEF LoadWaitsForItself, WaitsForItself, tables
<1>4. ASSUME NEW t \in Task, LockedCallRuns(t)
      PROVE  ManagerInv'
  BY <1>3, <1>4, LoadFindsKeeps, LoadMakesKeeps, UnloadRunsKeeps
  DEF LockedCallRuns
<1>5. ASSUME NEW t \in Task, HookEnds(t)
      PROVE  ManagerInv'
  BY <1>5, LoadHookKeeps, ReloadHookKeeps, ActivateHookKeeps,
     DeactivateHookKeeps, DisposeHookKeeps DEF HookEnds
<1> QED
  BY <1>1, <1>2, <1>4, <1>5, ActivateCallKeeps, DeactivateCallKeeps,
     ShutdownCallKeeps DEF ManagerNext, Loads

(* An active object is the one in the tables for its extension, whatever   *)
(* the hooks raise and wherever a shutdown stops, but for what was         *)
(* activated beside the call that took its extension out                   *)
(* (manager.py, activate_extension() without _load_lock).                  *)
THEOREM ActiveIsListedHolds == ManagerSpec => []ActiveIsListed
<1>1. ManagerInit => ManagerInv
  BY ManagerInitInv
<1>2. ManagerInv /\ [ManagerNext]_managerVars => ManagerInv'
  BY LockAssumption, ManagerStep
<1>3. ManagerInv => ActiveIsListed
  BY DEF ManagerInv
<1> QED
  BY <1>1, <1>2, <1>3, PTL DEF ManagerSpec
=============================================================================
