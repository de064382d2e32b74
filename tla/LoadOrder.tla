----------------------------- MODULE LoadOrder -----------------------------
(***************************************************************************)
(* resolve_load_order() of src/revitpy/extensions/registry.py: a depth-    *)
(* first search over the registered extensions.  The recursion of visit()  *)
(* is its stack, path; a step is one turn of its loop.  The set of what is *)
(* unresolved and the lists of dependencies are gone through in any order. *)
(* The graph is chosen at the start, and may be any.                       *)
(***************************************************************************)
EXTENDS Integers, Sequences

CONSTANT Name    \* names of extensions

VARIABLES
    graph,     \* graph[n]: dependencies of n, for the registered names n
    path,      \* the visits under way, the outermost first
    todo,      \* todo[n]: dependencies that the visit to n has yet to visit
    resolved,  \* the order so far
    answer     \* "none", "order" (returned) or "cycle" (raised)

orderVars == <<graph, path, todo, resolved, answer>>

Registered == DOMAIN graph
Listed(s) == {s[i] : i \in DOMAIN s}
Top == path[Len(path)]

OrderInit ==
    /\ graph \in UNION {[R -> SUBSET Name] : R \in SUBSET Name}
    /\ path = <<>>
    /\ todo = [n \in Name |-> {}]
    /\ resolved = <<>>
    /\ answer = "none"

VisitNext(n) ==
    /\ answer = "none" /\ path = <<>>
    /\ n \in Registered \ Listed(resolved)
    /\ path' = <<n>>
    /\ todo' = [todo EXCEPT ![n] = graph[n]]
    /\ UNCHANGED <<graph, resolved, answer>>

(* The dependency d of the innermost visit is under way, done or not       *)
(* registered, or is visited in turn.                                      *)
FindCycle(d) ==
    /\ answer = "none" /\ path # <<>> /\ d \in todo[Top]
    /\ d \in Listed(path)
    /\ answer' = "cycle"
    /\ UNCHANGED <<graph, path, todo, resolved>>

Skip(d) ==
    /\ answer = "none" /\ path # <<>> /\ d \in todo[Top]
    /\ d \notin Listed(path)
    /\ d \in Listed(resolved) \/ d \notin Registered
    /\ todo' = [todo EXCEPT ![Top] = @ \ {d}]
    /\ UNCHANGED <<graph, path, resolved, answer>>

(* Mutant: what is left of the outer visit is forgotten.                   *)
DescendAndForget(d) ==
    /\ answer = "none" /\ path # <<>> /\ d \in todo[Top]
    /\ d \in Registered \ (Listed(path) \cup Listed(resolved))
    /\ path' = Append(path, d)
    /\ todo' = [todo EXCEPT ![Top] = {}, ![d] = graph[d]]
    /\ UNCHANGED <<graph, resolved, answer>>

Descend(d) ==
    /\ answer = "none" /\ path # <<>> /\ d \in todo[Top]
    /\ d \in Registered \ (Listed(path) \cup Listed(resolved))
    /\ path' = Append(path, d)
    /\ todo' = [todo EXCEPT ![Top] = @ \ {d}, ![d] = graph[d]]
    /\ UNCHANGED <<graph, resolved, answer>>

Resolve ==
    /\ answer = "none" /\ path # <<>> /\ todo[Top] = {}
    /\ resolved' = Append(resolved, Top)
    /\ path' = SubSeq(path, 1, Len(path) - 1)
    /\ UNCHANGED <<graph, todo, answer>>

Return ==
    /\ answer = "none" /\ path = <<>>
    /\ Registered \subseteq Listed(resolved)
    /\ answer' = "order"
    /\ UNCHANGED <<graph, path, todo, resolved>>

OrderNext ==
    \/ \E n \in Name : VisitNext(n)
    \/ \E d \in Name : FindCycle(d) \/ Skip(d) \/ Descend(d)
    \/ Resolve
    \/ Return

OrderSpec == OrderInit /\ [][OrderNext]_orderVars
-----------------------------------------------------------------------------
(* Some registered extensions depend on one another in a circle: each of   *)
(* them on one of them.                                                    *)
Cyclic ==
    \E C \in (SUBSET Registered) \ {{}} : \A n \in C : graph[n] \cap C # {}

(* An order that is returned lists every registered extension once, each   *)
(* after those it depends on; and the error is raised only when there is   *)
(* none, the dependencies being circular.                                  *)
OrderIsRight ==
    /\ answer = "order" =>
         /\ Listed(resolved) = Registered
         /\ \A i, j \in DOMAIN resolved : resolved[i] = resolved[j] => i = j
         /\ \A i \in DOMAIN resolved :
              \A d \in graph[resolved[i]] \cap Registered :
                \E j \in 1 .. i - 1 : resolved[j] = d
    /\ answer = "cycle" => Cyclic
=============================================================================
