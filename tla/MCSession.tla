----------------------------- MODULE MCSession -----------------------------
(***************************************************************************)
(* The ORM's session on walls w1 and w2.  In the behaviours about keys     *)
(* every call is made on w1, which may be asked for by its own type and by *)
(* a base, and the cache has room for one of the two.  In those about the  *)
(* pair w2 is changed by another thread while it is not tracked, at any    *)
(* point of a save of w1; nothing is asked for by its id.                  *)
(***************************************************************************)
EXTENDS OrmSession, TLC

CONSTANTS
    w1, w2,                \* elements
    wall1, wall2, base1,   \* keys of w1 and w2, of w1 by its base
    wall, base             \* keys of the types alone

VARIABLE subject

Keys == (w1 :> {wall1, base1}) @@ (w2 :> {wall2})
Exact == (w1 :> wall1) @@ (w2 :> wall2)
ByType == [k \in Key |-> IF k \in {base1, base} THEN base ELSE wall]
Alike == Permutations(Value)

Init ==
    /\ subject \in {"keys", "pair"}
    /\ SessionInit
    /\ store[w2] = object[w2]

ChangeUntracked(e) ==
    /\ e \notin Tracked
    /\ \E v \in Value \ {object[e]} : SetValue(e, v)

Next ==
    /\ \/ SessionStep
       \/ subject = "keys" /\ ElementCall(w1)
       \/ subject = "pair" /\ (TrackedCall(w1) \/ ChangeUntracked(w2))
    /\ UNCHANGED subject

Spec == Init /\ [][Next]_<<subject, allVars>>
=============================================================================
