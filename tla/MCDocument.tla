----------------------------- MODULE MCDocument -----------------------------
EXTENDS DocumentTransaction

(* Every transaction its own name, as the default Transaction_<uuid> gives;*)
(* and one name for all, as a loop or a retry gives.                       *)
OwnNames == [t \in 1 .. 3 |-> t]
OneName == [t \in 1 .. 3 |-> 1]
ThreeNames == 1 .. 3
=============================================================================
