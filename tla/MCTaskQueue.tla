---------------------------- MODULE MCTaskQueue ----------------------------
EXTENDS TaskQueue

(* The newest task has the highest priority, the others the same.          *)
NewestFirst == [t \in 1 .. N |-> IF t = N THEN 1 ELSE 0]
=============================================================================
