--------------------------- MODULE MCTransactions ---------------------------
(***************************************************************************)
(* The two ways callers use several transactions, a group of up to two     *)
(* members and the scopes with three attempts, each in the behaviours that *)
(* have it as their subject.                                               *)
(***************************************************************************)
EXTENDS TransactionGroup, TransactionScope

VARIABLE subject

CallersInit ==
    /\ subject \in {"group", "scope"}
    /\ GroupInit
    /\ ScopeInit
    /\ subject = "group" => kind = "retry"

CallersNext ==
    \/ /\ subject = "group" /\ GroupNext /\ size' <= 2
       /\ UNCHANGED <<subject, scope>>
    \/ /\ subject = "scope" /\ ScopeNext
       /\ UNCHANGED <<subject, groupVars>>

CallersSpec == CallersInit /\ [][CallersNext]_<<subject, allVars, scope>>
=============================================================================
