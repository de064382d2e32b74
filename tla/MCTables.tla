------------------------------ MODULE MCTables ------------------------------
(***************************************************************************)
(* Tables that callers share: the transaction stack of the document        *)
(* provider, the cache of the ORM and the interpreter pool, each in the    *)
(* behaviours that have it as their subject.  c is the key that the entity *)
(* type alone makes.                                                       *)
(***************************************************************************)
EXTENDS MCDocument, OrmCache, InterpreterPool, TLC

CONSTANTS a, b, c

VARIABLE subject

ByType == [k \in Key |-> c]
Alike == Permutations(Renter)

TablesInit ==
    /\ subject \in {"stack", "cache", "pool"}
    /\ Init
    /\ CacheInit
    /\ PoolInit

TablesNext ==
    \/ /\ subject = "stack" /\ Next
       /\ UNCHANGED <<subject, cache, poolVars>>
    \/ /\ subject = "cache" /\ CacheNext
       /\ UNCHANGED <<subject, vars, poolVars>>
    \/ /\ subject = "pool" /\ PoolNext
       /\ UNCHANGED <<subject, vars, cache>>

TablesSpec == TablesInit /\ [][TablesNext]_<<subject, vars, cache, poolVars>>
=============================================================================
