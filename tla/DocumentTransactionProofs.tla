---------------------- MODULE DocumentTransactionProofs ----------------------
(***************************************************************************)
(* RevitDocumentProvider keeps the provider contract of Transaction.tla,   *)
(* for any number of transactions whose names differ: the refinement, its  *)
(* inductive invariant, and what is_in_transaction() answers.              *)
(*                                                                         *)
(* The invariant says that a handle is on the stack exactly while its own  *)
(* transaction is started.  A handle is <<name, depth>>, so this is where  *)
(* the distinct names are used: a new handle is on nobody's stack entry.   *)
(***************************************************************************)
EXTENDS DocumentTransaction, FiniteSetTheorems, TLAPS

DistinctNames == \A t, u \in Txn : name[t] = name[u] => t = u

Started == {t \in Txn : status[t] = "started"}

TxnInv(t) ==
    /\ status[t] = "not_started"
          => handle[t] = NoHandle /\ phase[t] = "idle"
    /\ status[t] # "not_started"
          => handle[t] \in Handle /\ handle[t][1] = name[t]
    /\ status[t] = "started" => entries[handle[t]] = 1
    /\ status[t] \in {"committed", "rolled_back"} => entries[handle[t]] = 0
    /\ phase[t] # "idle" => status[t] \in {"started", "rolled_back"}

Types ==
    /\ status \in [Txn -> {"not_started", "started", "committed", "rolled_back"}]
    /\ phase \in [Txn -> {"idle", "operation", "provider"}]
    /\ handle \in [Txn -> Handle \cup {NoHandle}]
    /\ entries \in [Handle -> Nat]

IInv ==
    /\ Types
    /\ \A t \in Txn : TxnInv(t)
    /\ \A h \in Handle : entries[h] = 0 \/ \E t \in Txn : handle[t] = h
    /\ depth = Cardinality(Started)

(* A handle is a pair, None is not.                                        *)
LEMMA HandleIsSome == \A h \in Handle : h # NoHandle
  BY DEF Handle, NoHandle

(* The stack holds at most one entry per transaction.                      *)
LEMMA StartedIsFinite ==
    /\ IsFiniteSet(Started)
    /\ Cardinality(Started) \in 0 .. N
  <1>1. IsFiniteSet(Txn) /\ Cardinality(Txn) = N
    BY FS_Interval, NAssumption DEF Txn
  <1>2. Started \subseteq Txn
    BY DEF Started
  <1> QED BY <1>1, <1>2, FS_Subset, FS_CardinalityType, NAssumption

LEMMA InitIInv == Init => IInv
  <1> SUFFICES ASSUME Init PROVE IInv
    OBVIOUS
  <1>1. Started = {}
    BY DEF Init, Started
  <1>2. Cardinality(Started) = 0
    BY <1>1, FS_EmptySet
  <1> QED BY <1>2 DEF Init, IInv, Types, TxnInv

(* start(): nothing on the stack is equal to the new handle.               *)
LEMMA StartIInv ==
    ASSUME NEW t \in Txn, DistinctNames, IInv, Start(t)
    PROVE  IInv' /\ entries[<<name[t], depth>>] = 0 /\ <<name[t], depth>> \in Handle
  <1> DEFINE h == <<name[t], depth>>
  <1>1. h \in Handle
    BY StartedIsFinite, NameAssumption DEF IInv, Handle
  <1>2. entries[h] = 0
    <2> SUFFICES ASSUME NEW u \in Txn, handle[u] = h PROVE FALSE
      BY <1>1 DEF IInv
    <2>1. status[u] # "not_started"
      BY <1>1, HandleIsSome DEF IInv, TxnInv
    <2>2. name[u] = name[t]
      BY <2>1 DEF IInv, TxnInv
    <2> QED BY <2>1, <2>2 DEF DistinctNames, Start
  <1>3. Types'
    BY <1>1 DEF IInv, Types, Start, Push, object
  <1>4. ASSUME NEW u \in Txn PROVE TxnInv(u)'
    <2>1. CASE u = t
      BY <1>1, <1>2, <2>1 DEF IInv, Types, TxnInv, Start, Push, object
    <2>2. CASE u # t
      <3>1. status[u] # "not_started" => handle[u] # h
        BY <2>2 DEF IInv, TxnInv, DistinctNames
      <3> QED BY <1>1, <2>2, <3>1 DEF IInv, Types, TxnInv, Start, Push, object
    <2> QED BY <2>1, <2>2
  <1>5. ASSUME NEW g \in Handle PROVE entries'[g] = 0 \/ \E u \in Txn : handle'[u] = g
    <2>1. CASE g = h
      BY <2>1 DEF IInv, Types, Start
    <2>2. CASE g # h /\ entries[g] # 0
      <3> PICK u \in Txn : handle[u] = g
        BY <2>2 DEF IInv
      <3>1. u # t
        BY HandleIsSome DEF IInv, TxnInv, Start
      <3> QED BY <3>1 DEF IInv, Types, Start
    <2>3. CASE g # h /\ entries[g] = 0
      BY <1>1, <2>3 DEF IInv, Types, Start, Push
    <2> QED BY <2>1, <2>2, <2>3
  <1>6. depth' = Cardinality(Started)'
    <2>1. Started' = Started \cup {t} /\ t \notin Started
      BY DEF Started, Start, IInv, Types
    <2> QED BY <2>1, StartedIsFinite, FS_AddElement DEF IInv, Start, Push
  <1> QED BY <1>1, <1>2, <1>3, <1>4, <1>5, <1>6 DEF IInv

(* commit() and rollback() of a started transaction take its own handle.   *)
LEMMA EndIInv ==
    ASSUME NEW t \in Txn, DistinctNames, IInv,
           status[t] = "started", Pop(handle[t]), UNCHANGED handle,
           NEW s \in {"committed", "rolled_back"},
           status' = [status EXCEPT ![t] = s],
           \/ s = "rolled_back" /\ UNCHANGED phase
           \/ phase' = [phase EXCEPT ![t] = "idle"]
    PROVE  IInv'
  <1> DEFINE h == handle[t]
  <1>1. h \in Handle /\ entries[h] = 1
    BY DEF IInv, TxnInv
  <1>2. Types'
    BY <1>1 DEF IInv, Types, Pop
  <1>3. ASSUME NEW u \in Txn PROVE TxnInv(u)'
    <2>1. CASE u = t
      BY <1>1, <2>1 DEF IInv, Types, TxnInv, Pop
    <2>2. CASE u # t
      <3>1. status[u] # "not_started" => handle[u] # h
        BY <2>2 DEF IInv, TxnInv, DistinctNames
      <3> QED BY <1>1, <2>2, <3>1 DEF IInv, Types, TxnInv, Pop
    <2> QED BY <2>1, <2>2
  <1>4. ASSUME NEW g \in Handle PROVE entries'[g] = 0 \/ \E u \in Txn : handle'[u] = g
    BY <1>1 DEF IInv, Types, Pop
  <1>5. depth' = Cardinality(Started)'
    <2>1. Started' = Started \ {t} /\ t \in Started
      BY DEF Started, IInv, Types
    <2> QED BY <2>1, StartedIsFinite, FS_RemoveElement DEF IInv, Pop
  <1> QED BY <1>2, <1>3, <1>4, <1>5 DEF IInv

(* Steps that leave status, handle and stack alone.                        *)
LEMMA QuietIInv ==
    ASSUME NEW t \in Txn, IInv, UNCHANGED <<status, handle, stack>>,
           \/ UNCHANGED phase
           \/ phase' = [phase EXCEPT ![t] = "idle"]
           \/ /\ status[t] = "started" \/ phase[t] # "idle"
              /\ phase' \in [Txn -> {"idle", "operation", "provider"}]
              /\ \A u \in Txn \ {t} : phase'[u] = phase[u]
    PROVE  IInv'
  <1>1. Started' = Started
    BY DEF Started
  <1>2. depth' = Cardinality(Started)'
    BY <1>1 DEF IInv, stack
  <1> QED BY <1>2 DEF IInv, Types, TxnInv, stack

-----------------------------------------------------------------------------
(* Only a transaction that is already rolled back misses its handle, and   *)
(* its commit() then has nothing left to roll back.                        *)
LEMMA OnStackIffStarted ==
    ASSUME NEW t \in Txn, IInv
    PROVE  OnStack(handle[t]) <=> status[t] = "started"
  BY HandleIsSome DEF IInv, Types, TxnInv, OnStack

LEMMA NextIInv == DistinctNames /\ IInv /\ [Next]_vars => IInv'
  <1> SUFFICES ASSUME DistinctNames, IInv, [Next]_vars PROVE IInv'
    OBVIOUS
  <1>1. CASE UNCHANGED vars
    BY <1>1 DEF vars, stack, object, IInv, Types, TxnInv, Started
  <1>2. CASE Next
    <2> PICK t \in Txn : Start(t) \/ AddOperation(t) \/ Rollback(t)
                         \/ BeginCommit(t) \/ CommitStep(t)
      BY <1>2 DEF Next
    <2>1. CASE Start(t)
      BY <2>1, StartIInv
    <2>2. CASE AddOperation(t)
      BY <2>2, QuietIInv DEF AddOperation, T!AddOperation
    <2>3. CASE Rollback(t)
      BY <2>3, EndIInv, OnStackIffStarted DEF Rollback, RollbackBody
    <2>4. CASE BeginCommit(t)
      <3>1. phase' \in [Txn -> {"idle", "operation", "provider"}]
        BY <2>4 DEF BeginCommit, T!BeginCommit, IInv, Types
      <3> QED BY <2>4, <3>1, QuietIInv DEF BeginCommit, T!BeginCommit, IInv, Types
    <2>5. CASE OperationReturns(t)
      <3>1. phase' \in [Txn -> {"idle", "operation", "provider"}]
        BY <2>5 DEF OperationReturns, T!OperationReturns, IInv, Types
      <3> QED BY <2>5, <3>1, QuietIInv
              DEF OperationReturns, T!OperationReturns, IInv, Types
    <2>6. CASE OperationRaises(t) \/ CommitFails(t)
      <3>1. CASE RollbackBody(t)
        BY <2>6, <3>1, EndIInv, OnStackIffStarted
        DEF OperationRaises, CommitFails, RollbackBody
      <3>2. CASE UNCHANGED <<status, stack, rollbackRuns>>
        BY <2>6, <3>2, QuietIInv DEF OperationRaises, CommitFails
      <3> QED BY <2>6, <3>1, <3>2 DEF OperationRaises, CommitFails, RollbackCall
    <2>7. CASE CommitOk(t)
      BY <2>7, EndIInv, OnStackIffStarted DEF CommitOk, Pop
    <2>8. CASE OperationInterrupted(t)
      BY <2>8, QuietIInv DEF OperationInterrupted, T!OperationInterrupted
    <2> QED BY <2>1, <2>2, <2>3, <2>4, <2>5, <2>6, <2>7, <2>8 DEF CommitStep
  <1> QED BY <1>1, <1>2

THEOREM SpecIInv == DistinctNames => (Spec => []IInv)
  <1> SUFFICES ASSUME DistinctNames PROVE Spec => []IInv
    OBVIOUS
  <1>1. IInv /\ [Next]_vars => IInv'
    BY NextIInv
  <1> QED BY <1>1, InitIInv, PTL DEF Spec

(* is_in_transaction() is true exactly while some transaction is started,  *)
(* when no two transactions share a name.                                  *)
THEOREM InTransactionIsTrueHolds == DistinctNames => (Spec => []InTransactionIsTrue)
  <1> SUFFICES ASSUME DistinctNames PROVE Spec => []InTransactionIsTrue
    OBVIOUS
  <1>1. IInv => InTransactionIsTrue
    <2> SUFFICES ASSUME IInv PROVE InTransactionIsTrue
      OBVIOUS
    <2>1. Started = {} <=> depth = 0
      BY StartedIsFinite, FS_EmptySet DEF IInv
    <2>2. depth \in Nat
      BY StartedIsFinite, NAssumption DEF IInv
    <2> QED BY <2>1, <2>2 DEF InTransactionIsTrue, Started
  <1> QED BY <1>1, SpecIInv, PTL

-----------------------------------------------------------------------------
(* Under the invariant the outcome is a function of the status.            *)
nativeBar == [t \in Txn |-> Outcome(t)]

OutcomeOf(s) == IF s = "not_started" THEN "none"
                ELSE IF s = "started" THEN "open" ELSE s

StatusTells == \A t \in Txn : Outcome(t) = OutcomeOf(status[t])

LEMMA NativeIsStatus == IInv => StatusTells
  BY OnStackIffStarted, HandleIsSome
  DEF StatusTells, Outcome, OutcomeOf, IInv, Types, TxnInv

LEMMA NativeIsStatusNext == IInv' => StatusTells'
  BY NativeIsStatus, PTL

(* A step of t that moves its status moves its outcome alike.              *)
LEMMA NativeFollows ==
    ASSUME NEW t \in Txn, IInv, IInv', NEW s,
           status' = [status EXCEPT ![t] = s]
    PROVE  nativeBar' = [nativeBar EXCEPT ![t] = OutcomeOf(s)]
  <1>1. \A u \in Txn : Outcome(u) = OutcomeOf(status[u])
    BY NativeIsStatus DEF StatusTells
  <1>2. \A u \in Txn : Outcome(u)' = OutcomeOf(status'[u])
    BY NativeIsStatusNext DEF StatusTells, OutcomeOf
  <1>3. \A u \in Txn : status'[u] = IF u = t THEN s ELSE status[u]
    BY DEF IInv, Types
  <1>4. \A u \in Txn : Outcome(u)' = IF u = t THEN OutcomeOf(s) ELSE Outcome(u)
    BY <1>1, <1>2, <1>3
  <1> QED BY <1>4 DEF nativeBar

LEMMA NativeStays ==
    ASSUME IInv, IInv', UNCHANGED status
    PROVE  nativeBar' = nativeBar
  <1>1. \A u \in Txn : Outcome(u) = OutcomeOf(status[u])
    BY NativeIsStatus DEF StatusTells
  <1>2. \A u \in Txn : Outcome(u)' = OutcomeOf(status'[u])
    BY NativeIsStatusNext DEF StatusTells, OutcomeOf
  <1> QED BY <1>1, <1>2 DEF nativeBar

-----------------------------------------------------------------------------
LEMMA InitSim == Init => T!Init
  BY DEF Init, T!Init, Outcome, Txn, T!Txn

(* Every step over the document is the same step over a contract provider. *)
LEMMA NextSim ==
    ASSUME IInv, IInv', Next
    PROVE  T!Next
  <1> PICK t \in Txn : Start(t) \/ AddOperation(t) \/ Rollback(t)
                       \/ BeginCommit(t) \/ CommitStep(t)
    BY DEF Next
  <1>t. t \in T!Txn
    BY DEF Txn, T!Txn
  <1>n. nativeBar[t] = OutcomeOf(status[t])
    BY NativeIsStatus DEF StatusTells, nativeBar
  <1> USE DEF nativeBar, OutcomeOf
  <1>1. CASE Start(t)
    <2>1. T!StartOk(t)
      BY <1>1, <1>n, NativeFollows DEF Start, T!StartOk, object
    <2> QED BY <1>t, <2>1 DEF T!Next, T!Start
  <1>r. RollbackBody(t) => T!RollbackOk(t)
    BY <1>n, NativeFollows
    DEF RollbackBody, T!RollbackOk, T!CanRollback, T!MarkRolledBack
  <1>2. CASE Rollback(t)
    <2>1. T!Rollback(t)
      BY <1>2, <1>r DEF Rollback, T!Rollback, T!RollbackBody
    <2> QED BY <1>t, <2>1 DEF T!Next
  <1>3. CASE AddOperation(t)
    BY <1>3, <1>t DEF AddOperation, T!Next
  <1>4. CASE BeginCommit(t)
    BY <1>4, <1>t DEF BeginCommit, T!Next
  <1>5. CASE OperationReturns(t)
    BY <1>5, <1>t DEF OperationReturns, T!Next, T!CommitStep
  <1>6. CASE OperationRaises(t)
    <2> SUFFICES T!OperationRaises(t)
      BY <1>t DEF T!Next, T!CommitStep
    <2>1. CASE RollbackBody(t)
      BY <1>6, <2>1, <1>r
      DEF OperationRaises, T!OperationRaises, T!RollbackCall, T!RollbackBody
    <2>2. CASE status[t] # "started" /\ UNCHANGED <<status, stack, rollbackRuns>>
      <3>1. ~T!CanRollback(t)
        BY <2>2 DEF IInv, Types, T!CanRollback
      <3> QED BY <1>6, <2>2, <3>1, NativeStays
              DEF OperationRaises, T!OperationRaises, T!RollbackCall
    <2> QED BY <1>6, <2>1, <2>2 DEF OperationRaises, RollbackCall
  <1>7. CASE CommitOk(t)
    <2>1. status[t] = "started"
      BY <1>7, OnStackIffStarted DEF CommitOk, Pop
    <2>2. T!CommitOk(t)
      BY <1>7, <1>n, <2>1, NativeFollows DEF CommitOk, T!CommitOk
    <2> QED BY <1>t, <2>2 DEF T!Next, T!CommitStep
  <1>8. CASE CommitFails(t)
    <2>1. status[t] # "started"
      BY <1>8, OnStackIffStarted DEF CommitFails
    <2>2. T!CommitFails(t)
      BY <1>8, <2>1, NativeStays
      DEF CommitFails, T!CommitFails, RollbackCall, RollbackBody
    <2> QED BY <1>t, <2>2 DEF T!Next, T!CommitStep
  <1>9. CASE OperationInterrupted(t)
    BY <1>9, <1>t DEF OperationInterrupted, T!Next, T!CommitStep
  <1> QED BY <1>1, <1>2, <1>3, <1>4, <1>5, <1>6, <1>7, <1>8, <1>9 DEF CommitStep

(* RevitDocumentProvider keeps the contract: with distinct names, Trans-   *)
(* action objects over it do nothing Transaction.tla does not allow.       *)
THEOREM KeepsContractHolds == DistinctNames => (Spec => KeepsContract)
  <1> SUFFICES ASSUME DistinctNames PROVE Spec => KeepsContract
    OBVIOUS
  <1>1. IInv /\ IInv' /\ [Next]_vars => [T!Next]_T!vars
    <2> SUFFICES ASSUME IInv, IInv', [Next]_vars PROVE [T!Next]_T!vars
      OBVIOUS
    <2>1. CASE UNCHANGED vars
      <3>1. nativeBar' = nativeBar
        BY <2>1, NativeStays DEF vars
      <3> QED BY <2>1, <3>1 DEF vars, object, T!vars, nativeBar
    <2> QED BY <2>1, NextSim
  <1>2. Spec => []IInv
    BY SpecIInv
  <1> QED BY <1>1, <1>2, InitSim, PTL DEF Spec, KeepsContract, T!Spec

(* With distinct names a transaction that was rolled back, from inside an  *)
(* operation or not, is never reported committed.                          *)
THEOREM RolledBackForGoodHolds == DistinctNames => (Spec => RolledBackForGood)
  <1> SUFFICES ASSUME DistinctNames PROVE Spec => RolledBackForGood
    OBVIOUS
  <1> DEFINE Stays == \A t \in Txn : status[t] = "rolled_back"
                                       => status'[t] = "rolled_back"
  <1>1. IInv /\ [Next]_vars => [Stays]_vars
    <2> SUFFICES ASSUME IInv, Next, NEW u \in Txn, status[u] = "rolled_back"
                 PROVE  status'[u] = "rolled_back"
      OBVIOUS
    <2> PICK t \in Txn : Start(t) \/ AddOperation(t) \/ Rollback(t)
                         \/ BeginCommit(t) \/ CommitStep(t)
      BY DEF Next
    <2>1. status[t] = "rolled_back" => UNCHANGED status
      BY OnStackIffStarted
      DEF Start, AddOperation, T!AddOperation, Rollback, RollbackBody, BeginCommit,
          T!BeginCommit, CommitStep, OperationReturns, T!OperationReturns,
          OperationInterrupted, T!OperationInterrupted,
          OperationRaises, RollbackCall, CommitOk, Pop, CommitFails
    <2>2. \/ UNCHANGED status
          \/ \E s : status' = [status EXCEPT ![t] = s]
      BY DEF Start, AddOperation, T!AddOperation, Rollback, RollbackBody, BeginCommit,
             T!BeginCommit, CommitStep, OperationReturns, T!OperationReturns,
             OperationInterrupted, T!OperationInterrupted,
          OperationInterrupted, T!OperationInterrupted,
             OperationRaises, RollbackCall, CommitOk, CommitFails
    <2> QED BY <2>1, <2>2 DEF IInv, Types
  <1> QED BY <1>1, SpecIInv, PTL DEF Spec, RolledBackForGood
=============================================================================
