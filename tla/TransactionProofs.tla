-------------------------- MODULE TransactionProofs --------------------------
(***************************************************************************)
(* Proofs about Transaction.tla and the two that use it, for every number  *)
(* of transactions, members or attempts and every bound on the operations. *)
(*                                                                         *)
(* Transaction: TxnInv is the inductive strengthening.  It adds to the     *)
(* checked invariants where commit() is (phase) and how many operations it *)
(* has run, which is what its last step relies on.                         *)
(*                                                                         *)
(* TransactionGroup: the argument has two halves.  Walks says which        *)
(* commit() is on the stack while a group method walks the members: with   *)
(* it every step of the group is a step of Transaction.tla or leaves the   *)
(* transactions alone, so that the group implements Spec and inherits its  *)
(* theorems.  Progress says what a walk has done to the members before the *)
(* one it has reached, which is what the results of the group methods rest *)
(* on.                                                                     *)
(*                                                                         *)
(* TransactionScope: every step of a scope is a step of the transaction of *)
(* its attempt, so IInv carries over.  What is added says where the caller *)
(* may be with which commit() on the stack (Where), that earlier attempts  *)
(* are over and later ones have not begun (Others), what an end has left   *)
(* behind (Ends) and what a cancellation of the body has decided (Token).  *)
(***************************************************************************)
EXTENDS TransactionGroup, TransactionScope, TLAPS

TxnInv(t) ==
    /\ status[t] = "not_started"
          => native[t] = "none" /\ queued[t] = 0 /\ ran[t] = 0 /\ phase[t] = "idle"
    /\ status[t] = "started" => native[t] = "open"
    /\ status[t] = "committed" <=> native[t] = "committed"
    /\ status[t] = "committed" => phase[t] = "idle" /\ ran[t] = queued[t]
    /\ phase[t] = "operation" => ran[t] < queued[t]
    /\ phase[t] = "provider" => ran[t] = queued[t]
    /\ phase[t] # "idle" => native[t] # "none"
    /\ commitRuns[t] = 1 <=> status[t] = "committed"
    /\ status[t] = "rolled_back" => rollbackRuns[t] = 1
    /\ status[t] \in {"not_started", "started", "failed"} => rollbackRuns[t] = 0

IInv == TypeOK /\ \A t \in Txn : TxnInv(t)

(* The constructor establishes the invariant.                              *)
LEMMA InitIInv == Init => IInv
  BY NAssumption, MaxOpsAssumption
  DEF Init, IInv, TypeOK, TxnInv, Txn, TransactionStatus

(* rollback(), whatever the provider answers and wherever commit() is.     *)
LEMMA RollbackIInv ==
    ASSUME NEW t \in Txn, IInv, RollbackBody(t),
           UNCHANGED <<queued, ran, commitRuns>>,
           phase' = phase \/ phase' = [phase EXCEPT ![t] = "idle"]
    PROVE  IInv'
  <1> USE DEF IInv, TypeOK, TxnInv, TransactionStatus, CanRollback, MarkRolledBack
  <1>1. CASE RollbackOk(t)
    BY <1>1 DEF RollbackOk
  <1>2. CASE RollbackRefused(t)
    BY <1>2 DEF RollbackRefused
  <1>3. CASE RollbackRaises(t)
    BY <1>3 DEF RollbackRaises
  <1> QED BY <1>1, <1>2, <1>3 DEF RollbackBody

(* A commit() that ends with an exception and no rollback.                 *)
LEMMA CommitGivesUpIInv ==
    ASSUME NEW t \in Txn, IInv,
           phase' = [phase EXCEPT ![t] = "idle"],
           UNCHANGED <<status, native, queued, ran, commitRuns, rollbackRuns>>
    PROVE  IInv'
  BY DEF IInv, TypeOK, TxnInv, TransactionStatus

LEMMA NextIInv == IInv /\ [Next]_vars => IInv'
  <1> SUFFICES ASSUME IInv, [Next]_vars PROVE IInv'
    OBVIOUS
  <1>1. CASE UNCHANGED vars
    BY <1>1 DEF vars, IInv, TypeOK, TxnInv
  <1>2. CASE Next
    <2> PICK t \in Txn : Start(t) \/ AddOperation(t) \/ Rollback(t)
                         \/ BeginCommit(t) \/ CommitStep(t)
      BY <1>2 DEF Next
    <2>1. CASE StartOk(t)
      BY <2>1 DEF StartOk, IInv, TypeOK, TxnInv, TransactionStatus
    <2>2. CASE StartRaises(t)
      BY <2>2 DEF StartRaises, IInv, TypeOK, TxnInv, TransactionStatus
    <2>3. CASE AddOperation(t)
      BY <2>3, MaxOpsAssumption
      DEF AddOperation, UserCode, IInv, TypeOK, TxnInv, TransactionStatus
    <2>4. CASE Rollback(t)
      BY <2>4, RollbackIInv DEF Rollback
    <2>5. CASE BeginCommit(t)
      BY <2>5, MaxOpsAssumption
      DEF BeginCommit, IInv, TypeOK, TxnInv, TransactionStatus
    <2>6. CASE OperationReturns(t)
      BY <2>6, MaxOpsAssumption
      DEF OperationReturns, IInv, TypeOK, TxnInv, TransactionStatus
    <2>7. CASE OperationRaises(t)
      <3>1. CASE RollbackBody(t)
        BY <2>7, <3>1, RollbackIInv DEF OperationRaises
      <3>2. CASE ~CanRollback(t) /\ UNCHANGED <<status, native, rollbackRuns>>
        BY <2>7, <3>2, CommitGivesUpIInv DEF OperationRaises, CanRollback
      <3> QED BY <2>7, <3>1, <3>2 DEF OperationRaises, RollbackCall
    <2>8. CASE CommitOk(t)
      BY <2>8 DEF CommitOk, IInv, TypeOK, TxnInv, TransactionStatus
    <2>9. CASE CommitFails(t)
      <3>1. CASE status[t] = "started"
        BY <2>9, <3>1, RollbackIInv DEF CommitFails
      <3>2. CASE status[t] # "started"
        BY <2>9, <3>2, CommitGivesUpIInv DEF CommitFails
      <3> QED BY <3>1, <3>2
    <2>10. CASE OperationInterrupted(t)
      BY <2>10, CommitGivesUpIInv DEF OperationInterrupted
    <2> QED BY <2>1, <2>2, <2>3, <2>4, <2>5, <2>6, <2>7, <2>8, <2>9, <2>10
            DEF Start, CommitStep
  <1> QED BY <1>1, <1>2

THEOREM SpecIInv == Spec => []IInv
  BY InitIInv, NextIInv, PTL DEF Spec

(* The variables keep their types, the handler counts their bound of one:  *)
(* no sequence of calls runs a transaction's handlers twice.               *)
THEOREM TypeCorrect == Spec => []TypeOK
  <1>1. IInv => TypeOK
    BY DEF IInv
  <1> QED BY <1>1, SpecIInv, PTL

(* What a transaction reports is what the host did, for any interleaving of*)
(* operations, cancellations and provider failures.                        *)
THEOREM OutcomeIsNativeHolds == Spec => []OutcomeIsNative
  <1>1. IInv => OutcomeIsNative
    BY DEF IInv, TxnInv, OutcomeIsNative
  <1> QED BY <1>1, SpecIInv, PTL

(* No commit overtakes an operation, even one queued by an operation.      *)
THEOREM AllOperationsBeforeCommitHolds == Spec => []AllOperationsBeforeCommit
  <1>1. IInv => AllOperationsBeforeCommit
    BY DEF IInv, TxnInv, AllOperationsBeforeCommit
  <1> QED BY <1>1, SpecIInv, PTL

(* Commit and rollback handlers are called once and for the right outcome. *)
THEOREM HandlersMatchOutcomeHolds == Spec => []HandlersMatchOutcome
  <1>1. IInv => HandlersMatchOutcome
    BY DEF IInv, TxnInv, HandlersMatchOutcome
  <1> QED BY <1>1, SpecIInv, PTL

(* A status that is an outcome is kept, but for the one commit() that can  *)
(* still overwrite a refused rollback.                                     *)
THEOREM FinalStatusHolds == Spec => FinalStatus
  <1> DEFINE Kept(t) ==
          /\ status[t] = "committed" => status'[t] = "committed"
          /\ status[t] = "rolled_back" /\ status'[t] # "rolled_back"
                => native[t] = "open" /\ phase[t] = "provider"
          /\ status[t] # "not_started" => status'[t] # "not_started"
          /\ status[t] # "started" /\ status'[t] = "started"
                => status[t] = "not_started"
  <1>1. IInv /\ [Next]_vars => [\A t \in Txn : Kept(t)]_vars
    <2> SUFFICES ASSUME IInv, Next, NEW u \in Txn PROVE Kept(u)
      OBVIOUS
    <2> PICK t \in Txn : Start(t) \/ AddOperation(t) \/ Rollback(t)
                         \/ BeginCommit(t) \/ CommitStep(t)
      BY DEF Next
    <2> USE DEF IInv, TypeOK, TxnInv
    <2>1. CASE Start(t)
      BY <2>1 DEF Start, StartOk, StartRaises
    <2>2. CASE RollbackBody(t)
      BY <2>2 DEF RollbackBody, RollbackOk, RollbackRefused, RollbackRaises,
                  CanRollback, MarkRolledBack
    <2>3. CASE CommitOk(t)
      BY <2>3 DEF CommitOk
    <2>4. CASE UNCHANGED status
      BY <2>4
    <2> QED BY <2>1, <2>2, <2>3, <2>4
            DEF AddOperation, Rollback, BeginCommit, CommitStep, OperationReturns,
                OperationRaises, OperationInterrupted, RollbackCall, CommitFails
  <1> QED BY <1>1, SpecIInv, PTL DEF Spec, FinalStatus

-----------------------------------------------------------------------------
(* The group.                                                              *)
GroupTypes ==
    /\ size \in 0 .. N
    /\ groupStatus \in TransactionStatus
    /\ call \in {"none", "start_all", "commit_all", "in_commit", "undo",
                 "rollback_all"}
    /\ member \in 1 .. N + 1
    /\ committed \in 0 .. N

Walks ==
    /\ call \in {"start_all", "commit_all", "undo", "rollback_all"}
         => \A t \in Members : phase[t] = "idle"
    /\ call = "in_commit"
         => /\ member \in Members
            /\ phase[member] # "idle"
            /\ phase[member] = "provider" => AllIdleBut(member)

Progress ==
    /\ committed <= size
    /\ \A t \in 1 .. committed : native[t] = "committed"
    /\ call \in {"commit_all", "in_commit"} => committed = member - 1
    /\ call = "rollback_all"
         => \A t \in 1 .. member - 1 : t \in Members => status[t] # "started"
    /\ groupStatus = "committed" => \A t \in Members : native[t] = "committed"

GInv == IInv /\ GroupTypes /\ Walks /\ Progress

(* Nothing takes back what the host has committed.                         *)
LEMMA CommittedStays ==
    ASSUME IInv, [Next]_vars, NEW t \in Txn, native[t] = "committed"
    PROVE  native'[t] = "committed"
  <1> USE DEF IInv, TypeOK, TxnInv
  <1>1. CASE UNCHANGED vars
    BY <1>1 DEF vars
  <1>2. CASE Next
    <2> PICK u \in Txn : Start(u) \/ AddOperation(u) \/ Rollback(u)
                         \/ BeginCommit(u) \/ CommitStep(u)
      BY <1>2 DEF Next
    <2>1. CASE Start(u)
      BY <2>1 DEF Start, StartOk, StartRaises
    <2>2. CASE RollbackBody(u)
      BY <2>2 DEF RollbackBody, RollbackOk, RollbackRefused, RollbackRaises,
                  CanRollback, MarkRolledBack
    <2>3. CASE CommitOk(u)
      BY <2>3 DEF CommitOk
    <2>4. CASE UNCHANGED native
      BY <2>4
    <2> QED BY <2>1, <2>2, <2>3, <2>4
            DEF AddOperation, Rollback, BeginCommit, CommitStep, OperationReturns,
                OperationRaises, OperationInterrupted, RollbackCall, CommitFails
  <1> QED BY <1>1, <1>2

-----------------------------------------------------------------------------
(* Every step of the group is one of a transaction, or none of theirs.     *)
LEMMA GroupStepIsStep == GInv /\ [GroupNext]_allVars => [Next]_vars
  <1> SUFFICES ASSUME GInv, [GroupNext]_allVars PROVE [Next]_vars
    OBVIOUS
  <1> USE DEF GInv, GroupTypes
  <1>1. Members \subseteq Txn
    BY NAssumption DEF Members, Txn
  <1>2. ASSUME NEW t \in Members, RollbackCall(t), phase[t] = "idle",
               UNCHANGED <<queued, ran, phase, commitRuns>>
        PROVE  [Next]_vars
    BY <1>1, <1>2 DEF RollbackCall, Next, Rollback, UserCode, vars
  <1>3. CASE UNCHANGED vars
    BY <1>3
  <1>4. CASE StartMember
    BY <1>1, <1>4 DEF StartMember, Start, Next
  <1>5. CASE CommitMember
    BY <1>1, <1>5 DEF CommitMember, Next
  <1>6. CASE MemberOperation \/ MemberCommits \/ MemberFails \/ MemberInterrupted
    BY <1>1, <1>6 DEF MemberOperation, MemberCommits, MemberFails,
                      MemberInterrupted, CommitStep, Next, Walks
  <1>7. CASE UndoMember
    <2>1. member \in Members /\ call = "undo"
      BY <1>7, NAssumption DEF UndoMember, Progress, Members
    <2> QED
      BY <1>2, <1>7, <2>1 DEF UndoMember, Walks
  <1>8. CASE RollbackMember
    BY <1>2, <1>8 DEF RollbackMember, Walks
  <1>9. CASE MemberCall
    BY <1>1, <1>9 DEF MemberCall, Next
  <1>10. CASE MemberCommit
    BY <1>1, <1>10 DEF MemberCommit, Next
  <1> QED
    BY <1>3, <1>4, <1>5, <1>6, <1>7, <1>8, <1>9, <1>10
    DEF GroupNext, GroupStep, AddTransaction, StartAll, CommitAll, RollbackAll,
        StartAllReturns, CommitAllRaises, CommitAllReturns, RollbackAllReturns,
        allVars

LEMMA GInvInit == GroupInit => GInv
  <1> SUFFICES ASSUME GroupInit PROVE GInv
    OBVIOUS
  <1>1. IInv
    BY InitIInv DEF GroupInit
  <1> QED
    BY <1>1, NAssumption DEF GInv, GroupInit, GroupTypes, Walks, Progress,
                             Members, TransactionStatus

LEMMA IInvGroup == GInv /\ [GroupNext]_allVars => IInv'
  BY GroupStepIsStep, NextIInv DEF GInv

LEMMA TypesGroup == GInv /\ [GroupNext]_allVars => GroupTypes'
  <1> SUFFICES ASSUME GInv, [GroupNext]_allVars PROVE GroupTypes'
    OBVIOUS
  <1> USE NAssumption DEF GInv, GroupTypes, Members, TransactionStatus, Enter,
                          NextMember, groupVars
  <1>1. CASE AddTransaction \/ StartAll \/ CommitAll \/ RollbackAll
    BY <1>1 DEF AddTransaction, StartAll, CommitAll, RollbackAll
  <1>2. CASE StartMember \/ StartAllReturns
    BY <1>2 DEF StartMember, StartAllReturns
  <1>3. CASE CommitMember
    BY <1>3 DEF CommitMember
  <1>4. CASE MemberOperation \/ MemberFails \/ MemberInterrupted
    BY <1>4 DEF MemberOperation, MemberFails, MemberInterrupted
  <1>5. CASE MemberCommits
    BY <1>5 DEF MemberCommits, Walks
  <1>6. CASE UndoMember \/ CommitAllRaises \/ CommitAllReturns
    BY <1>6 DEF UndoMember, CommitAllRaises, CommitAllReturns
  <1>7. CASE RollbackMember \/ RollbackAllReturns
    BY <1>7 DEF RollbackMember, RollbackAllReturns
  <1>8. CASE MemberCall \/ MemberCommit
    BY <1>8 DEF MemberCall, MemberCommit
  <1>9. CASE UNCHANGED allVars
    BY <1>9 DEF allVars
  <1> QED
    BY <1>1, <1>2, <1>3, <1>4, <1>5, <1>6, <1>7, <1>8, <1>9
    DEF GroupNext, GroupStep

LEMMA WalksGroup == GInv /\ [GroupNext]_allVars => Walks'
  <1> SUFFICES ASSUME GInv, [GroupNext]_allVars PROVE Walks'
    OBVIOUS
  <1> USE NAssumption DEF GInv, GroupTypes, Members, Enter, NextMember,
                          groupVars, AllIdleBut, IInv, TypeOK
  <1>1. CASE AddTransaction \/ StartAll \/ CommitAll \/ RollbackAll
    BY <1>1 DEF AddTransaction, StartAll, CommitAll, RollbackAll, Walks, vars,
                Idle
  <1>2. CASE StartMember
    BY <1>2 DEF StartMember, StartOk, StartRaises, Walks, vars
  <1>3. CASE CommitMember
    BY <1>3 DEF CommitMember, BeginCommit, Walks, vars, Txn
  <1>4. CASE MemberOperation
    BY <1>4 DEF MemberOperation, OperationReturns, Walks, Txn
  <1>5. CASE MemberFails \/ MemberInterrupted
    <2>1. /\ phase' = [phase EXCEPT ![member] = "idle"]
          /\ size' = size
          /\ call' \in {"none", "undo"}
      BY <1>5 DEF MemberFails, MemberInterrupted, OperationRaises, CommitFails,
                  OperationInterrupted
    <2>2. AllIdleBut(member)
      BY <1>5 DEF MemberFails, MemberInterrupted
    <2>3. \A t \in Members : phase'[t] = "idle"
      BY <2>1, <2>2 DEF Txn
    <2> QED BY <2>1, <2>3 DEF Walks
  <1>6. CASE MemberCommits
    BY <1>6 DEF MemberCommits, CommitOk, Walks, Txn
  <1>7. CASE UndoMember \/ RollbackMember
    BY <1>7 DEF UndoMember, RollbackMember, Walks
  <1>8. CASE CommitAllRaises \/ CommitAllReturns \/ StartAllReturns
             \/ RollbackAllReturns
    BY <1>8 DEF CommitAllRaises, CommitAllReturns, StartAllReturns,
                RollbackAllReturns, Walks
  <1>9. CASE MemberCall
    <2>1. phase' = phase /\ UNCHANGED groupVars
      BY <1>9 DEF MemberCall, Start, StartOk, StartRaises, AddOperation, Rollback
    <2> QED BY <2>1 DEF Walks
  <1>10. CASE MemberCommit
    <2>1. CASE call = "none"
      BY <1>10, <2>1 DEF MemberCommit, Walks
    <2>2. CASE call # "none"
      <3>1. /\ call = "in_commit" /\ phase[member] = "operation"
            /\ UNCHANGED groupVars /\ member \in Members
        BY <1>10, <2>2 DEF MemberCommit, CallerRuns, Walks
      <3>2. phase'[member] = "operation"
        BY <1>10, <2>2, <3>1
        DEF MemberCommit, BeginCommit, CommitStep, OperationReturns,
            OperationRaises, OperationInterrupted, CommitOk, CommitFails, Txn
      <3> QED BY <3>1, <3>2 DEF Walks
    <2> QED BY <2>1, <2>2
  <1>11. CASE UNCHANGED allVars
    BY <1>11 DEF allVars, vars, Walks
  <1> QED
    BY <1>1, <1>2, <1>3, <1>4, <1>5, <1>6, <1>7, <1>8, <1>9, <1>10, <1>11
    DEF GroupNext, GroupStep

(* Only start_all() leads to a started member, and it is not running.      *)
LEMMA ProgressGroup == GInv /\ [GroupNext]_allVars => Progress'
  <1> SUFFICES ASSUME GInv, [GroupNext]_allVars PROVE Progress'
    OBVIOUS
  <1> USE NAssumption DEF GInv, GroupTypes, Enter, NextMember, groupVars
  <1>1. Members \subseteq Txn /\ 1 .. committed \subseteq Txn
    BY DEF Members, Txn
  <1>2. \A t \in Txn : native[t] = "committed" => native'[t] = "committed"
    BY GroupStepIsStep, CommittedStays
  <1>3. \A t \in 1 .. committed : native'[t] = "committed"
    BY <1>1, <1>2 DEF Progress
  <1>4. groupStatus = "committed" => \A t \in Members : native'[t] = "committed"
    BY <1>1, <1>2 DEF Progress
  <1>5. CASE AddTransaction \/ StartAll \/ CommitAll \/ RollbackAll
    <2>1. CASE AddTransaction
      BY <1>3, <2>1 DEF AddTransaction, Idle, Progress
    <2>2. CASE StartAll
      BY <1>3, <2>2 DEF StartAll, Progress
    <2>3. CASE CommitAll
      BY <2>3 DEF CommitAll, Progress
    <2>4. CASE RollbackAll
      BY <1>3, <1>4, <2>4 DEF RollbackAll, Progress, Members
    <2> QED BY <1>5, <2>1, <2>2, <2>3, <2>4
  <1>6. CASE StartMember \/ StartAllReturns
    BY <1>3, <1>4, <1>6 DEF StartMember, StartAllReturns, Progress, Members
  <1>7. CASE CommitMember
    BY <1>3, <1>4, <1>7 DEF CommitMember, Progress, Members
  <1>8. CASE MemberOperation \/ MemberFails \/ MemberInterrupted
    BY <1>3, <1>4, <1>8
    DEF MemberOperation, MemberFails, MemberInterrupted, Progress, Members
  <1>9. CASE MemberCommits
    <2>1. member \in Members /\ native'[member] = "committed"
      BY <1>1, <1>9 DEF MemberCommits, CommitOk, Walks, IInv, TypeOK
    <2>2. 1 .. member \subseteq 1 .. committed \cup {member}
      BY <1>9 DEF MemberCommits, Progress
    <2> QED
      BY <1>3, <1>4, <1>9, <2>1, <2>2 DEF MemberCommits, Progress, Members
  <1>10. CASE UndoMember \/ CommitAllRaises
    BY <1>3, <1>4, <1>10 DEF UndoMember, CommitAllRaises, Progress, Members
  <1>11. CASE CommitAllReturns
    <2>1. Members \subseteq 1 .. committed
      BY <1>11 DEF CommitAllReturns, Progress, Members
    <2> QED
      BY <1>3, <1>11, <2>1 DEF CommitAllReturns, Progress, Members
  <1>12. CASE RollbackMember
    <2>1. \A t \in 1 .. member : t \in Members => status'[t] # "started"
      BY <1>1, <1>12
      DEF RollbackMember, RollbackCall, RollbackBody, RollbackOk,
          RollbackRefused, RollbackRaises, MarkRolledBack, CanRollback,
          Progress, IInv, TypeOK
    <2> QED
      BY <1>3, <1>4, <1>12, <2>1 DEF RollbackMember, Progress, Members
  <1>13. CASE RollbackAllReturns
    BY <1>3, <1>13 DEF RollbackAllReturns, Progress, Members
  <1>14. CASE MemberCall \/ MemberCommit
    BY <1>3, <1>4, <1>14 DEF MemberCall, MemberCommit, CallerRuns, Progress,
                             Members
  <1>15. CASE UNCHANGED allVars
    BY <1>15 DEF allVars, vars, Progress, Members
  <1> QED
    BY <1>5, <1>6, <1>7, <1>8, <1>9, <1>10, <1>11, <1>12, <1>13, <1>14, <1>15
    DEF GroupNext, GroupStep

-----------------------------------------------------------------------------
(* The strengthening is an invariant of the group.                         *)
THEOREM GroupGInv == GroupSpec => []GInv
  <1>1. GInv /\ [GroupNext]_allVars => GInv'
    BY IInvGroup, TypesGroup, WalksGroup, ProgressGroup DEF GInv
  <1> QED BY <1>1, GInvInit, PTL DEF GroupSpec

(* The group uses its members as any caller may: whatever is true of every *)
(* behaviour of the transactions is true of a group's.                     *)
THEOREM GroupImplementsTransactions == GroupSpec => Spec
  <1>1. GroupInit => Init
    BY DEF GroupInit
  <1> QED BY <1>1, GroupStepIsStep, GroupGInv, PTL DEF GroupSpec, Spec

(* The variables of a group keep their types.                              *)
THEOREM GroupTypeCorrect == GroupSpec => []GroupTypeOK
  <1>1. GInv => GroupTypeOK
    BY DEF GInv, IInv, GroupTypes, GroupTypeOK
  <1> QED BY <1>1, GroupGInv, PTL

(* A group reports committed only over members that all are.               *)
THEOREM CommittedGroupIsWholeHolds == GroupSpec => []CommittedGroupIsWhole
  <1>1. GInv => CommittedGroupIsWhole
    BY DEF GInv, Progress, CommittedGroupIsWhole
  <1> QED BY <1>1, GroupGInv, PTL

(* What commit_all() has committed before it fails stays committed.        *)
THEOREM CommitsStandHolds == GroupSpec => []CommitsStand
  <1>1. GInv => CommitsStand
    BY DEF GInv, Progress, CommitsStand
  <1> QED BY <1>1, GroupGInv, PTL

(* rollback_all() and a failed start_all() leave no member open to its own *)
(* report.                                                                 *)
THEOREM RollbackAllLeavesNoneStartedHolds ==
    GroupSpec => RollbackAllLeavesNoneStarted
  <1>1. GInv /\ [GroupNext]_allVars
          => [call = "rollback_all" /\ call' = "none"
                => \A t \in Members : status'[t] # "started"]_allVars
    <2> SUFFICES ASSUME GInv, GroupNext, call = "rollback_all", call' = "none",
                        NEW t \in Members
                 PROVE  status'[t] # "started"
      OBVIOUS
    <2>1. RollbackAllReturns
      BY DEF GroupNext, GroupStep, AddTransaction, StartAll, CommitAll,
             RollbackAll, StartMember, StartAllReturns, CommitMember,
             MemberOperation, MemberCommits, MemberFails, MemberInterrupted,
             UndoMember, CommitAllRaises, CommitAllReturns, RollbackMember,
             MemberCall, MemberCommit, CallerRuns, Idle, Enter, NextMember,
             groupVars
    <2>2. t \in 1 .. member - 1 /\ status' = status
      BY <2>1, NAssumption
      DEF RollbackAllReturns, Members, GInv, GroupTypes, vars
    <2> QED BY <2>1, <2>2 DEF RollbackAllReturns, GInv, Progress
  <1> QED BY <1>1, GroupGInv, PTL DEF GroupSpec, RollbackAllLeavesNoneStarted

-----------------------------------------------------------------------------
(* The scopes, and the retries.                                            *)
ScopeTypes ==
    /\ kind \in {"scope", "async", "retry"}
    /\ auto \in BOOLEAN
    /\ attempt \in 1 .. N
    /\ at \in {"enter", "body", "exit_commit", "commit", "exit_rollback", "done"}
    /\ raising \in {"none", "Exception", "BaseException"}
    /\ outcome \in {"none", "returned", "raised", "interrupted"}
    /\ cancelled \in {"no", "inactive", "body", "operation"}

Where ==
    /\ at \in {"enter", "exit_commit", "exit_rollback", "done"}
         => phase[attempt] = "idle"
    /\ at = "commit" => phase[attempt] # "idle"
    /\ kind = "retry"
         => /\ auto = TRUE
            /\ at \in {"body", "exit_commit", "exit_rollback"}
                 => status[attempt] = "started"
    /\ auto = TRUE /\ at = "exit_rollback" => raising # "none"
    /\ at # "enter" /\ outcome = "none" => status[attempt] # "not_started"
    /\ outcome = "none" <=> at # "done"
    /\ cancelled # "no" => kind = "async"

Others ==
    \A t \in Txn :
        /\ t > attempt => status[t] = "not_started"
        /\ t = attempt /\ at = "enter" => status[t] = "not_started"
        /\ t < attempt => status[t] \notin {"started", "committed"}

Ends ==
    /\ outcome = "returned" /\ auto = TRUE => status[attempt] = "committed"
    /\ outcome \in {"returned", "raised"} => status[attempt] # "started"
    /\ kind = "retry" /\ outcome = "raised" => status[attempt] # "committed"

Token ==
    cancelled = "body"
        => status[attempt] \in {"rolled_back", "failed"} /\ phase[attempt] = "idle"

SInv == IInv /\ ScopeTypes /\ Where /\ Others /\ Ends /\ Token

LEMMA SInvInit == ScopeInit => SInv
  <1> SUFFICES ASSUME ScopeInit PROVE SInv
    OBVIOUS
  <1>1. IInv
    BY InitIInv DEF ScopeInit
  <1>2. attempt = 1 /\ 1 \in 1 .. N
    BY NAssumption, AttemptsAssumption DEF ScopeInit
  <1>3. ScopeTypes
    BY <1>2 DEF ScopeInit, ScopeTypes
  <1>4. Where /\ Ends /\ Token
    BY <1>2 DEF ScopeInit, Where, Ends, Token, Init, Txn
  <1>5. Others
    BY <1>2 DEF ScopeInit, Others, Init, Txn
  <1> QED BY <1>1, <1>3, <1>4, <1>5 DEF SInv

(* A scope uses the transaction of its attempt as any caller may.          *)
LEMMA ScopeStepIsStep == SInv /\ [ScopeNext]_scopeVars => [Next]_vars
  <1> SUFFICES ASSUME SInv, [ScopeNext]_scopeVars PROVE [Next]_vars
    OBVIOUS
  <1> USE DEF SInv
  <1>1. attempt \in Txn
    BY DEF ScopeTypes, Txn
  <1>2. CASE UNCHANGED vars
    BY <1>2
  <1>3. CASE EnterScope \/ EnterRaises
    BY <1>1, <1>3 DEF EnterScope, EnterRaises, Start, Next
  <1>4. CASE ExitCommit
    BY <1>1, <1>4 DEF ExitCommit, Next
  <1>5. CASE ExitOperation \/ ExitCommits \/ ExitCommitRaises \/ ExitInterrupted
    BY <1>1, <1>5 DEF ExitOperation, ExitCommits, ExitCommitRaises,
                      ExitInterrupted, CommitStep, Next
  <1>6. ASSUME at = "exit_rollback", RollbackBody(attempt),
               UNCHANGED <<queued, ran, phase, commitRuns>>
        PROVE  [Next]_vars
    BY <1>1, <1>6 DEF Where, Rollback, UserCode, Next
  <1>7. CASE ExitRollback \/ ExitRollbackRaises
    BY <1>6, <1>7 DEF ExitRollback, ExitRollbackRaises, RollbackBody, vars
  <1>8. CASE BodyCall
    BY <1>1, <1>8 DEF BodyCall, Next
  <1>9. CASE ExitCall
    BY <1>1, <1>9 DEF ExitCall, Next
  <1>10. CASE Cancel
    BY <1>1, <1>10 DEF Cancel, Rollback, Next, vars
  <1> QED
    BY <1>2, <1>3, <1>4, <1>5, <1>7, <1>8, <1>9, <1>10
    DEF ScopeNext, ScopeStep, BodyReturns, BodyRaises, ExitCommitRefused,
        scopeVars

LEMMA IInvScope == SInv /\ [ScopeNext]_scopeVars => IInv'
  BY ScopeStepIsStep, NextIInv DEF SInv

-----------------------------------------------------------------------------
(* The end of an attempt with an exception, whatever raised it.            *)
LEMMA RaiseSInv ==
    ASSUME SInv, IInv', NEW e, e \in {"Exception", "BaseException"}, Raise(e),
           at # "done",
           \A t \in Txn : t # attempt => status'[t] = status[t],
           status'[attempt] \notin {"not_started", "started"},
           phase'[attempt] = "idle",
           kind = "retry" => status'[attempt] # "committed",
           cancelled = "body" => status'[attempt] \in {"rolled_back", "failed"}
    PROVE  SInv'
  <1> USE NAssumption DEF SInv, ScopeTypes
  <1>1. attempt \in Txn /\ UNCHANGED <<kind, auto, cancelled>> /\ raising' = "none"
    BY DEF Txn, Raise
  <1>2. CASE attempt < Attempts /\ attempt' = attempt + 1 /\ at' = "enter"
             /\ UNCHANGED outcome
    <2>1. kind = "retry" /\ attempt' \in Txn
      BY <1>2 DEF Attempts, Txn
    <2>2. ScopeTypes'
      BY <1>1, <1>2, <2>1 DEF Txn
    <2>3. Others'
      BY <1>2, <2>1 DEF Others, Txn
    <2>4. status'[attempt'] = "not_started"
      BY <1>2, <2>1, <2>3 DEF Others
    <2>5. phase'[attempt'] = "idle"
      BY <2>1, <2>4 DEF IInv, TxnInv
    <2>6. Where' /\ Ends' /\ Token'
      BY <1>1, <1>2, <2>1, <2>5 DEF Where, Ends, Token
    <2> QED BY <2>2, <2>3, <2>6
  <1>3. CASE at' = "done" /\ outcome' = "raised" /\ UNCHANGED attempt
    <2>1. ScopeTypes'
      BY <1>1, <1>3
    <2>2. Others'
      BY <1>1, <1>3 DEF Others
    <2>3. Where' /\ Ends' /\ Token'
      BY <1>1, <1>3 DEF Where, Ends, Token
    <2> QED BY <2>1, <2>2, <2>3
  <1> QED BY <1>2, <1>3 DEF Raise, Finish

(* A step that stays in the attempt, and is not its end.                   *)
LEMMA StepSInv == SInv /\ [ScopeNext]_scopeVars => SInv'
  <1> SUFFICES ASSUME SInv, [ScopeNext]_scopeVars PROVE SInv'
    OBVIOUS
  <1>1. IInv'
    BY IInvScope
  <1> USE <1>1 DEF SInv, ScopeTypes
  <1>2. attempt \in Txn
    BY DEF Txn
  <1> DEFINE OnlyAttempt == \A t \in Txn : t # attempt => status'[t] = status[t]
  <1>3. CASE EnterScope
    BY <1>2, <1>3 DEF EnterScope, StartOk, Where, Others, Ends, Token, IInv, TypeOK
  <1>4. CASE EnterRaises
    <2>1. /\ OnlyAttempt /\ status'[attempt] = "failed"
          /\ phase'[attempt] = "idle"
      BY <1>2, <1>4 DEF EnterRaises, StartRaises, Where, IInv, TypeOK
    <2> QED
      BY <1>4, <2>1, RaiseSInv DEF EnterRaises
  <1>5. CASE BodyReturns
    BY <1>2, <1>5 DEF BodyReturns, Where, Others, Ends, Token, vars
  <1>6. CASE BodyRaises
    BY <1>2, <1>6 DEF BodyRaises, Where, Others, Ends, Token, vars
  <1>7. CASE ExitCommit
    <2>1. status[attempt] = "started" /\ UNCHANGED status
          /\ phase'[attempt] # "idle"
      BY <1>2, <1>7 DEF ExitCommit, BeginCommit, IInv, TypeOK
    <2> QED
      BY <1>7, <2>1 DEF ExitCommit, Where, Others, Ends, Token
  <1>8. CASE ExitCommitRefused
    <2>1. at = "exit_commit" /\ status[attempt] # "started" /\ kind # "retry"
          /\ UNCHANGED vars /\ Raise("Exception")
      BY <1>8 DEF ExitCommitRefused, Where
    <2>2. status'[attempt] # "not_started"
      BY <2>1 DEF vars, Where
    <2> QED
      BY <2>1, <2>2, RaiseSInv DEF vars, Where, Token
  <1>9. CASE ExitOperation
    BY <1>2, <1>9
    DEF ExitOperation, OperationReturns, scope, Where, Others, Ends, Token, IInv,
        TypeOK
  <1>10. CASE ExitCommits
    <2>1. /\ OnlyAttempt /\ status'[attempt] = "committed"
          /\ phase'[attempt] = "idle" /\ phase[attempt] = "provider"
      BY <1>2, <1>10 DEF ExitCommits, CommitOk, IInv, TypeOK
    <2> QED
      BY <1>2, <1>10, <2>1
      DEF ExitCommits, Finish, Where, Others, Ends, Token
  <1>11. CASE ExitCommitRaises
    <2>1. /\ OnlyAttempt /\ phase'[attempt] = "idle"
          /\ status'[attempt] \notin {"not_started", "started", "committed"}
          /\ phase[attempt] # "idle"
      BY <1>2, <1>11
      DEF ExitCommitRaises, OperationRaises, CommitFails, RollbackCall,
          RollbackBody, RollbackOk, RollbackRefused, RollbackRaises,
          CanRollback, MarkRolledBack, IInv, TypeOK, TxnInv, TransactionStatus
    <2> QED
      BY <1>11, <2>1, RaiseSInv DEF ExitCommitRaises, Token
  <1>12. CASE ExitInterrupted
    <2>1. phase'[attempt] = "idle" /\ UNCHANGED status /\ phase[attempt] # "idle"
      BY <1>2, <1>12 DEF ExitInterrupted, OperationInterrupted, IInv, TypeOK
    <2> QED
      BY <1>12, <2>1
      DEF ExitInterrupted, Finish, Where, Others, Ends, Token
  <1>13. ASSUME at = "exit_rollback", RollbackCall(attempt), UNCHANGED phase
         PROVE  /\ OnlyAttempt /\ phase'[attempt] = "idle"
                /\ status'[attempt] \notin {"not_started", "started"}
                /\ status[attempt] = "started" => status'[attempt] # "committed"
                /\ status[attempt] \in {"rolled_back", "failed"}
                     => status'[attempt] \in {"rolled_back", "failed"}
    BY <1>2, <1>13
    DEF RollbackCall, RollbackBody, RollbackOk, RollbackRefused,
        RollbackRaises, CanRollback, MarkRolledBack, Where, IInv, TypeOK,
        TransactionStatus
  <1>14. CASE ExitRollback
    <2>1. at = "exit_rollback" /\ RollbackCall(attempt) /\ UNCHANGED phase
      BY <1>14 DEF ExitRollback, RollbackCall, RollbackBody
    <2>2. CASE raising # "none" /\ Raise(raising)
      BY <1>13, <2>1, <2>2, RaiseSInv DEF Where, Token
    <2>3. CASE raising = "none" /\ Finish("returned")
               /\ UNCHANGED <<kind, auto, raising, cancelled>>
      BY <1>13, <2>1, <2>3 DEF Finish, Where, Others, Ends, Token
    <2> QED BY <1>14, <2>2, <2>3 DEF ExitRollback
  <1>15. CASE ExitRollbackRaises
    <2>1. at = "exit_rollback" /\ RollbackCall(attempt) /\ UNCHANGED phase
          /\ Raise("Exception")
      BY <1>15 DEF ExitRollbackRaises, RollbackCall, RollbackBody
    <2> QED BY <1>13, <2>1, RaiseSInv DEF Where, Token
  <1>16. CASE BodyCall
    <2>1. /\ at = "body" /\ kind # "retry" /\ UNCHANGED scope
          /\ AddOperation(attempt) \/ Rollback(attempt)
             \/ BeginCommit(attempt) \/ CommitStep(attempt)
      BY <1>16 DEF BodyCall, InBody
    <2>2. OnlyAttempt /\ status'[attempt] # "not_started"
      BY <1>2, <2>1
      DEF AddOperation, Rollback, BeginCommit, CommitStep, OperationReturns,
          OperationRaises, OperationInterrupted, CommitOk, CommitFails,
          RollbackCall, RollbackBody, RollbackOk, RollbackRefused,
          RollbackRaises, CanRollback, MarkRolledBack, Where, IInv, TypeOK
    <2>3. ASSUME cancelled = "body"
          PROVE  /\ status'[attempt] \in {"rolled_back", "failed"}
                 /\ phase'[attempt] = "idle"
      BY <1>2, <2>1, <2>3
      DEF AddOperation, Rollback, BeginCommit, CommitStep, OperationReturns,
          OperationRaises, OperationInterrupted, CommitOk, CommitFails,
          RollbackBody, RollbackOk, RollbackRefused, RollbackRaises,
          MarkRolledBack, Token, IInv, TypeOK
    <2>4. Token'
      BY <2>1, <2>3 DEF Token, scope
    <2>5. Where' /\ Others' /\ Ends'
      BY <2>1, <2>2 DEF Where, Others, Ends, scope
    <2> QED BY <2>1, <2>4, <2>5 DEF scope
  <1>17. CASE ExitCall
    <2>1. /\ at = "commit" /\ phase[attempt] = "operation" /\ UNCHANGED scope
          /\ AddOperation(attempt) \/ Rollback(attempt)
      BY <1>17 DEF ExitCall
    <2>2. OnlyAttempt /\ status'[attempt] # "not_started" /\ UNCHANGED phase
      BY <1>2, <2>1
      DEF AddOperation, Rollback, RollbackBody, RollbackOk, RollbackRefused,
          RollbackRaises, MarkRolledBack, Where, IInv, TypeOK
    <2>3. Where' /\ Others' /\ Ends' /\ Token'
      BY <2>1, <2>2 DEF Where, Others, Ends, Token, scope
    <2> QED BY <2>1, <2>3 DEF scope
  <1>18. CASE Cancel
    <2>1. /\ kind = "async" /\ cancelled = "no" /\ UNCHANGED phase
          /\ UNCHANGED <<kind, auto, attempt, at, raising, outcome>>
          /\ cancelled' \in {"inactive", "body", "operation"}
          /\ cancelled' = "body"
               => status[attempt] = "started" /\ phase[attempt] = "idle"
      BY <1>18 DEF Cancel, UserCode
    <2>2. CASE status[attempt] # "started"
      BY <1>18, <2>1, <2>2 DEF Cancel, Where, Others, Ends, Token
    <2>3. CASE status[attempt] = "started"
      <3>1. OnlyAttempt /\ status'[attempt] \in {"rolled_back", "failed"}
        BY <1>2, <1>18, <2>3
        DEF Cancel, RollbackBody, RollbackOk, RollbackRefused, RollbackRaises,
            MarkRolledBack, IInv, TypeOK
      <3> QED
        BY <2>1, <2>3, <3>1 DEF Where, Others, Ends, Token
    <2> QED BY <2>2, <2>3
  <1>19. CASE UNCHANGED scopeVars
    BY <1>19 DEF scopeVars, scope, vars, Where, Others, Ends, Token
  <1> QED
    BY <1>3, <1>4, <1>5, <1>6, <1>7, <1>8, <1>9, <1>10, <1>11, <1>12, <1>14,
       <1>15, <1>16, <1>17, <1>18, <1>19
    DEF ScopeNext, ScopeStep

-----------------------------------------------------------------------------
(* The strengthening is an invariant of every scope and retry.             *)
THEOREM ScopeSInv == ScopeSpec => []SInv
  BY SInvInit, StepSInv, PTL DEF ScopeSpec

(* A scope is one of the users Transaction.tla is about.                   *)
THEOREM ScopeImplementsTransactions == ScopeSpec => Spec
  <1>1. ScopeInit => Init
    BY DEF ScopeInit
  <1> QED BY <1>1, ScopeStepIsStep, ScopeSInv, PTL DEF ScopeSpec, Spec

(* The variables of a scope keep their types.                              *)
THEOREM ScopeTypeCorrect == ScopeSpec => []ScopeTypeOK
  <1>1. SInv => ScopeTypeOK
    BY DEF SInv, IInv, ScopeTypes, ScopeTypeOK
  <1> QED BY <1>1, ScopeSInv, PTL

(* What returns to the caller of an auto-committing scope is committed.    *)
THEOREM ReturnedMeansCommittedHolds == ScopeSpec => []ReturnedMeansCommitted
  <1>1. SInv => ReturnedMeansCommitted
    BY DEF SInv, ScopeTypes, IInv, TxnInv, Ends, ReturnedMeansCommitted, Txn
  <1> QED BY <1>1, ScopeSInv, PTL

(* However many attempts are allowed, at most one of them commits, and none*)
(* when the retry raises.                                                  *)
THEOREM RetryCommitsOnceHolds == ScopeSpec => []RetryCommitsOnce
  <1>1. SInv => RetryCommitsOnce
    <2> SUFFICES ASSUME SInv, kind = "retry" PROVE RetryCommitsOnce
      BY DEF RetryCommitsOnce
    <2>1. attempt \in Txn /\ 1 .. attempt - 1 \subseteq Txn
      BY NAssumption DEF SInv, ScopeTypes, Txn
    <2>2. \A t \in 1 .. attempt - 1 : native[t] # "committed"
      BY <2>1, NAssumption DEF SInv, ScopeTypes, Others, IInv, TxnInv, Txn
    <2>3. outcome = "raised" => native[attempt] # "committed"
      BY <2>1 DEF SInv, Ends, IInv, TxnInv
    <2> QED BY <2>2, <2>3 DEF RetryCommitsOnce
  <1> QED BY <1>1, ScopeSInv, PTL

(* No way out of a scope that the code handles leaves a transaction that   *)
(* reports started.                                                        *)
THEOREM ScopeEndsTransactionHolds == ScopeSpec => []ScopeEndsTransaction
  <1>1. SInv => ScopeEndsTransaction
    BY NAssumption DEF SInv, ScopeTypes, Others, Ends, ScopeEndsTransaction, Txn
  <1> QED BY <1>1, ScopeSInv, PTL

(* A cancellation that reaches the body of async_transaction() decides.    *)
THEOREM CancelledBodyNeverCommitsHolds ==
    ScopeSpec => []CancelledBodyNeverCommits
  <1>1. SInv => CancelledBodyNeverCommits
    BY DEF SInv, ScopeTypes, Token, Ends, IInv, TxnInv, Txn,
           CancelledBodyNeverCommits
  <1> QED BY <1>1, ScopeSInv, PTL
=============================================================================
