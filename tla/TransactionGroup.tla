-------------------------- MODULE TransactionGroup --------------------------
(***************************************************************************)
(* TransactionGroup of src/revitpy/api/transaction.py over the N           *)
(* transactions of Transaction.tla: member t is the t-th added.            *)
(*                                                                         *)
(* start_all(), commit_all() and rollback_all() walk the members in order  *)
(* and one member's failure decides what happens to the rest; call says    *)
(* which walk is running and member where it is.  Between two group calls, *)
(* and from inside an operation, the caller may use a member directly: it  *)
(* holds the Transaction that add_transaction() returned.  An operation    *)
(* does not call the group that is running it.                             *)
(***************************************************************************)
EXTENDS Transaction

VARIABLES
    size,         \* len(_transactions)
    groupStatus,  \* the group's _status
    call,         \* the group method running, "in_commit" inside a commit()
    member,       \* the member its loop has reached
    committed     \* len(committed_transactions): members 1 .. committed

groupVars == <<size, groupStatus, call, member, committed>>
allVars == <<vars, groupVars>>

Members == 1 .. size

GroupInit ==
    /\ Init
    /\ size = 0
    /\ groupStatus = "not_started"
    /\ call = "none"
    /\ member = 1
    /\ committed = 0

(* No commit() is on the stack, apart perhaps from the one of t.           *)
AllIdleBut(t) == \A u \in Members \ {t} : phase[u] = "idle"

Idle == call = "none" /\ \A t \in Members : phase[t] = "idle"

AddTransaction ==
    /\ Idle
    /\ groupStatus = "not_started"
    /\ size < N
    /\ size' = size + 1
    /\ UNCHANGED <<vars, groupStatus, call, member, committed>>

-----------------------------------------------------------------------------
Enter(method) == call' = method /\ member' = 1

NextMember == member' = member + 1 /\ UNCHANGED call

(* start_all(): a member that does not start, or that the caller already   *)
(* started, turns the call into rollback_all().                            *)
StartAll ==
    /\ Idle
    /\ groupStatus = "not_started"
    /\ groupStatus' = "started"
    /\ Enter("start_all")
    /\ UNCHANGED <<vars, size, committed>>

StartMember ==
    /\ call = "start_all"
    /\ member \in Members
    /\ \/ StartOk(member) /\ NextMember
       \/ StartRaises(member) /\ Enter("rollback_all")
       \/ status[member] # "not_started" /\ Enter("rollback_all")
          /\ UNCHANGED vars
    /\ UNCHANGED <<size, groupStatus, committed>>

StartAllReturns ==
    /\ call = "start_all"
    /\ member \notin Members
    /\ Enter("none")
    /\ UNCHANGED <<vars, size, groupStatus, committed>>

(* commit_all(): the members are committed one by one.                     *)
CommitAll ==
    /\ Idle
    /\ groupStatus = "started"
    /\ Enter("commit_all")
    /\ committed' = 0
    /\ UNCHANGED <<vars, size, groupStatus>>

(* Mutant: commit_all() passes over a member that is not started.          *)
CommitMemberSkips ==
    /\ call = "commit_all"
    /\ member \in Members
    /\ \/ BeginCommit(member) /\ call' = "in_commit" /\ UNCHANGED member
       \/ status[member] # "started" /\ NextMember /\ UNCHANGED vars
    /\ UNCHANGED <<size, groupStatus, committed>>

(* commit() of a member that is not started raises at once.                *)
CommitMember ==
    /\ call = "commit_all"
    /\ member \in Members
    /\ \/ BeginCommit(member) /\ call' = "in_commit" /\ UNCHANGED member
       \/ status[member] # "started" /\ Enter("undo") /\ UNCHANGED vars
    /\ UNCHANGED <<size, groupStatus, committed>>

MemberOperation ==
    /\ call = "in_commit"
    /\ AllIdleBut(member)
    /\ OperationReturns(member)
    /\ UNCHANGED groupVars

MemberCommits ==
    /\ call = "in_commit"
    /\ CommitOk(member)
    /\ call' = "commit_all"
    /\ member' = member + 1
    /\ committed' = member
    /\ UNCHANGED <<size, groupStatus>>

(* The member's commit() raised.  committed_transactions, the members      *)
(* before it, are walked with rollback(), which their status makes a       *)
(* warning: the walk is over member and undoes nothing.                    *)
MemberFails ==
    /\ call = "in_commit"
    /\ AllIdleBut(member)
    /\ OperationRaises(member) \/ CommitFails(member)
    /\ Enter("undo")
    /\ UNCHANGED <<size, groupStatus, committed>>

(* KeyboardInterrupt in an operation passes commit_all() by as well: the   *)
(* group stays started, with the members before this one committed.        *)
MemberInterrupted ==
    /\ call = "in_commit"
    /\ AllIdleBut(member)
    /\ OperationInterrupted(member)
    /\ Enter("none")
    /\ UNCHANGED <<size, groupStatus, committed>>

UndoMember ==
    /\ call = "undo"
    /\ member <= committed
    /\ RollbackCall(member)
    /\ NextMember
    /\ UNCHANGED <<queued, ran, phase, commitRuns, size, groupStatus, committed>>

CommitAllRaises ==
    /\ call = "undo"
    /\ member > committed
    /\ groupStatus' = "failed"
    /\ Enter("none")
    /\ UNCHANGED <<vars, size, committed>>

CommitAllReturns ==
    /\ call = "commit_all"
    /\ member \notin Members
    /\ groupStatus' = "committed"
    /\ Enter("none")
    /\ UNCHANGED <<vars, size, committed>>

(* rollback_all(): every member, whatever became of the ones before it.    *)
RollbackAll ==
    /\ Idle
    /\ groupStatus \in {"started", "failed"}
    /\ Enter("rollback_all")
    /\ UNCHANGED <<vars, size, groupStatus, committed>>

(* Mutant: rollback_all() ends at the first rollback that raises.          *)
RollbackMemberStops ==
    /\ call = "rollback_all"
    /\ member \in Members
    /\ RollbackCall(member)
    /\ member' = IF status'[member] = "failed" THEN size + 1 ELSE member + 1
    /\ UNCHANGED <<call, queued, ran, phase, commitRuns, size, groupStatus,
                   committed>>

RollbackMember ==
    /\ call = "rollback_all"
    /\ member \in Members
    /\ RollbackCall(member)
    /\ NextMember
    /\ UNCHANGED <<queued, ran, phase, commitRuns, size, groupStatus, committed>>

RollbackAllReturns ==
    /\ call = "rollback_all"
    /\ member \notin Members
    /\ groupStatus' = "rolled_back"
    /\ Enter("none")
    /\ UNCHANGED <<vars, size, committed>>

-----------------------------------------------------------------------------
(* The caller on a member: outside the group's calls, or in an operation.  *)
(* A commit() made from an operation returns before the operation does.    *)
CallerRuns ==
    \/ call = "none"
    \/ call = "in_commit" /\ phase[member] = "operation"

MemberCall ==
    /\ CallerRuns
    /\ \E t \in Members : Start(t) \/ AddOperation(t) \/ Rollback(t)
    /\ UNCHANGED groupVars

MemberCommit ==
    /\ CallerRuns
    /\ \E t \in Members :
          /\ call = "none" \/ t # member
          /\ BeginCommit(t) \/ CommitStep(t)
    /\ UNCHANGED groupVars

GroupStep ==
    \/ StartMember \/ StartAllReturns
    \/ CommitMember \/ MemberOperation \/ MemberCommits \/ MemberFails
    \/ MemberInterrupted
    \/ UndoMember \/ CommitAllRaises \/ CommitAllReturns
    \/ RollbackMember \/ RollbackAllReturns

GroupNext ==
    \/ AddTransaction \/ StartAll \/ CommitAll \/ RollbackAll
    \/ GroupStep
    \/ MemberCall \/ MemberCommit

GroupSpec == GroupInit /\ [][GroupNext]_allVars

-----------------------------------------------------------------------------
GroupTypeOK ==
    /\ TypeOK
    /\ size \in 0 .. N
    /\ groupStatus \in TransactionStatus
    /\ call \in {"none", "start_all", "commit_all", "in_commit", "undo",
                 "rollback_all"}
    /\ member \in 1 .. N + 1
    /\ committed \in 0 .. N

(* A group reports committed only when every member is committed in the    *)
(* host, whatever the operations of the members did to one another.        *)
CommittedGroupIsWhole ==
    groupStatus = "committed" => \A t \in Members : native[t] = "committed"

(* When rollback_all() returns, or start_all() has failed, no member is    *)
(* left reporting started, whichever rollbacks were refused or raised.     *)
RollbackAllLeavesNoneStarted ==
    [][call = "rollback_all" /\ call' = "none"
          => \A t \in Members : status'[t] # "started"]_allVars

(* Members are committed in order: while commit_all() runs and when it has *)
(* failed, everything before the member it reached is committed for good,  *)
(* which no later failure, rollback_all() or caller undoes.                *)
CommitsStand ==
    /\ \A t \in 1 .. committed : native[t] = "committed"
    /\ call = "in_commit" => committed = member - 1

(* docs/technical/security.md:242, "TransactionGroup.commit_all() rolls    *)
(* back all already-committed transactions in the group if any individual  *)
(* commit fails": none of the members commit_all() committed before the    *)
(* one that failed is still committed in the host.                         *)
FailedGroupIsUndone ==
    groupStatus = "failed" => \A t \in 1 .. committed : native[t] # "committed"
=============================================================================
