---------------------------- MODULE AsyncProofs ----------------------------
(***************************************************************************)
(* Proofs about the parts of the library that run in an event loop: the    *)
(* asynchronous transaction, with_cancellation() and the cloud client's    *)
(* rate limiter.                                                           *)
(***************************************************************************)
EXTENDS AsyncTransaction, Cancellation, CloudClient, SequenceTheorems,
        WellFoundedInduction, TLAPS

-----------------------------------------------------------------------------
(* AsyncTransaction.                                                       *)
(*                                                                         *)
(* A task that awaits the unit of work has the lock, so that nothing ends  *)
(* the context while it waits: neither another commit() or rollback() nor  *)
(* the timeout.  Only a context that nothing has answered for yet - or     *)
(* whose answer was cut off - is active.                                   *)
AwaitsWithLock ==
    \A t \in Task : method[t] \in {"commits", "rolls_back"} /\ t \notin stuck
                     => holder = t /\ active

OpenWhileActive == active => outcome = "open" \/ cut

AsyncInv ==
    /\ method = [t \in Task |-> method[t]]
    /\ AwaitsWithLock
    /\ OpenWhileActive

UnitAnswered == outcome \in {"committed", "rolled_back", "unknown"} /\ ~cut

Stands == UnitAnswered => outcome' = outcome \/ (outcome' = "open" /\ active')

LEMMA AsyncInvInit == AsyncInit => AsyncInv
  BY DEF AsyncInit, AsyncInv, AwaitsWithLock, OpenWhileActive

(* The task that has the lock leaves its method: no other task awaits.     *)
LEMMA HolderLeaves ==
    ASSUME AsyncInv, NEW t \in Task, holder = t,
           method' = [method EXCEPT ![t] = "none"],
           \A u \in Task \ {t} : u \notin stuck' => u \notin stuck
    PROVE  /\ (method = [u \in Task |-> method[u]])'
           /\ AwaitsWithLock'
<1>1. method' = [u \in Task |-> IF u = t THEN "none" ELSE method[u]]
  BY DEF AsyncInv
<1>2. ASSUME NEW u \in Task \ {t}, u \notin stuck
      PROVE  method[u] \notin {"commits", "rolls_back"}
  BY <1>2 DEF AsyncInv, AwaitsWithLock
<1> QED
  BY <1>1, <1>2 DEF AwaitsWithLock

(* A call of a method takes the lock only from nobody.                     *)
LEMMA CallKeeps ==
    ASSUME AsyncInv, NEW t \in Task, NEW op \in Op, Calls(t, op),
           UNCHANGED transactionVars
    PROVE  AsyncInv' /\ Stands
<1>1. method' = [u \in Task |-> IF u = t THEN op ELSE method[u]]
  BY DEF AsyncInv, Calls
<1>2. op \notin {"commits", "rolls_back"}
  BY DEF Op
<1>3. ASSUME NEW u \in Task, holder = u PROVE holder' = holder
  BY <1>3, LockAssumption DEF Calls, Acquires
<1>4. stuck' = stuck
  BY DEF Calls, Acquires
<1>5. UNCHANGED <<active, outcome, cut>>
  BY DEF transactionVars
<1>6. AwaitsWithLock'
  BY <1>1, <1>2, <1>3, <1>4, <1>5 DEF AsyncInv, AwaitsWithLock
<1> QED
  BY <1>1, <1>5, <1>6 DEF AsyncInv, OpenWhileActive, Stands

LEMMA MethodKeeps ==
    ASSUME AsyncInv, NEW t \in Task,
           MethodRuns(t) \/ AwaitCancelled(t) \/ LockCancelled(t)
    PROVE  AsyncInv' /\ Stands
<1>1. CASE BeginRuns(t)
  <2>1. (method = [u \in Task |-> method[u]])' /\ AwaitsWithLock'
    BY <1>1, HolderLeaves
    DEF BeginRuns, Has, Holds, Leaves, MethodEnds, Releases
  <2>2. active' = TRUE
        /\ IF active THEN UNCHANGED <<outcome, cut>> ELSE outcome' = "open"
    BY <1>1 DEF BeginRuns
  <2> QED
    BY <2>1, <2>2 DEF AsyncInv, OpenWhileActive, Stands
<1>2. CASE RefusedCall(t) \/ EndNested(t)
  <2>1. (method = [u \in Task |-> method[u]])' /\ AwaitsWithLock'
    BY <1>2, HolderLeaves
    DEF RefusedCall, EndNested, Has, Holds, Leaves, MethodEnds, Releases
  <2>2. UNCHANGED <<active, outcome, cut>>
    BY <1>2 DEF RefusedCall, EndNested, transactionVars
  <2> QED
    BY <2>1, <2>2 DEF AsyncInv, OpenWhileActive, Stands
<1>3. CASE CommitStarts(t) \/ RollbackStarts(t)
  <2>1. PICK await : method' = [method EXCEPT ![t] = await]
    BY <1>3 DEF CommitStarts, RollbackStarts, AwaitsUnit
  <2>2. method' = [u \in Task |-> IF u = t THEN await ELSE method[u]]
    BY <2>1 DEF AsyncInv
  <2>3. /\ holder = t /\ active
        /\ UNCHANGED <<holder, stuck, active, outcome, cut>>
    BY <1>3 DEF CommitStarts, RollbackStarts, AwaitsUnit, Has, Holds,
                lockVars, transactionVars
  <2>4. AwaitsWithLock'
    BY <2>2, <2>3 DEF AsyncInv, AwaitsWithLock
  <2> QED
    BY <2>2, <2>3, <2>4 DEF AsyncInv, OpenWhileActive, Stands
<1>4. CASE CommitOk(t) \/ RollbackOk(t) \/ RollbackFails(t)
  <2>1. (method = [u \in Task |-> method[u]])' /\ AwaitsWithLock'
    BY <1>4, HolderLeaves
    DEF CommitOk, RollbackOk, RollbackFails, Has, Holds, Leaves, MethodEnds,
        Releases
  <2>2. active /\ active' = FALSE
    BY <1>4 DEF CommitOk, RollbackOk, RollbackFails, Has, Holds, AsyncInv,
                AwaitsWithLock
  <2> QED
    BY <2>1, <2>2 DEF AsyncInv, OpenWhileActive, Stands, UnitAnswered
<1>5. CASE CommitFails(t)
  <2>1. /\ holder = t /\ stuck' = stuck \cup {t}
        /\ UNCHANGED <<holder, method, active, outcome, cut>>
    BY <1>5 DEF CommitFails, Has, Holds, WaitsForItself, transactionVars
  <2>2. AwaitsWithLock'
    BY <2>1 DEF AsyncInv, AwaitsWithLock
  <2> QED
    BY <2>1, <2>2 DEF AsyncInv, OpenWhileActive, Stands
<1>6. CASE AwaitCancelled(t)
  <2>1. (method = [u \in Task |-> method[u]])' /\ AwaitsWithLock'
    BY <1>6, HolderLeaves
    DEF AwaitCancelled, Has, Holds, Leaves, MethodEnds, Releases
  <2>2. active /\ cut' = TRUE
    BY <1>6 DEF AwaitCancelled, Has, Holds, AsyncInv, AwaitsWithLock
  <2> QED
    BY <2>1, <2>2 DEF AsyncInv, OpenWhileActive, Stands, UnitAnswered
<1>7. CASE LockCancelled(t)
  <2>1. /\ method' = [method EXCEPT ![t] = "none"]
        /\ UNCHANGED <<active, outcome, cut>>
    BY <1>7 DEF LockCancelled, MethodEnds, transactionVars
  <2>2. method' = [u \in Task |-> IF u = t THEN "none" ELSE method[u]]
    BY <2>1 DEF AsyncInv
  <2>3. ASSUME holder # t, GivesUp(t) PROVE AwaitsWithLock'
    BY <2>1, <2>2, <2>3 DEF GivesUp, AsyncInv, AwaitsWithLock
  <2>4. ASSUME holder = t, GivesUpBoth(t) PROVE AwaitsWithLock'
    BY <2>1, <2>4, HolderLeaves DEF GivesUpBoth
  <2>5. AwaitsWithLock'
    BY <1>7, <2>3, <2>4 DEF LockCancelled
  <2> QED
    BY <2>1, <2>2, <2>5 DEF AsyncInv, OpenWhileActive, Stands
<1> QED
  BY <1>1, <1>2, <1>3, <1>4, <1>5, <1>6, <1>7 DEF MethodRuns

(* Every step keeps the answer, or begins the next context.                *)
LEMMA AsyncStep ==
    AsyncInv /\ [AsyncNext]_asyncVars => AsyncInv' /\ [Stands]_asyncVars
<1> SUFFICES ASSUME AsyncInv, [AsyncNext]_asyncVars
             PROVE  AsyncInv' /\ Stands
  OBVIOUS
<1>1. ASSUME UNCHANGED <<method, holder, stuck, active, outcome, cut>>
      PROVE  AsyncInv' /\ Stands
  BY <1>1 DEF AsyncInv, AwaitsWithLock, OpenWhileActive, Stands
<1>2. {"body", "timer"} \subseteq Task
  BY AsyncAssumption
<1>3. {"begin", "commit", "rollback"} \subseteq Op
  BY DEF Op
<1>4. CASE Enter
  BY <1>2, <1>3, <1>4, CallKeeps DEF Enter
<1>5. CASE LeaveBody
  BY <1>1, <1>2, <1>3, <1>5, CallKeeps DEF LeaveBody, lockVars, transactionVars
<1>6. CASE BodyRaises
  BY <1>2, <1>3, <1>6, CallKeeps DEF BodyRaises
<1>7. CASE TimerFires
  BY <1>1, <1>2, <1>3, <1>7, CallKeeps DEF TimerFires, lockVars, transactionVars
<1>8. ASSUME NEW t \in Task \ {"timer"}, NEW op \in Op, CallMethod(t, op)
      PROVE  AsyncInv' /\ Stands
  BY <1>8, CallKeeps DEF CallMethod
<1>9. CASE UNCHANGED asyncVars
  BY <1>1, <1>9 DEF asyncVars, lockVars
<1> QED
  BY <1>4, <1>5, <1>6, <1>7, <1>8, <1>9, MethodKeeps DEF AsyncNext

(* A transaction is committed or rolled back once, over every interleaving *)
(* of tasks, timeout and exit of the body with the awaits of the unit of   *)
(* work: its answer stands until the next begin(), unless an await of it   *)
(* was cancelled.                                                          *)
THEOREM OneOutcomeHolds == AsyncSpec => OneOutcome
<1>1. [Stands]_asyncVars
        => [(outcome \in {"committed", "rolled_back", "unknown"} /\ ~cut)
              => outcome' = outcome \/ (outcome' = "open" /\ active')]_asyncVars
  BY DEF Stands, UnitAnswered
<1> QED
  BY AsyncInvInit, AsyncStep, <1>1, PTL DEF AsyncSpec, OneOutcome

-----------------------------------------------------------------------------
(* Cancellation.                                                           *)
(*                                                                         *)
(* What the two tasks may be doing at each place of with_cancellation():   *)
(* neither is told to stop before the other has ended, and the one that is *)
(* waited for last is the one that was told.                               *)
TasksAreOf ==
    /\ operation \in {"runs", "asked"} \cup Ended
    /\ monitor \in {"runs", "asked", "raised", "stopped"}

NobodyAsked ==
    caller = "waits" =>
      /\ operation \in {"runs", "returned", "raised"}
      /\ monitor \in {"runs", "raised"}

MonitorAsked ==
    caller = "stops_monitor" =>
      operation \in {"returned", "raised"} /\ monitor # "runs"

OperationAsked ==
    caller = "stops_operation" => operation # "runs" /\ monitor = "raised"

CallInv ==
    /\ TasksAreOf /\ NobodyAsked /\ MonitorAsked /\ OperationAsked
    /\ CallTellsTheEnd

LEMMA CallInit == CancellationInit => CallInv
  BY DEF CancellationInit, CallInv, TasksAreOf, NobodyAsked, MonitorAsked,
         OperationAsked, CallTellsTheEnd, CallEnded

LEMMA CallStep == CallInv /\ [CancellationNext]_cancellationVars => CallInv'
<1> SUFFICES ASSUME CallInv, [CancellationNext]_cancellationVars
             PROVE  CallInv'
  OBVIOUS
<1> USE DEF CallInv, TasksAreOf, NobodyAsked, MonitorAsked, OperationAsked,
            CallTellsTheEnd, CallEnded, Ended
<1>1. CASE TokenCancelled \/ DeadlinePasses \/ UNCHANGED cancellationVars
  BY <1>1 DEF TokenCancelled, DeadlinePasses, cancellationVars
<1>2. CASE OperationEnds
  BY <1>2 DEF OperationEnds
<1>3. CASE MonitorEnds
  BY <1>3 DEF MonitorEnds
<1>4. CASE WaitSeesOperation
  BY <1>4 DEF WaitSeesOperation
<1>5. CASE WaitSeesMonitor
  BY <1>5 DEF WaitSeesMonitor
<1>6. CASE WaitSeesBoth
  BY <1>6 DEF WaitSeesBoth, CallEnds
<1>7. CASE MonitorStopped
  BY <1>7 DEF MonitorStopped, CallEnds
<1>8. CASE OperationStopped
  BY <1>8 DEF OperationStopped, CallEnds
<1>9. CASE CallerCancelled
  BY <1>9 DEF CallerCancelled, CallEnds
<1> QED
  BY <1>1, <1>2, <1>3, <1>4, <1>5, <1>6, <1>7, <1>8, <1>9
  DEF CancellationNext

(* A call of with_cancellation() that was not itself cancelled leaves      *)
(* neither the operation nor the monitor running, and reports the end that *)
(* there was.                                                              *)
THEOREM CallTellsTheEndHolds == CancellationSpec => []CallTellsTheEnd
<1>1. CallInv => CallTellsTheEnd
  BY DEF CallInv
<1> QED
  BY CallInit, CallStep, <1>1, PTL DEF CancellationSpec

-----------------------------------------------------------------------------
(* CloudClient.                                                            *)
(*                                                                         *)
(* The limiter drops the leading times that are old.                       *)
LEMMA LeastOne ==
    ASSUME NEW T \in SUBSET Nat, T # {}
    PROVE  \E x \in T : \A y \in T : x <= y
<1> DEFINE R == OpToRel(<, Nat)
<1>1. IsWellFoundedOn(R, Nat)
  BY NatLessThanWellFounded
<1> HIDE DEF R
<1>2. PICK x \in T : \A y \in T : ~(<<y, x>> \in R)
  BY <1>1, WFMin, Zenon
<1>3. \A y \in T : ~(y < x)
  BY <1>2 DEF R, OpToRel
<1> QED
  BY <1>3

LEMMA RecentIs ==
    ASSUME now \in Nat, times \in Seq(Nat)
    PROVE  \E k \in 1 .. Len(times) + 1 :
             /\ k <= Len(times) => ~IsOld(times[k])
             /\ Recent \in Seq(Nat)
             /\ Len(Recent) = Len(times) + 1 - k
             /\ \A i \in 1 .. Len(Recent) : Recent[i] = times[i + k - 1]
<1> DEFINE Cut(i) == /\ \A j \in 1 .. i - 1 : IsOld(times[j])
                     /\ i <= Len(times) => ~IsOld(times[i])
           T == {i \in 1 .. Len(times) + 1 :
                   i <= Len(times) => ~IsOld(times[i])}
<1>1. \E x \in T : \A y \in T : x <= y
  <2>1. T \subseteq Nat /\ Len(times) + 1 \in T
    OBVIOUS
  <2> QED
    BY <2>1, LeastOne
<1>2. \E i \in 1 .. Len(times) + 1 : Cut(i)
  <2>1. PICK x \in T : \A y \in T : x <= y
    BY <1>1
  <2>2. \A j \in 1 .. x - 1 : j \in 1 .. Len(times) /\ j \notin T
    BY <2>1
  <2> QED
    BY <2>1, <2>2
<1>3. PICK k : k = FirstRecent
  OBVIOUS
<1>4. k \in 1 .. Len(times) + 1 /\ Cut(k)
  BY <1>2, <1>3 DEF FirstRecent
<1>5. Recent = SubSeq(times, k, Len(times))
  BY <1>3 DEF Recent
<1> HIDE DEF Cut
<1>6. \A i \in k .. Len(times) : times[i] \in Nat
  BY <1>4
<1>7. k \in Int /\ Len(times) \in Int
  BY <1>4
<1>8. /\ Recent \in Seq(Nat)
      /\ Len(Recent) = IF k <= Len(times) THEN Len(times) - k + 1 ELSE 0
      /\ \A i \in 1 .. Len(times) - k + 1 : Recent[i] = times[k + i - 1]
  BY <1>5, <1>6, <1>7, SubSeqProperties
<1>9. \A i \in 1 .. Len(Recent) : Recent[i] = times[i + k - 1]
  BY <1>4, <1>8
<1>10. k <= Len(times) => ~IsOld(times[k])
  BY <1>4 DEF Cut
<1>11. Len(Recent) = Len(times) + 1 - k
  BY <1>4, <1>8
<1> QED
  BY <1>4, <1>8, <1>9, <1>10, <1>11, Zenon

(* With one task, the only request is where request[s] says: while it is   *)
(* sent no time is later than its own, and everywhere else a tick has      *)
(* passed since the latest.  It sleeps until the oldest of a full list is  *)
(* a window ago.                                                           *)
OneSender == \A s, t \in Sender : s = t

ClientTypes ==
    /\ now \in Nat
    /\ times \in Seq(Nat)
    /\ request = [s \in Sender |-> request[s]]
    /\ \A s \in Sender : request[s].at = "sent" => request[s].time \in Nat

NotLater ==
    \A s \in Sender, i \in DOMAIN times :
      IF request[s].at = "sent" THEN times[i] <= request[s].time
                                ELSE times[i] < now

Sleeps ==
    \A s \in Sender : request[s].at = "sleeps" =>
      Len(times) = MaxRequests /\ request[s].time = times[1] + Window

RateInv ==
    /\ ClientTypes
    /\ Len(times) <= MaxRequests + 1
    /\ NotLater
    /\ Sleeps
    /\ RateIsKept

LEMMA RateInit == ClientInit => RateInv
  BY ClientAssumption DEF ClientInit, RateInv, ClientTypes, NotLater, Sleeps,
                          RateIsKept, NoRequest

(* What is left of the list is not longer than the limit: a longer one has *)
(* its first time dropped.                                                 *)
LEMMA RecentFits ==
    ASSUME RateInv, NEW s \in Sender, request[s].at # "sent"
    PROVE  /\ Recent \in Seq(Nat)
           /\ Len(Recent) <= MaxRequests
           /\ \A i \in 1 .. Len(Recent) : Recent[i] < now
<1>1. /\ now \in Nat /\ times \in Seq(Nat)
      /\ Len(times) <= MaxRequests + 1
      /\ MaxRequests \in Nat \ {0} /\ Window \in Nat \ {0}
  BY ClientAssumption DEF RateInv, ClientTypes
<1>2. PICK k \in 1 .. Len(times) + 1 :
             /\ k <= Len(times) => ~IsOld(times[k])
             /\ Recent \in Seq(Nat)
             /\ Len(Recent) = Len(times) + 1 - k
             /\ \A i \in 1 .. Len(Recent) : Recent[i] = times[i + k - 1]
  BY <1>1, RecentIs
<1>3. \A i \in 1 .. Len(times) : times[i] \in Nat /\ times[i] < now
  <2>1. \A i \in DOMAIN times : times[i] < now
    BY DEF RateInv, NotLater
  <2> QED
    BY <1>1, <2>1
<1>4. \A i \in 1 .. Len(Recent) : i + k - 1 \in 1 .. Len(times)
  <2>1. PICK m, n : m = Len(Recent) /\ n = Len(times)
    OBVIOUS
  <2>2. n \in Nat /\ k \in 1 .. n + 1 /\ m = n + 1 - k
    BY <1>1, <1>2, <2>1
  <2>3. \A i \in 1 .. m : i + k - 1 \in 1 .. n
    BY <2>2
  <2> QED
    BY <2>1, <2>3
<1>5. \A i \in 1 .. Len(Recent) : Recent[i] < now
  BY <1>2, <1>3, <1>4
<1>6. CASE Len(times) = MaxRequests + 1
  <2>1. times[MaxRequests + 1] - times[1] >= Window
    <3>1. MaxRequests + 1 \in DOMAIN times
          /\ (MaxRequests + 1) - MaxRequests = 1
      BY <1>1, <1>6
    <3>2. times[MaxRequests + 1] - times[(MaxRequests + 1) - MaxRequests]
            >= Window
      BY <1>1, <3>1 DEF RateInv, RateIsKept
    <3> QED
      BY <3>1, <3>2
  <2>2. now - times[1] > Window
    <3>1. /\ times[MaxRequests + 1] \in Nat /\ times[MaxRequests + 1] < now
          /\ times[1] \in Nat
      BY <1>1, <1>3, <1>6
    <3> QED
      BY <1>1, <2>1, <3>1
  <2>3. k # 1
    <3>1. SUFFICES ASSUME k = 1 PROVE FALSE
      OBVIOUS
    <3> QED
      BY <1>1, <1>2, <1>6, <2>2, <3>1 DEF IsOld
  <2> QED
    BY <1>1, <1>2, <1>5, <1>6, <2>3
<1> QED
  BY <1>1, <1>2, <1>5, <1>6

(* A time appended to a list that is not full, or to one that is full and  *)
(* whose first is a window ago.                                            *)
LEMMA SendKeeps ==
    ASSUME OneSender, RateInv, NEW s \in Sender, NEW earlier \in Seq(Nat),
           Len(earlier) <= MaxRequests,
           Len(earlier) = MaxRequests => earlier[1] + Window <= now,
           \A i \in 1 .. Len(earlier) : earlier[i] < now,
           Send(s, earlier), now' = now
    PROVE  RateInv'
<1>1. now \in Nat /\ now' = now
      /\ MaxRequests \in Nat \ {0} /\ Window \in Nat \ {0}
  BY ClientAssumption DEF RateInv, ClientTypes
<1>2. /\ times' \in Seq(Nat) /\ Len(times') = Len(earlier) + 1
      /\ \A i \in 1 .. Len(earlier) : times'[i] = earlier[i]
      /\ times'[Len(earlier) + 1] = now
  BY <1>1, AppendProperties DEF Send
<1>3. request' = [t \in Sender |->
                    [at |-> "sent", attempt |-> request[t].attempt,
                     time |-> now]]
  <2>1. request = [t \in Sender |-> request[t]]
    BY DEF RateInv, ClientTypes
  <2> QED
    BY <2>1 DEF Send, MovesTo, OneSender
<1>4. ClientTypes'
  BY <1>1, <1>2, <1>3 DEF ClientTypes
<1>5. \A i \in DOMAIN times' : times'[i] \in Nat /\ times'[i] <= now
  BY <1>1, <1>2
<1>6. NotLater' /\ Sleeps'
  BY <1>3, <1>5 DEF NotLater, Sleeps
<1>7. RateIsKept'
  BY <1>1, <1>2 DEF RateIsKept
<1> QED
  BY <1>1, <1>2, <1>4, <1>6, <1>7 DEF RateInv

(* A request that moves on without a send, once its answer is there.       *)
LEMMA MovingKeeps ==
    ASSUME OneSender, RateInv, NEW s \in Sender,
           request[s].at = "sent" => now > request[s].time,
           NEW a, NEW n, NEW t, a \notin {"sent", "sleeps"},
           request' = [request EXCEPT ![s] =
                         [at |-> a, attempt |-> n, time |-> t]],
           UNCHANGED <<now, times>>
    PROVE  RateInv'
<1>1. now \in Nat /\ times \in Seq(Nat)
  BY DEF RateInv, ClientTypes
<1>2. request' = [r \in Sender |-> [at |-> a, attempt |-> n, time |-> t]]
  <2>1. request = [r \in Sender |-> request[r]]
    BY DEF RateInv, ClientTypes
  <2> QED
    BY <2>1 DEF OneSender
<1>3. \A i \in DOMAIN times : times[i] < now
  <2>1. ASSUME NEW i \in DOMAIN times PROVE times[i] < now
    <3>1. times[i] \in Nat
      BY <1>1, <2>1
    <3>2. IF request[s].at = "sent" THEN times[i] <= request[s].time
                                    ELSE times[i] < now
      BY DEF RateInv, NotLater
    <3>3. CASE request[s].at # "sent"
      BY <3>2, <3>3
    <3>4. CASE request[s].at = "sent"
      <4>1. /\ times[i] <= request[s].time /\ request[s].time < now
            /\ request[s].time \in Nat
        BY <3>2, <3>4 DEF RateInv, ClientTypes
      <4> QED
        BY <1>1, <3>1, <4>1
    <3> QED
      BY <3>3, <3>4
  <2> QED
    BY <2>1
<1>4. ClientTypes'
  <2>1. request' = [r \in Sender |-> request'[r]]
    BY <1>2
  <2>2. \A r \in Sender : request'[r].at = a
    BY <1>2
  <2> QED
    BY <1>1, <2>1, <2>2 DEF ClientTypes
<1>5. NotLater'
  BY <1>2, <1>3 DEF NotLater
<1>6. Sleeps'
  BY <1>2 DEF Sleeps
<1>7. (Len(times) <= MaxRequests + 1)' /\ RateIsKept'
  BY DEF RateInv, RateIsKept
<1> QED
  BY <1>4, <1>5, <1>6, <1>7 DEF RateInv

LEMMA RateStep ==
    ASSUME OneSender, RateInv, [ClientNext]_clientVars
    PROVE  RateInv'
<1> USE ClientAssumption DEF RateInv, ClientTypes
<1>1. CASE Tick
  <2>1. now' = now + 1 /\ times' = times /\ request' = request
    BY <1>1 DEF Tick
  <2>2. NotLater'
    BY <2>1 DEF NotLater
  <2> QED
    BY <2>1, <2>2 DEF Sleeps, RateIsKept
<1>2. ASSUME NEW s \in Sender, Request(s)
      PROVE  RateInv'
  <2>1. request' = [request EXCEPT ![s] =
                      [at |-> "limiter", attempt |-> request[s].attempt,
                       time |-> 0]]
    BY <1>2 DEF Request, MovesTo
  <2>2. request[s].at = "none" /\ UNCHANGED <<now, times>>
    BY <1>2 DEF Request
  <2> QED
    BY <2>1, <2>2, MovingKeeps
<1>3. ASSUME NEW s \in Sender, SendAtOnce(s)
      PROVE  RateInv'
  <2>1. Recent \in Seq(Nat) /\ Len(Recent) <= MaxRequests
        /\ \A i \in 1 .. Len(Recent) : Recent[i] < now
    BY <1>3, RecentFits DEF SendAtOnce
  <2>2. Len(Recent) = MaxRequests => Recent[1] + Window <= now
    BY <1>3, <2>1 DEF SendAtOnce, IsFull
  <2> QED
    BY <1>3, <2>1, <2>2, SendKeeps DEF SendAtOnce
<1>4. ASSUME NEW s \in Sender, WaitForRoom(s)
      PROVE  RateInv'
  <2>1. Recent \in Seq(Nat) /\ Len(Recent) <= MaxRequests
        /\ \A i \in 1 .. Len(Recent) : Recent[i] < now
    BY <1>4, RecentFits DEF WaitForRoom
  <2>2. Len(Recent) = MaxRequests /\ times' = Recent /\ now' = now
    BY <1>4, <2>1 DEF WaitForRoom, IsFull
  <2>3. request' = [r \in Sender |->
                      [at |-> "sleeps", attempt |-> request[r].attempt,
                       time |-> Recent[1] + Window]]
    BY <1>4, <2>1, <2>2 DEF WaitForRoom, MovesTo, OneSender
  <2>4. ClientTypes' /\ NotLater' /\ Sleeps' /\ RateIsKept'
    BY <2>1, <2>2, <2>3 DEF NotLater, Sleeps, RateIsKept
  <2> QED
    BY <2>1, <2>2, <2>4
<1>5. ASSUME NEW s \in Sender, SendAfterSleep(s)
      PROVE  RateInv'
  <2>1. \A i \in 1 .. Len(times) : times[i] < now
    BY <1>5 DEF SendAfterSleep, NotLater
  <2>2. Len(times) = MaxRequests /\ times[1] + Window <= now
    BY <1>5 DEF SendAfterSleep, Sleeps
  <2> QED
    BY <1>5, <2>1, <2>2, SendKeeps DEF SendAfterSleep
<1>6. ASSUME NEW s \in Sender, Answered(s), UNCHANGED <<now, times>>,
             BackOff(s) \/ request' = [request EXCEPT ![s] = NoRequest]
      PROVE  RateInv'
  <2>1. \E a \in {"none", "backoff"} : \E n, t :
          request' = [request EXCEPT ![s] =
                        [at |-> a, attempt |-> n, time |-> t]]
    <3>1. CASE BackOff(s)
      <4>1. request' = [request EXCEPT ![s] =
                          [at |-> "backoff", attempt |-> request[s].attempt,
                           time |-> now + Window * 2 ^ request[s].attempt]]
        BY <3>1 DEF BackOff, MovesTo
      <4> QED
        BY <4>1
    <3>2. CASE request' = [request EXCEPT ![s] = NoRequest]
      BY <3>2 DEF NoRequest
    <3> QED
      BY <1>6, <3>1, <3>2
  <2>2. now > request[s].time
    BY <1>6 DEF Answered
  <2> QED
    BY <1>6, <2>1, <2>2, MovingKeeps
<1>7. ASSUME NEW s \in Sender, BackoffOver(s)
      PROVE  RateInv'
  <2>1. \E a \in {"none", "limiter"} : \E n, t :
          request' = [request EXCEPT ![s] =
                        [at |-> a, attempt |-> n, time |-> t]]
    BY <1>7 DEF BackoffOver, NoRequest
  <2>2. request[s].at = "backoff"
    BY <1>7 DEF BackoffOver
  <2> QED
    BY <1>7, <2>1, <2>2, MovingKeeps DEF BackoffOver
<1>8. CASE UNCHANGED clientVars
  BY <1>8 DEF clientVars, NotLater, Sleeps, RateIsKept
<1>9. ASSUME NEW s \in Sender,
             RequestEnds(s) \/ RetryableStatus(s) \/ TransportFails(s)
      PROVE  RateInv'
  BY <1>6, <1>9 DEF RequestEnds, RetryableStatus, TransportFails
<1> QED
  BY <1>1, <1>2, <1>3, <1>4, <1>5, <1>7, <1>8, <1>9 DEF ClientNext

(* Used by one task, over sleeps, retries and backoffs, the client sends no*)
(* more requests within a second than _MAX_REQUESTS_PER_SECOND.            *)
THEOREM RateIsKeptHolds == OneSender => (ClientSpec => []RateIsKept)
<1> SUFFICES ASSUME OneSender PROVE ClientSpec => []RateIsKept
  OBVIOUS
<1>1. RateInv /\ [ClientNext]_clientVars => RateInv'
  BY RateStep
<1>2. RateInv => RateIsKept
  BY DEF RateInv
<1> QED
  BY RateInit, <1>1, <1>2, PTL DEF ClientSpec
=============================================================================
