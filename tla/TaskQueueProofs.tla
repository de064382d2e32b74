--------------------------- MODULE TaskQueueProofs ---------------------------
(***************************************************************************)
(* A task is in one place: OnePlace of TaskQueue, for any number of tasks, *)
(* workers, retries and restarts, and any size of the queue.               *)
(*                                                                         *)
(* OnePlace is not inductive.  A retry could start in a worker that has no *)
(* task, a put-back could return a task that ran, and a start() could give *)
(* a new coroutine the number of a worker that still has a task in hand.   *)
(* Hands excludes the three: it ties what a worker has in hand to where it *)
(* stands, and keeps the numbers start() has not yet given out unused.     *)
(*                                                                         *)
(* The second part is about workers, as long as no start() overlapped a    *)
(* stop(): those alive are of one generation, the one _worker_tasks names  *)
(* (OneGeneration), which gives NoWorkerAfterStop and RunningAtMostMax.       *)
(*                                                                         *)
(* The third is about single steps: how a task may be lost, where          *)
(* Interrupts says whom stop() cancels, and what wait_for_task() may       *)
(* answer.                                                                 *)
(***************************************************************************)
EXTENDS TaskQueue, FiniteSetTheorems, TLAPS

-----------------------------------------------------------------------------
(* OnePlace, worker by worker.                                             *)
Places ==
    /\ \A v, w \in Worker : v # w /\ hold[v] # NoTask => hold[v] # hold[w]
    /\ \A w \in Worker : hold[w] # NoTask =>
          /\ hold[w] \notin pending
          /\ hold[w] \notin lost
    /\ pending \cap lost = {}
    /\ \A t \in pending : status[t] = "pending"
    /\ \A t \in lost : status[t] # "new"
    /\ \A t \in Task : status[t] \in {"pending", "running"} =>
          t \in pending \/ t \in lost \/ \E w \in Worker : hold[w] = t

(* What a worker has in hand, where it stands and how far the task is.     *)
Hands ==
    /\ \A w \in Worker :
          hold[w] = NoTask <=> worker[w] \in {"unborn", "get", "ended"}
    /\ \A w \in Worker :
          worker[w] \in {"held", "putback"} => status[hold[w]] = "pending"
    /\ \A w \in Worker : Executing(w) => status[hold[w]] = "running"
    /\ \A w \in Worker :
          worker[w] = "delay" => attempts[hold[w]] <= Retries
    /\ \A w \in Worker : w > starts * MaxConcurrent => worker[w] = "unborn"

(* The threads an earlier attempt left behind: one an attempt at most, and *)
(* none of a task that was not begun.                                      *)
Left ==
    /\ \A t \in Task : threads[t] > 0 => t \in Sync
    /\ \A t \in Task : threads[t] <= attempts[t]
    /\ \A t \in Task : status[t] \in {"new", "pending"} => threads[t] = 0
    /\ \A w \in Worker :
          worker[w] = "calling" => threads[hold[w]] < attempts[hold[w]]

IInv == TypeOK /\ Places /\ Hands

(* The inductive invariant implies OnePlace: the set of the tasks in hand  *)
(* is what the workers hold.                                               *)
LEMMA PlacesAreOne == IInv /\ Left => OnePlace
<1> SUFFICES ASSUME IInv, Left PROVE OnePlace
  OBVIOUS
<1> USE DEF IInv, TypeOK
<1>1. \A t \in InHand : \E w \in Worker : hold[w] = t /\ t # NoTask
  BY DEF InHand
<1>2. \A w \in Worker : hold[w] # NoTask => hold[w] \in InHand
  BY DEF InHand
<1>3. NoTask \notin Task
  BY BoundsAssumption DEF Task, NoTask
<1>4. \A t \in InHand : t \notin pending /\ t \notin lost
  BY <1>1 DEF Places
<1>5. \A t \in InHand : status[t] \in {"pending", "running"}
  BY <1>1 DEF Hands, Executing, WorkerState
<1>6. \A t \in Task : status[t] \in {"pending", "running"} =>
          t \in InHand \cup pending \cup lost
  BY <1>2, <1>3 DEF Places
<1>7. \A t \in pending : status[t] = "pending"
  BY DEF Places
<1>8. \A t \in Task : status[t] = "running" => t \in InHand \cup lost
  BY <1>6, <1>7
<1>9. \A v, w \in Worker : v # w /\ hold[v] # NoTask => hold[v] # hold[w]
  BY DEF Places
<1>10. InHand \cap pending = {} /\ lost \cap (InHand \cup pending) = {}
  BY <1>4 DEF Places
<1>11. /\ \A t \in pending : threads[t] = 0
       /\ \A w \in Worker :
             worker[w] = "calling" => threads[hold[w]] < attempts[hold[w]]
       /\ \A t \in Task :
             threads[t] > 0 => t \in Sync /\ threads[t] <= attempts[t]
  BY <1>7 DEF Left
<1> QED
  BY <1>5, <1>6, <1>7, <1>8, <1>9, <1>10, <1>11 DEF OnePlace

-----------------------------------------------------------------------------
(* The numbers start() gives to its workers are within the bound and above *)
(* all it gave before.                                                     *)
LEMMA FreshNumbers ==
    ASSUME NEW n \in Nat, n < MaxStarts
    PROVE  /\ Generation(n + 1) \subseteq Worker
           /\ \A w \in Generation(n + 1) : w > n * MaxConcurrent
           /\ \A w \in Worker : w > (n + 1) * MaxConcurrent =>
                 w > n * MaxConcurrent /\ w \notin Generation(n + 1)
<1> USE BoundsAssumption
<1> DEFINE low == n * MaxConcurrent
           high == (n + 1) * MaxConcurrent
           top == MaxConcurrent * MaxStarts
<1>1. low \in Nat /\ top \in Nat /\ high = low + MaxConcurrent
  OBVIOUS
<1>2. high <= top
  <2> DEFINE k == MaxStarts - (n + 1)
  <2>1. k \in Nat /\ MaxStarts = (n + 1) + k
    OBVIOUS
  <2> HIDE DEF k
  <2>2. top = high + MaxConcurrent * k /\ MaxConcurrent * k \in Nat
    BY <2>1
  <2> QED
    BY <1>1, <2>2
<1>3. Generation(n + 1) = low + 1 .. high
  BY DEF Generation
<1>4. Worker = 1 .. top
  BY DEF Worker
<1> HIDE DEF low, high, top
<1>5. Generation(n + 1) \subseteq Worker
  BY <1>1, <1>2, <1>3, <1>4
<1>6. \A w \in Generation(n + 1) : w > low
  BY <1>1, <1>3
<1>7. \A w \in Worker : w > high => w > low /\ w \notin Generation(n + 1)
  BY <1>1, <1>3, <1>4
<1> QED
  BY <1>5, <1>6, <1>7 DEF low, high

-----------------------------------------------------------------------------
LEMMA InitPlaces == Init => IInv
<1> SUFFICES ASSUME Init PROVE IInv
  OBVIOUS
<1> USE BoundsAssumption DEF Init
<1>1. TypeOK
  <2>1. starts \in 0 .. MaxStarts /\ 0 \in 0 .. Retries + 1
    OBVIOUS
  <2>2. worker \in [Worker -> WorkerState] /\ status \in [Task -> TaskStatus]
    BY DEF WorkerState, TaskStatus
  <2>3. /\ hold \in [Worker -> Task \cup {NoTask}]
        /\ attempts \in [Task -> 0 .. Retries + 1]
        /\ interrupted \in [Worker -> BOOLEAN]
        /\ threads \in [Task -> Nat]
    BY <2>1
  <2> QED
    BY <2>1, <2>2, <2>3 DEF TypeOK
<1>2. Places
  BY DEF Places, NoTask
<1>3. Hands
  BY DEF Hands, Executing, NoTask
<1> QED
  BY <1>1, <1>2, <1>3 DEF IInv

(* The steps of callers and of stop() that move no task and no worker.     *)
LEMMA CallerSteps ==
    ASSUME IInv,
           \/ \E t \in Task : CancelToken(t) \/ Wait(t) \/ ThreadEnds(t)
           \/ Poll \/ PollTimesOut \/ ClearCompleted
           \/ Stop \/ StopTimesOut \/ StopReturns
    PROVE  IInv'
<1> USE DEF IInv, workerVars, queueVars, taskVars, callVars, callerVars
<1>1. /\ UNCHANGED <<worker, hold, pending, status, attempts, lost>>
      /\ UNCHANGED starts
  BY DEF CancelToken, Wait, Poll, PollTimesOut, ClearCompleted, Stop,
         StopTimesOut, StopReturns, ThreadEnds
<1>2. TypeOK'
  <2> USE DEF TypeOK
  <2>1. ASSUME NEW t \in Task, CancelToken(t) PROVE TypeOK'
    BY <2>1 DEF CancelToken
  <2>2. ASSUME NEW t \in Task, Wait(t) PROVE TypeOK'
    BY <2>2, BoundsAssumption DEF Wait, Task, NoTask
  <2>3. CASE Poll
    BY <2>3 DEF Poll
  <2>4. CASE PollTimesOut
    BY <2>4 DEF PollTimesOut
  <2>5. CASE ClearCompleted
    BY <2>5 DEF ClearCompleted
  <2>6. CASE Stop
    BY <2>6 DEF Stop, Interrupt, Live
  <2>7. CASE StopTimesOut
    BY <2>7 DEF StopTimesOut, Interrupt, Live
  <2>8. CASE StopReturns
    BY <2>8 DEF StopReturns
  <2>9. ASSUME NEW t \in Task, ThreadEnds(t) PROVE TypeOK'
    BY <2>9 DEF ThreadEnds
  <2> QED
    BY <2>1, <2>2, <2>3, <2>4, <2>5, <2>6, <2>7, <2>8, <2>9
<1>3. Places'
  BY <1>1 DEF Places
<1>4. Hands'
  BY <1>1 DEF Hands, Executing
<1> QED
  BY <1>2, <1>3, <1>4

(* What is enqueued was in no place before.                                *)
LEMMA EnqueueStep == ASSUME IInv, NEW t \in Task, Enqueue(t) PROVE IInv'
<1> USE DEF IInv, TypeOK, Enqueue, queueVars, workerVars, callVars, callerVars
<1>1. TypeOK'
  BY DEF TaskStatus
<1>2. \A w \in Worker : hold[w] # NoTask => hold[w] # t
  BY DEF Hands, Executing, WorkerState
<1>3. t \notin lost
  BY DEF Places
<1>4. Places'
  BY <1>2, <1>3 DEF Places
<1>5. Hands'
  BY <1>2 DEF Hands, Executing, WorkerState
<1> QED
  BY <1>1, <1>4, <1>5

(* start() brings up workers that have never had a task.                   *)
LEMMA StartStep == ASSUME IInv, Start PROVE IInv'
<1> USE DEF IInv, TypeOK, Start, taskVars, callVars, callerVars
<1> USE BoundsAssumption
<1> DEFINE G == Generation(starts + 1)
<1>1. starts \in Nat /\ starts < MaxStarts /\ starts' = starts + 1
  OBVIOUS
<1>2. /\ G \subseteq Worker
      /\ \A w \in G : w > starts * MaxConcurrent
      /\ \A w \in Worker : w > (starts + 1) * MaxConcurrent =>
            w > starts * MaxConcurrent /\ w \notin G
  BY <1>1, FreshNumbers
<1>3. tracked' = G
  BY <1>1
<1> HIDE DEF G
<1>4. \A w \in Worker : worker'[w] = IF w \in G THEN "get" ELSE worker[w]
  BY <1>3
<1>5. TypeOK'
  BY <1>2, <1>3 DEF WorkerState
<1>6. Places'
  BY DEF Places
<1>7. \A w \in G : worker[w] = "unborn" /\ hold[w] = NoTask
  BY <1>2 DEF Hands
<1>8. Hands'
  BY <1>1, <1>2, <1>4, <1>7 DEF Hands, Executing
<1> QED
  BY <1>5, <1>6, <1>8

-----------------------------------------------------------------------------
(* The steps of a worker.  First the end of an execution, which three of   *)
(* them share: the task leaves the worker for good.                        *)
LEMMA FinishStep ==
    ASSUME IInv, NEW w \in Worker, NEW outcome \in Finished,
           worker[w] \in {"held", "calling", "delay"},
           Finish(w, outcome),
           attempts' \in [Task -> 0 .. Retries + 1],
           \A t \in Task : t # hold[w] => attempts'[t] = attempts[t],
           threads' \in [Task -> Nat],
           UNCHANGED <<queueVars, broken, callerVars>>
    PROVE  IInv'
<1> USE DEF IInv, TypeOK, Finish, LetGo, queueVars, callerVars
<1>1. hold[w] \in Task /\ hold[w] # NoTask
  BY DEF Hands
<1>2. AfterTask \in {"get", "ended"}
  BY DEF AfterTask
<1>3. outcome \in TaskStatus /\ outcome \notin {"new", "pending", "running"}
  BY DEF Finished, TaskStatus
<1>4. TypeOK'
  BY <1>1, <1>2, <1>3 DEF WorkerState
<1>5. Places'
  BY <1>1, <1>3 DEF Places
<1>6. Hands'
  <2>1. \A v \in Worker : v # w =>
           worker'[v] = worker[v] /\ hold'[v] = hold[v]
    OBVIOUS
  <2>2. \A v \in Worker : v # w /\ hold[v] # NoTask =>
           /\ hold[v] # hold[w] /\ hold[v] \in Task
           /\ status'[hold[v]] = status[hold[v]]
           /\ attempts'[hold[v]] = attempts[hold[v]]
    BY <1>1 DEF Places
  <2>3. worker'[w] \in {"get", "ended"} /\ hold'[w] = NoTask
    BY <1>2
  <2>4. worker[w] # "unborn" /\ starts' = starts
    OBVIOUS
  <2> QED
    BY <2>1, <2>2, <2>3, <2>4 DEF Hands, Executing
<1> QED
  BY <1>4, <1>5, <1>6

LEMMA GetStep == ASSUME IInv, NEW w \in Worker, Get(w) PROVE IInv'
<1> USE DEF IInv, TypeOK, Get, queueVars, callVars, callerVars
<1>1. PICK t \in pending : pending' = pending \ {t} /\ hold' = [hold EXCEPT ![w] = t]
  OBVIOUS
<1>2. t \in Task /\ t # NoTask /\ status[t] = "pending" /\ t \notin lost
  BY BoundsAssumption DEF Task, NoTask, Places
<1>3. \A v \in Worker : hold[v] # t
  BY <1>2 DEF Places
<1>4. TypeOK'
  BY <1>1, <1>2 DEF WorkerState
<1>5. Places'
  <2>1. /\ pending' = pending \ {t} /\ hold' = [hold EXCEPT ![w] = t]
        /\ UNCHANGED <<status, lost>>
    BY <1>1
  <2>2. hold[w] = NoTask
    BY DEF Hands
  <2> HIDE DEF Get
  <2>3. \A u \in Task : u # t => (u \in pending' <=> u \in pending)
    BY <2>1
  <2>4. \A u \in Task : status[u] \in {"pending", "running"} =>
           u \in pending' \/ u \in lost \/ \E v \in Worker : hold'[v] = u
    <3>1. hold'[w] = t
      BY <2>1
    <3>2. \A v \in Worker : hold[v] # NoTask => hold'[v] = hold[v]
      BY <2>1, <2>2
    <3>3. \A u \in Task : u # NoTask
      BY BoundsAssumption DEF Task, NoTask
    <3> QED
      BY <2>3, <3>1, <3>2, <3>3 DEF Places
  <2>5. \A v, u \in Worker : v # u /\ hold'[v] # NoTask => hold'[v] # hold'[u]
    BY <1>3, <2>1 DEF Places
  <2>6. \A v \in Worker : hold'[v] # NoTask =>
           hold'[v] \notin pending' /\ hold'[v] \notin lost
    BY <1>2, <2>1 DEF Places
  <2>7. pending' \cap lost = {} /\ \A u \in pending' : status[u] = "pending"
    BY <2>1 DEF Places
  <2> QED
    BY <2>1, <2>4, <2>5, <2>6, <2>7 DEF Places
<1>6. Hands'
  BY <1>1, <1>2, <1>3 DEF Hands, Executing
<1> QED
  BY <1>4, <1>5, <1>6

LEMMA GetEndsStep == ASSUME IInv, NEW w \in Worker, GetEnds(w) PROVE IInv'
<1> USE DEF IInv, TypeOK, GetEnds, LetGo, queueVars, taskVars, callVars, callerVars
<1>1. hold[w] = NoTask /\ hold' = hold
  BY DEF Hands
<1>2. TypeOK'
  BY DEF WorkerState
<1>3. Places'
  BY <1>1 DEF Places
<1>4. Hands'
  BY <1>1 DEF Hands, Executing
<1> QED
  BY <1>2, <1>3, <1>4

LEMMA BeginStep == ASSUME IInv, NEW w \in Worker, Begin(w) PROVE IInv'
<1> USE DEF IInv, TypeOK
<1>1. hold[w] \in Task /\ hold[w] # NoTask /\ worker[w] = "held"
  BY DEF Begin, Hands
<1>2. CASE Finish(w, "cancelled") /\ UNCHANGED attempts
  BY <1>1, <1>2, FinishStep DEF Begin, Finished, callVars
<1>3. CASE ~(Finish(w, "cancelled") /\ UNCHANGED attempts)
  <2> USE DEF Begin, queueVars, callVars, callerVars
  <2>1. /\ status' = [status EXCEPT ![hold[w]] = "running"]
        /\ attempts' = [attempts EXCEPT ![hold[w]] = 1]
        /\ worker' = [worker EXCEPT ![w] = "calling"]
        /\ interrupted' = [interrupted EXCEPT ![w] = FALSE]
        /\ UNCHANGED <<hold, pending, results, lost>>
    BY <1>3
  <2>2. 1 \in 0 .. Retries + 1
    BY BoundsAssumption
  <2>3. TypeOK'
    BY <1>1, <2>1, <2>2 DEF WorkerState, TaskStatus
  <2>4. Places'
    BY <1>1, <2>1 DEF Places
  <2>5. Hands'
    BY <1>1, <2>1 DEF Hands, Executing, Places
  <2> QED
    BY <2>3, <2>4, <2>5
<1> QED
  BY <1>2, <1>3

(* A task goes back as it was, by either of the two put-backs.             *)
LEMMA GiveBackStep ==
    ASSUME IInv, NEW w \in Worker, GiveBack(w) \/ PutBack(w)
    PROVE  IInv'
<1> USE DEF IInv, TypeOK, GiveBack, PutBack, LetGo, queueVars, callVars, callerVars
<1>1. /\ hold[w] \in Task /\ hold[w] # NoTask
      /\ worker[w] \in {"held", "putback"}
      /\ status[hold[w]] = "pending"
  BY DEF Hands
<1>2. CASE pending' = pending \cup {hold[w]} /\ LetGo(w, "ended")
  <2>1. TypeOK'
    BY <1>1, <1>2 DEF WorkerState
  <2>2. Places'
    BY <1>1, <1>2 DEF Places
  <2>3. Hands'
    BY <1>1, <1>2 DEF Hands, Executing
  <2> QED
    BY <2>1, <2>2, <2>3
<1>3. CASE ~(pending' = pending \cup {hold[w]} /\ LetGo(w, "ended"))
  <2>1. /\ worker' = [worker EXCEPT ![w] = "putback"]
        /\ interrupted' = [interrupted EXCEPT ![w] = FALSE]
        /\ UNCHANGED <<hold, pending, status, attempts, results, lost, starts>>
    BY <1>3
  <2>2. TypeOK'
    BY <2>1 DEF WorkerState
  <2>3. Places'
    BY <2>1 DEF Places
  <2>4. Hands'
    BY <1>1, <2>1 DEF Hands, Executing
  <2> QED
    BY <2>2, <2>3, <2>4
<1> QED
  BY <1>2, <1>3

(* The end of an attempt: the function's, or only its await's.             *)
LEMMA CallReturnsStep ==
    ASSUME IInv, NEW w \in Worker, CallReturns(w) PROVE IInv'
<1>1. PICK outcome \in Finished : Finish(w, outcome)
  BY DEF CallReturns, Finished
<1>2. /\ worker[w] = "calling" /\ attempts' = attempts
      /\ UNCHANGED <<queueVars, callVars, callerVars>>
  BY DEF CallReturns
<1>3. attempts \in [Task -> 0 .. Retries + 1] /\ threads \in [Task -> Nat]
  BY DEF IInv, TypeOK
<1> QED
  BY <1>1, <1>2, <1>3, FinishStep DEF callVars

LEMMA LeftThreads ==
    ASSUME IInv, NEW t \in Task, LeavesThread(t)
    PROVE  threads' \in [Task -> Nat]
  BY DEF IInv, TypeOK, LeavesThread

(* An attempt that failed leaves an attempt to be made.                    *)
LEMMA AttemptFailsStep ==
    ASSUME IInv, NEW w \in Worker, CallRaises(w) \/ CallTimesOut(w)
    PROVE  IInv'
<1> USE DEF IInv, TypeOK
<1>1. /\ worker[w] = "calling" /\ hold[w] \in Task
      /\ AttemptFails(w)
      /\ UNCHANGED <<queueVars, attempts, broken, callerVars>>
  BY DEF CallRaises, CallTimesOut, AttemptFails, Hands
<1>2. threads' \in [Task -> Nat]
  BY <1>1, LeftThreads DEF CallRaises, CallTimesOut
<1>3. CASE Finish(w, "failed")
  BY <1>1, <1>2, <1>3, FinishStep DEF Finished
<1>4. CASE ~Finish(w, "failed")
  <2>1. /\ attempts[hold[w]] <= Retries
        /\ worker' = [worker EXCEPT ![w] = "delay"]
        /\ interrupted' = [interrupted EXCEPT ![w] = FALSE]
        /\ UNCHANGED <<hold, pending, status, results, lost>>
    BY <1>1, <1>4 DEF AttemptFails
  <2> USE DEF queueVars, callerVars
  <2>2. TypeOK'
    BY <1>1, <1>2, <2>1 DEF WorkerState
  <2>3. Places'
    BY <2>1 DEF Places
  <2>4. Hands'
    BY <1>1, <2>1 DEF Hands, Executing
  <2> QED
    BY <2>2, <2>3, <2>4
<1> QED
  BY <1>3, <1>4

LEMMA RetryStep == ASSUME IInv, NEW w \in Worker, Retry(w) PROVE IInv'
<1> USE DEF IInv, TypeOK
<1>1. /\ hold[w] \in Task /\ hold[w] # NoTask
      /\ worker[w] = "delay" /\ attempts[hold[w]] <= Retries
  BY DEF Retry, Hands
<1>2. /\ attempts' = [attempts EXCEPT ![hold[w]] = @ + 1]
      /\ UNCHANGED <<queueVars, callVars, callerVars>>
  BY DEF Retry
<1>3. attempts[hold[w]] + 1 \in 0 .. Retries + 1
  BY <1>1, BoundsAssumption
<1>4. /\ attempts' \in [Task -> 0 .. Retries + 1]
      /\ \A t \in Task : t # hold[w] => attempts'[t] = attempts[t]
  BY <1>1, <1>2, <1>3
<1>5. CASE Finish(w, "cancelled")
  BY <1>1, <1>2, <1>4, <1>5, FinishStep DEF Finished, callVars
<1>6. CASE ~Finish(w, "cancelled")
  <2> USE DEF queueVars, callVars, callerVars
  <2>1. /\ worker' = [worker EXCEPT ![w] = "calling"]
        /\ UNCHANGED <<pending, status, results, lost, hold, interrupted>>
    BY <1>6 DEF Retry
  <2>2. TypeOK'
    BY <1>2, <1>4, <2>1 DEF WorkerState
  <2>3. Places'
    BY <2>1 DEF Places
  <2>4. Hands'
    BY <1>1, <1>2, <1>4, <2>1 DEF Hands, Executing, Places
  <2> QED
    BY <2>2, <2>3, <2>4
<1> QED
  BY <1>5, <1>6

LEMMA LoseStep ==
    ASSUME IInv, NEW w \in Worker, WorkerInterrupted(w) \/ CallCancels(w)
    PROVE  IInv'
<1> USE DEF IInv, TypeOK, LoseTask, LetGo, queueVars, callerVars
<1>1. LoseTask(w) /\ worker[w] \in {"calling", "delay", "putback"}
  BY DEF WorkerInterrupted, CallCancels
<1>2. /\ hold[w] \in Task /\ hold[w] # NoTask
      /\ status[hold[w]] \in {"pending", "running"}
  BY <1>1 DEF Hands, Executing
<1>3. threads' \in [Task -> Nat] /\ broken' \subseteq Worker
  BY <1>2, LeftThreads DEF WorkerInterrupted, CallCancels
<1>4. TypeOK'
  BY <1>1, <1>2, <1>3 DEF WorkerState
<1>5. Places'
  BY <1>1, <1>2 DEF Places
<1>6. Hands'
  BY <1>1, <1>2 DEF Hands, Executing
<1> QED
  BY <1>4, <1>5, <1>6

LEMMA CallGoesOnStep ==
    ASSUME IInv, NEW w \in Worker, CallGoesOn(w) PROVE IInv'
<1> USE DEF IInv, TypeOK, CallGoesOn, queueVars, taskVars, callVars, callerVars
<1>1. TypeOK'
  OBVIOUS
<1>2. Places'
  BY DEF Places
<1>3. Hands'
  BY DEF Hands, Executing
<1> QED
  BY <1>1, <1>2, <1>3

LEMMA StutterStep == ASSUME IInv, UNCHANGED vars PROVE IInv'
<1> USE DEF IInv, TypeOK, vars, queueVars, workerVars, taskVars, callVars, callerVars
<1>1. TypeOK'
  OBVIOUS
<1>2. Places'
  BY DEF Places
<1>3. Hands'
  BY DEF Hands, Executing
<1> QED
  BY <1>1, <1>2, <1>3

-----------------------------------------------------------------------------
LEMMA PlacesKept == IInv /\ [Next]_vars => IInv'
<1> SUFFICES ASSUME IInv, [Next]_vars PROVE IInv'
  OBVIOUS
<1>1. ASSUME NEW t \in Task,
             Enqueue(t) \/ CancelToken(t) \/ Wait(t) \/ ThreadEnds(t)
      PROVE IInv'
  BY <1>1, EnqueueStep, CallerSteps
<1>2. ASSUME NEW w \in Worker, WorkerStep(w) PROVE IInv'
  <2>1. CASE Get(w) \/ GetEnds(w)
    BY <2>1, GetStep, GetEndsStep
  <2>2. CASE Begin(w)
    BY <2>2, BeginStep
  <2>3. CASE GiveBack(w) \/ PutBack(w)
    BY <2>3, GiveBackStep
  <2>4. CASE CallReturns(w) \/ CallRaises(w) \/ CallTimesOut(w)
    BY <2>4, CallReturnsStep, AttemptFailsStep
  <2>5. CASE Retry(w)
    BY <2>5, RetryStep
  <2>6. CASE WorkerInterrupted(w) \/ CallCancels(w) \/ CallGoesOn(w)
    BY <2>6, LoseStep, CallGoesOnStep
  <2> QED
    BY <1>2, <2>1, <2>2, <2>3, <2>4, <2>5, <2>6 DEF WorkerStep
<1>3. CASE Poll \/ PollTimesOut \/ ClearCompleted \/ Stop \/ StopTimesOut
           \/ StopReturns
  BY <1>3, CallerSteps
<1>4. CASE Start
  BY <1>4, StartStep
<1>5. CASE UNCHANGED vars
  BY <1>5, StutterStep
<1> QED
  BY <1>1, <1>2, <1>3, <1>4, <1>5 DEF Next

(* TypeOK: the model is well typed, and the attempts stay within           *)
(* retry_count + 1.                                                        *)
THEOREM TypeCorrect == Spec => []TypeOK
<1>1. IInv => TypeOK
  BY DEF IInv
<1> QED
  BY InitPlaces, PlacesKept, <1>1, PTL DEF Spec

-----------------------------------------------------------------------------
(* A thread is left behind by a call, and every call is an attempt.        *)
LEMMA InitLeft == Init => Left
  BY DEF Init, Left

LEMMA FinishLeaves ==
    ASSUME IInv, Left, NEW w \in Worker, NEW outcome \in Finished,
           worker[w] \in {"held", "calling", "delay"},
           Finish(w, outcome),
           \A t \in Task : attempts[t] <= attempts'[t],
           \/ UNCHANGED threads
           \/ worker[w] = "calling" /\ LeavesThread(hold[w]),
           attempts' \in [Task -> Nat]
    PROVE  Left'
<1> USE DEF IInv, TypeOK, Finish, LetGo
<1>1. hold[w] \in Task /\ hold[w] # NoTask
  BY DEF Hands
<1>2. worker'[w] \in {"get", "ended"}
  BY DEF AfterTask
<1>3. \A v \in Worker : worker'[v] = "calling" =>
         v # w /\ worker[v] = "calling" /\ hold'[v] = hold[v]
         /\ hold[v] \in Task /\ hold[v] # hold[w]
  BY <1>1, <1>2 DEF Places, Hands
<1>4. status'[hold[w]] \notin {"new", "pending"}
      /\ \A t \in Task : t # hold[w] => status'[t] = status[t]
  BY <1>1 DEF Finished
<1> HIDE DEF Finish, LetGo
<1>5. CASE UNCHANGED threads
  <2>1. \A t \in Task : threads[t] <= attempts'[t]
    BY DEF Left
  <2>2. \A v \in Worker : worker'[v] = "calling" =>
           threads[hold'[v]] < attempts'[hold'[v]]
    BY <1>3 DEF Left
  <2>3. \A t \in Task : status'[t] \in {"new", "pending"} => threads[t] = 0
    BY <1>4 DEF Left
  <2> QED
    BY <1>5, <2>1, <2>2, <2>3 DEF Left
<1>6. CASE /\ worker[w] = "calling" /\ hold[w] \in Sync
           /\ threads' = [threads EXCEPT ![hold[w]] = @ + 1]
  BY <1>1, <1>3, <1>4, <1>6 DEF Left
<1> QED
  BY <1>5, <1>6 DEF LeavesThread

LEMMA LeftKept == IInv /\ Left /\ [Next]_vars => Left'
<1> SUFFICES ASSUME IInv, Left, [Next]_vars PROVE Left'
  OBVIOUS
<1> USE DEF IInv, TypeOK
<1>0. attempts \in [Task -> Nat]
  BY BoundsAssumption
<1>1. ASSUME NEW w \in Worker, WorkerStep(w) PROVE Left'
  <2>1. CASE GetEnds(w) \/ GiveBack(w) \/ PutBack(w) \/ CallGoesOn(w)
    <3>1. UNCHANGED <<status, attempts, threads>>
      BY <2>1 DEF GetEnds, GiveBack, PutBack, CallGoesOn, taskVars, callVars
    <3>2. \A v \in Worker : worker'[v] = "calling" =>
            worker[v] = "calling" /\ hold'[v] = hold[v]
      BY <2>1 DEF GetEnds, GiveBack, PutBack, CallGoesOn, LetGo
    <3> QED
      BY <3>1, <3>2 DEF Left
  <2>2. CASE Get(w)
    <3>1. UNCHANGED <<status, attempts, threads>>
      BY <2>2 DEF Get, callVars
    <3>2. \A v \in Worker : worker'[v] = "calling" =>
            worker[v] = "calling" /\ hold'[v] = hold[v]
      BY <2>2 DEF Get
    <3> QED
      BY <3>1, <3>2 DEF Left
  <2>3. CASE Begin(w)
    <3>1. hold[w] \in Task /\ worker[w] = "held" /\ threads' = threads
          /\ status[hold[w]] = "pending" /\ threads[hold[w]] = 0
      BY <2>3 DEF Begin, Hands, Left, callVars
    <3>2. CASE Finish(w, "cancelled") /\ UNCHANGED attempts
      BY <1>0, <3>1, <3>2, FinishLeaves DEF Finished
    <3>3. CASE ~(Finish(w, "cancelled") /\ UNCHANGED attempts)
      <4>1. /\ status' = [status EXCEPT ![hold[w]] = "running"]
            /\ attempts' = [attempts EXCEPT ![hold[w]] = 1]
            /\ worker' = [worker EXCEPT ![w] = "calling"]
            /\ UNCHANGED hold
        BY <2>3, <3>3 DEF Begin
      <4>2. \A v \in Worker : v # w /\ worker'[v] = "calling" =>
               worker[v] = "calling" /\ hold[v] \in Task /\ hold[v] # hold[w]
        BY <3>1, <4>1 DEF Places, Hands
      <4> QED
        BY <3>1, <4>1, <4>2 DEF Left
    <3> QED
      BY <3>2, <3>3
  <2>4. CASE CallReturns(w)
    <3>1. PICK outcome \in Finished : Finish(w, outcome)
      BY <2>4 DEF CallReturns, Finished
    <3>2. worker[w] = "calling" /\ UNCHANGED <<attempts, threads>>
      BY <2>4 DEF CallReturns, callVars
    <3> QED
      BY <1>0, <3>1, <3>2, FinishLeaves
  <2>5. CASE CallRaises(w) \/ CallTimesOut(w)
    <3>1. worker[w] = "calling" /\ hold[w] \in Task /\ AttemptFails(w)
          /\ attempts' = attempts
          /\ (UNCHANGED threads \/ LeavesThread(hold[w]))
      BY <2>5 DEF CallRaises, CallTimesOut, AttemptFails, Hands
    <3>2. CASE Finish(w, "failed")
      BY <1>0, <3>1, <3>2, FinishLeaves DEF Finished
    <3>3. CASE ~Finish(w, "failed")
      <4>1. /\ worker' = [worker EXCEPT ![w] = "delay"]
            /\ UNCHANGED <<hold, status>>
        BY <3>1, <3>3 DEF AttemptFails
      <4>2. \A v \in Worker : worker'[v] = "calling" =>
               worker[v] = "calling" /\ hold[v] \in Task /\ hold[v] # hold[w]
        BY <3>1, <4>1 DEF Places, Hands
      <4>3. status[hold[w]] = "running"
        BY <3>1 DEF Hands, Executing
      <4>4. CASE UNCHANGED threads
        BY <3>1, <4>1, <4>2, <4>4 DEF Left
      <4>5. CASE /\ hold[w] \in Sync
                 /\ threads' = [threads EXCEPT ![hold[w]] = @ + 1]
        BY <1>0, <3>1, <4>1, <4>2, <4>3, <4>5 DEF Left
      <4> QED
        BY <3>1, <4>4, <4>5 DEF LeavesThread
    <3> QED
      BY <3>2, <3>3
  <2>6. CASE Retry(w)
    <3>1. /\ hold[w] \in Task /\ worker[w] = "delay" /\ threads' = threads
          /\ attempts' = [attempts EXCEPT ![hold[w]] = @ + 1]
      BY <2>6 DEF Retry, Hands, callVars
    <3>2. CASE Finish(w, "cancelled")
      <4>1. attempts' \in [Task -> Nat]
            /\ \A t \in Task : attempts[t] <= attempts'[t]
        BY <1>0, <3>1
      <4> QED
        BY <3>1, <3>2, <4>1, FinishLeaves DEF Finished
    <3>3. CASE ~Finish(w, "cancelled")
      <4>1. worker' = [worker EXCEPT ![w] = "calling"] /\ UNCHANGED <<hold, status>>
        BY <2>6, <3>3 DEF Retry
      <4>2. \A v \in Worker : v # w /\ worker'[v] = "calling" =>
               worker[v] = "calling" /\ hold[v] \in Task /\ hold[v] # hold[w]
        BY <3>1, <4>1 DEF Places, Hands
      <4> QED
        BY <1>0, <3>1, <4>1, <4>2 DEF Left
    <3> QED
      BY <3>2, <3>3
  <2>7. CASE WorkerInterrupted(w) \/ CallCancels(w)
    <3>1. /\ LoseTask(w) /\ UNCHANGED <<status, attempts>>
          /\ hold[w] \in Task /\ hold[w] # NoTask
          /\ \/ UNCHANGED threads
             \/ /\ worker[w] = "calling" /\ hold[w] \in Sync
                /\ threads' = [threads EXCEPT ![hold[w]] = @ + 1]
      BY <2>7 DEF WorkerInterrupted, CallCancels, LoseTask, LeavesThread, Hands
    <3>2. \A v \in Worker : worker'[v] = "calling" =>
             worker[v] = "calling" /\ hold'[v] = hold[v]
             /\ hold[v] \in Task /\ hold[v] # hold[w]
      BY <3>1 DEF LoseTask, LetGo, Places, Hands
    <3>3. CASE UNCHANGED threads
      BY <3>1, <3>2, <3>3 DEF Left
    <3>4. CASE ~UNCHANGED threads
      <4>1. status[hold[w]] = "running"
        BY <3>1, <3>4 DEF Hands, Executing
      <4> QED
        BY <1>0, <3>1, <3>2, <3>4, <4>1 DEF Left
    <3> QED
      BY <3>3, <3>4
  <2> QED
    BY <1>1, <2>1, <2>2, <2>3, <2>4, <2>5, <2>6, <2>7 DEF WorkerStep
<1>2. ASSUME NEW t \in Task, Enqueue(t) PROVE Left'
  <2>1. UNCHANGED <<worker, hold, attempts, threads>>
        /\ status[t] = "new" /\ status' = [status EXCEPT ![t] = "pending"]
    BY <1>2 DEF Enqueue, workerVars, callVars
  <2> QED
    BY <2>1 DEF Left
<1>3. ASSUME NEW t \in Task, ThreadEnds(t) PROVE Left'
  <2>1. UNCHANGED <<worker, hold, attempts, status>>
        /\ threads[t] > 0 /\ threads' = [threads EXCEPT ![t] = @ - 1]
    BY <1>3 DEF ThreadEnds, workerVars, taskVars
  <2>2. \A u \in Task : threads'[u] <= threads[u] /\ threads'[u] \in Nat
                        /\ (threads'[u] > 0 => threads[u] > 0)
    BY <2>1
  <2>3. \A w \in Worker : worker[w] = "calling" => hold[w] \in Task
    BY DEF Hands
  <2> QED
    BY <1>0, <2>1, <2>2, <2>3 DEF Left
<1>4. ASSUME NEW t \in Task, CancelToken(t) \/ Wait(t) PROVE Left'
  BY <1>4 DEF CancelToken, Wait, workerVars, taskVars, callVars, Left
<1>5. CASE Start
  BY <1>5 DEF Start, taskVars, callVars, Left
<1>6. CASE Poll \/ PollTimesOut \/ ClearCompleted \/ Stop \/ StopTimesOut
           \/ StopReturns \/ UNCHANGED vars
  <2>1. UNCHANGED <<worker, hold, attempts, status, threads>>
    BY <1>6 DEF Poll, PollTimesOut, ClearCompleted, Stop, StopTimesOut,
                StopReturns, vars, workerVars, taskVars, callVars
  <2> QED
    BY <2>1 DEF Left
<1> QED
  BY <1>1, <1>2, <1>3, <1>4, <1>5, <1>6 DEF Next

(* OnePlace: a task is in one place, whatever number of workers the        *)
(* overlaps of start() and stop() leave, and a call of its function that   *)
(* goes on beside the one that is awaited is the thread of an earlier      *)
(* attempt at a synchronous function.                                      *)
THEOREM OnePlaceHolds == Spec => []OnePlace
  BY InitPlaces, PlacesKept, InitLeft, LeftKept, PlacesAreOne, PTL DEF Spec

-----------------------------------------------------------------------------
(* While no start() has overlapped a stop(), the live workers are among     *)
(* those _worker_tasks names, which are of one call of start(); a stop()   *)
(* that waits waits for all of them, and no queue at rest has any.         *)
OneGeneration ==
    ~overlapped =>
        /\ \A w \in Worker : Live(w) => w \in tracked
        /\ tracked = {} \/ tracked = Generation(starts)
        /\ stopping # "no" => gathered = tracked /\ ~active
        /\ ~active /\ stopping = "no" => \A w \in Worker : ~Live(w)

(* No step of a worker brings a worker to life.                            *)
LEMMA WorkersOnlyEnd ==
    ASSUME IInv, NEW w \in Worker, WorkerStep(w)
    PROVE  /\ \A v \in Worker : Live(v)' => Live(v)
           /\ UNCHANGED queueVars
<1> USE DEF IInv, TypeOK, Live, LetGo, Finish
<1>1. CASE GetEnds(w)
  BY <1>1 DEF GetEnds
<1>2. CASE Get(w)
  BY <1>2 DEF Get
<1>3. CASE Begin(w)
  BY <1>3 DEF Begin
<1>4. CASE GiveBack(w)
  BY <1>4 DEF GiveBack
<1>5. CASE PutBack(w)
  BY <1>5 DEF PutBack
<1>6. CASE CallReturns(w)
  BY <1>6 DEF CallReturns
<1>7. CASE CallRaises(w) \/ CallTimesOut(w)
  <2>1. worker[w] = "calling" /\ AttemptFails(w)
    BY <1>7 DEF CallRaises, CallTimesOut
  <2> QED
    BY <2>1 DEF AttemptFails
<1>8. CASE Retry(w)
  BY <1>8 DEF Retry
<1>9. CASE WorkerInterrupted(w) \/ CallCancels(w)
  BY <1>9 DEF WorkerInterrupted, CallCancels, LoseTask
<1>10. CASE CallGoesOn(w)
  BY <1>10 DEF CallGoesOn
<1> QED
  BY <1>1, <1>2, <1>3, <1>4, <1>5, <1>6, <1>7, <1>8, <1>9, <1>10 DEF WorkerStep

LEMMA InitOneGeneration == Init => OneGeneration
  BY DEF Init, OneGeneration, Live

LEMMA GenerationKept == IInv /\ OneGeneration /\ [Next]_vars => OneGeneration'
<1> SUFFICES ASSUME IInv, OneGeneration, [Next]_vars PROVE OneGeneration'
  OBVIOUS
<1>1. ASSUME \A v \in Worker : Live(v)' => Live(v), UNCHANGED queueVars
      PROVE  OneGeneration'
  BY <1>1 DEF OneGeneration, queueVars
<1>2. ASSUME NEW w \in Worker, WorkerStep(w) PROVE OneGeneration'
  BY <1>1, <1>2, WorkersOnlyEnd
<1>3. ASSUME NEW t \in Task,
             Enqueue(t) \/ CancelToken(t) \/ Wait(t) \/ ThreadEnds(t)
      PROVE  OneGeneration'
  <2>1. UNCHANGED <<worker, queueVars>>
    BY <1>3 DEF Enqueue, CancelToken, Wait, ThreadEnds, workerVars
  <2> QED
    BY <2>1, <1>1 DEF Live
<1>4. CASE Poll \/ PollTimesOut \/ ClearCompleted \/ UNCHANGED vars
  <2>1. UNCHANGED <<worker, queueVars>>
    BY <1>4 DEF Poll, PollTimesOut, ClearCompleted, workerVars, vars
  <2> QED
    BY <2>1, <1>1 DEF Live
<1>5. CASE Start
  BY <1>5 DEF Start, OneGeneration, Live, IInv, TypeOK
<1>6. CASE Stop
  BY <1>6 DEF Stop, OneGeneration, Live
<1>7. CASE StopTimesOut
  BY <1>7 DEF StopTimesOut, OneGeneration, Live
<1>8. CASE StopReturns
  BY <1>8 DEF StopReturns, workerVars, OneGeneration, Live
<1> QED
  BY <1>2, <1>3, <1>4, <1>5, <1>6, <1>7, <1>8 DEF Next

(* A generation has max_concurrent_tasks workers.                          *)
LEMMA GenerationSize ==
    ASSUME NEW n \in Nat
    PROVE  /\ IsFiniteSet(Generation(n))
           /\ Cardinality(Generation(n)) = MaxConcurrent
<1> USE BoundsAssumption
<1> DEFINE low == (n - 1) * MaxConcurrent + 1
           high == n * MaxConcurrent
<1>1. low \in Int /\ high \in Int /\ high = low + MaxConcurrent - 1
  OBVIOUS
<1>2. Generation(n) = low .. high
  BY DEF Generation
<1> HIDE DEF low, high
<1> QED
  BY <1>1, <1>2, FS_Interval

LEMMA GenerationBounds ==
    ASSUME IInv, OneGeneration PROVE NoWorkerAfterStop /\ RunningAtMostMax
<1>1. NoWorkerAfterStop
  BY DEF OneGeneration, NoWorkerAfterStop
<1>2. ASSUME ~overlapped PROVE Cardinality(Running) <= MaxConcurrent
  <2> DEFINE Busy == {w \in Worker : Executing(w)}
             taskOf == [w \in Busy |-> hold[w]]
  <2>1. IsFiniteSet(tracked) /\ Cardinality(tracked) <= MaxConcurrent
    <3>1. starts \in Nat
      BY BoundsAssumption DEF IInv, TypeOK
    <3>2. CASE tracked = {}
      BY <3>2, FS_EmptySet, BoundsAssumption
    <3>3. CASE tracked = Generation(starts)
      BY <3>1, <3>3, GenerationSize, BoundsAssumption
    <3> QED
      BY <1>2, <3>2, <3>3 DEF OneGeneration
  <2>2. Busy \in SUBSET tracked
    BY <1>2 DEF OneGeneration, Executing, Live
  <2>3. IsFiniteSet(Busy) /\ Cardinality(Busy) <= Cardinality(tracked)
    <3> HIDE DEF Busy
    <3> QED
      BY <2>1, <2>2, FS_Subset
  <2>4. taskOf \in Surjection(Busy, Running)
    BY DEF Running, Surjection
  <2>5. IsFiniteSet(Running) /\ Cardinality(Running) <= Cardinality(Busy)
    <3> HIDE DEF Busy, taskOf
    <3> QED
      BY <2>3, <2>4, FS_Surjection
  <2>6. /\ Cardinality(Running) \in Nat /\ Cardinality(Busy) \in Nat
        /\ Cardinality(tracked) \in Nat
    <3> HIDE DEF Busy
    <3> QED
      BY <2>1, <2>3, <2>5, FS_CardinalityType
  <2> HIDE DEF Busy
  <2> QED
    BY <2>1, <2>3, <2>5, <2>6, BoundsAssumption
<1> QED
  BY <1>1, <1>2 DEF RunningAtMostMax

(* NoWorkerAfterStop: no worker is left when a stop() that no start()         *)
(* overlapped has returned, whether or not it timed out.                   *)
THEOREM NoWorkerAfterStopHolds == Spec => []NoWorkerAfterStop
<1>1. IInv /\ OneGeneration => NoWorkerAfterStop
  BY GenerationBounds
<1> QED
  BY InitPlaces, PlacesKept, InitOneGeneration, GenerationKept, <1>1, PTL
  DEF Spec

(* RunningAtMostMax: max_concurrent_tasks is kept over restarts.           *)
THEOREM RunningAtMostMaxHolds == Spec => []RunningAtMostMax
<1>1. IInv /\ OneGeneration => RunningAtMostMax
  BY GenerationBounds
<1> QED
  BY InitPlaces, PlacesKept, InitOneGeneration, GenerationKept, <1>1, PTL
  DEF Spec

-----------------------------------------------------------------------------
(* A worker that was cancelled and has not met it yet is one that stop()   *)
(* waits for.  One that gives a task back is cancelled only by the timeout *)
(* of stop(): a task is given back after a shutdown, and the next start()  *)
(* has other workers.                                                      *)
Interrupts ==
    /\ \A w \in Worker :
          interrupted[w] => Live(w) /\ w \in gathered /\ stopping # "no"
    /\ stopping = "waits" =>
          \A w \in Worker : interrupted[w] => worker[w] # "putback"
    /\ active => \A w \in tracked : worker[w] # "putback"

(* No step of a worker interrupts one, and only what an earlier stop() has *)
(* stopped is given back.                                                  *)
LEMMA WorkersInterruptNone ==
    ASSUME IInv, NEW w \in Worker, WorkerStep(w)
    PROVE  /\ UNCHANGED queueVars
           /\ \A v \in Worker : interrupted'[v] =>
                interrupted[v] /\ worker'[v] = worker[v]
           /\ \A v \in Worker : worker'[v] = "putback" =>
                worker[v] = "putback" \/ ~active
<1> USE DEF IInv, TypeOK, LetGo, Finish
<1>1. CASE GetEnds(w) \/ Get(w)
  BY <1>1 DEF GetEnds, Get
<1>2. CASE Begin(w)
  BY <1>2 DEF Begin, AfterTask
<1>3. CASE GiveBack(w) \/ PutBack(w)
  BY <1>3 DEF GiveBack, PutBack
<1>4. CASE CallReturns(w) \/ CallRaises(w) \/ CallTimesOut(w)
  BY <1>4 DEF CallReturns, CallRaises, CallTimesOut, AttemptFails, AfterTask
<1>5. CASE Retry(w)
  BY <1>5 DEF Retry, AfterTask
<1>6. CASE WorkerInterrupted(w) \/ CallCancels(w) \/ CallGoesOn(w)
  BY <1>6 DEF WorkerInterrupted, CallCancels, LoseTask, CallGoesOn
<1> QED
  BY <1>1, <1>2, <1>3, <1>4, <1>5, <1>6 DEF WorkerStep

LEMMA InitInterrupts == Init => Interrupts
  BY DEF Init, Interrupts

LEMMA InterruptsKept == IInv /\ Interrupts /\ [Next]_vars => Interrupts'
<1> SUFFICES ASSUME IInv, Interrupts, [Next]_vars PROVE Interrupts'
  OBVIOUS
<1> USE DEF IInv, TypeOK
<1>1. ASSUME UNCHANGED queueVars,
             \A v \in Worker : interrupted'[v] =>
               interrupted[v] /\ worker'[v] = worker[v],
             \A v \in Worker : worker'[v] = "putback" =>
               worker[v] = "putback" \/ ~active
      PROVE  Interrupts'
  BY <1>1 DEF Interrupts, Live, queueVars
<1>2. ASSUME NEW w \in Worker, WorkerStep(w) PROVE Interrupts'
  BY <1>1, <1>2, WorkersInterruptNone
<1>3. ASSUME NEW t \in Task,
             Enqueue(t) \/ CancelToken(t) \/ Wait(t) \/ ThreadEnds(t)
      PROVE  Interrupts'
  <2>1. UNCHANGED <<queueVars, workerVars>>
    BY <1>3 DEF Enqueue, CancelToken, Wait, ThreadEnds
  <2> QED
    BY <2>1, <1>1 DEF workerVars
<1>4. CASE Poll \/ PollTimesOut \/ ClearCompleted \/ UNCHANGED vars
  <2>1. UNCHANGED <<queueVars, workerVars>>
    BY <1>4 DEF Poll, PollTimesOut, ClearCompleted, vars
  <2> QED
    BY <2>1, <1>1 DEF workerVars
<1>5. CASE Start
  <2>1. \A w \in Worker : w \in tracked' => worker[w] = "unborn"
    BY <1>5, FreshNumbers DEF Start, Hands
  <2>2. \A w \in Worker : interrupted[w] => worker'[w] = worker[w]
    BY <1>5, <2>1 DEF Start, Interrupts, Live
  <2>3. \A w \in Worker : w \in tracked' => worker'[w] = "get"
    BY <1>5 DEF Start
  <2>4. UNCHANGED <<interrupted, gathered, stopping>>
    BY <1>5 DEF Start
  <2>5. tracked' \subseteq Worker
    BY <1>5, PlacesKept DEF Next
  <2> QED
    BY <2>2, <2>3, <2>4, <2>5 DEF Interrupts, Live
<1>6. CASE Stop
  BY <1>6 DEF Stop, Interrupt, Interrupts, Live
<1>7. CASE StopTimesOut
  BY <1>7 DEF StopTimesOut, Interrupt, Interrupts, Live
<1>8. CASE StopReturns
  BY <1>8 DEF StopReturns, workerVars, Interrupts, Live
<1> QED
  BY <1>2, <1>3, <1>4, <1>5, <1>6, <1>7, <1>8 DEF Next

(* Only a worker that meets a cancellation loses a task, stop()'s or its   *)
(* function's own.                                                         *)
LEMMA OnlyCancelledLose ==
    ASSUME IInv, [Next]_vars
    PROVE  \A t \in lost' \ lost : \E w \in Worker :
             /\ hold[w] = t
             /\ \/ /\ interrupted[w]
                   /\ worker[w] \in {"calling", "delay", "putback"}
                \/ worker[w] = "calling" /\ broken' = broken \cup {w}
<1>1. ASSUME NEW w \in Worker, WorkerStep(w)
      PROVE  lost' = lost \/ WorkerInterrupted(w) \/ CallCancels(w)
  BY <1>1 DEF WorkerStep, GetEnds, Get, Begin, GiveBack, PutBack, CallReturns,
              CallRaises, CallTimesOut, AttemptFails, Retry, CallGoesOn,
              Finish, taskVars
<1>2. CASE \E w \in Worker : WorkerStep(w)
  <2>1. PICK w \in Worker : WorkerStep(w)
    BY <1>2
  <2>2. CASE lost' = lost
    BY <2>2
  <2>3. CASE WorkerInterrupted(w)
    BY <2>3 DEF WorkerInterrupted, LoseTask
  <2>4. CASE CallCancels(w)
    BY <2>4 DEF CallCancels, LoseTask
  <2> QED
    BY <1>1, <2>1, <2>2, <2>3, <2>4
<1>3. CASE \E t \in Task :
             Enqueue(t) \/ CancelToken(t) \/ Wait(t) \/ ThreadEnds(t)
  BY <1>3 DEF Enqueue, CancelToken, Wait, ThreadEnds, taskVars
<1>4. CASE Poll \/ PollTimesOut \/ ClearCompleted \/ Start \/ Stop
           \/ StopTimesOut \/ StopReturns \/ UNCHANGED vars
  BY <1>4 DEF Poll, PollTimesOut, ClearCompleted, Start, Stop, StopTimesOut,
              StopReturns, vars, taskVars
<1> QED
  BY <1>2, <1>3, <1>4 DEF Next

(* A worker that a function has ended has no task in hand any more, so     *)
(* that it is counted among these once.                                    *)
BrokenAreOver ==
    \A w \in broken : worker[w] = "ended" /\ w <= starts * MaxConcurrent

LEMMA InitBroken == Init => BrokenAreOver
  BY DEF Init, BrokenAreOver

LEMMA BrokenKept == IInv /\ BrokenAreOver /\ [Next]_vars => BrokenAreOver'
<1> SUFFICES ASSUME IInv, BrokenAreOver, [Next]_vars PROVE BrokenAreOver'
  OBVIOUS
<1> USE DEF IInv, TypeOK
<1>1. ASSUME NEW w \in Worker, WorkerStep(w) PROVE BrokenAreOver'
  <2>1. starts' = starts
    BY <1>1, WorkersOnlyEnd DEF queueVars
  <2>2. worker[w] # "ended" /\ worker[w] # "unborn"
    BY <1>1 DEF WorkerStep, GetEnds, Get, Begin, GiveBack, PutBack,
         CallReturns, CallRaises, CallTimesOut, CallCancels, Retry,
         WorkerInterrupted, CallGoesOn
  <2>3. \A v \in Worker : v # w => worker'[v] = worker[v]
    BY <1>1 DEF WorkerStep, GetEnds, Get, Begin, GiveBack, PutBack,
         CallReturns, CallRaises, CallTimesOut, AttemptFails, CallCancels,
         Retry, WorkerInterrupted, LoseTask, CallGoesOn, Finish, LetGo
  <2>4. broken' = broken
        \/ (broken' = broken \cup {w} /\ worker'[w] = "ended")
    BY <1>1 DEF WorkerStep, GetEnds, Get, Begin, GiveBack, PutBack,
         CallReturns, CallRaises, CallTimesOut, AttemptFails, CallCancels,
         Retry, WorkerInterrupted, LoseTask, CallGoesOn, LetGo, callVars
  <2>5. w <= starts * MaxConcurrent
    <3>1. starts * MaxConcurrent \in Int /\ w \in Int
      BY BoundsAssumption DEF Worker
    <3> QED
      BY <2>2, <3>1 DEF Hands
  <2> QED
    BY <2>1, <2>2, <2>3, <2>4, <2>5 DEF BrokenAreOver
<1>2. ASSUME UNCHANGED <<worker, broken, starts>> PROVE BrokenAreOver'
  BY <1>2 DEF BrokenAreOver
<1>3. CASE Start
  <2> DEFINE G == Generation(starts + 1)
  <2>1. /\ starts' = starts + 1 /\ starts \in Nat /\ broken' = broken
        /\ \A w \in Worker : worker'[w] = IF w \in G THEN "get" ELSE worker[w]
    BY <1>3, BoundsAssumption DEF Start, callVars
  <2>2. \A w \in G : w > starts * MaxConcurrent
    BY <1>3, <2>1, FreshNumbers DEF Start
  <2>3. broken \subseteq Worker /\ Worker \subseteq Int
    BY DEF Worker
  <2>4. starts * MaxConcurrent \in Int
        /\ (starts + 1) * MaxConcurrent = starts * MaxConcurrent + MaxConcurrent
    BY <2>1, BoundsAssumption
  <2> HIDE DEF G
  <2>5. \A w \in broken : w \notin G /\ w <= (starts + 1) * MaxConcurrent
    BY <2>2, <2>3, <2>4, BoundsAssumption DEF BrokenAreOver
  <2> QED
    BY <2>1, <2>3, <2>5 DEF BrokenAreOver
<1>4. CASE ~Start /\ ~ \E w \in Worker : WorkerStep(w)
  <2>1. UNCHANGED <<worker, broken, starts>>
    BY <1>4 DEF Next, Enqueue, CancelToken, Wait, ThreadEnds, Poll,
                PollTimesOut, ClearCompleted, Stop, StopTimesOut, StopReturns,
                vars, queueVars, workerVars, callVars
  <2> QED
    BY <1>2, <2>1
<1> QED
  BY <1>1, <1>3, <1>4

(* OnlyCancellationLoses: a task is lost by its own function's             *)
(* CancelledError, or while stop() waits for its workers; one that was     *)
(* waiting to be put back only after the timeout of stop().                *)
THEOREM OnlyCancellationLosesHolds == Spec => OnlyCancellationLoses
<1> DEFINE Excused(t) ==
             \/ \E w \in broken' \ broken : hold[w] = t /\ worker[w] = "calling"
             \/ /\ stopping # "no"
                /\ status[t] = "pending" => stopping = "timed_out"
<1>1. ASSUME IInv, Interrupts, BrokenAreOver, [Next]_vars
      PROVE  \A t \in lost' \ lost : Excused(t)
  <2>1. SUFFICES ASSUME NEW t \in lost' \ lost PROVE Excused(t)
    OBVIOUS
  <2>2. PICK w \in Worker :
             /\ hold[w] = t
             /\ \/ /\ interrupted[w]
                   /\ worker[w] \in {"calling", "delay", "putback"}
                \/ worker[w] = "calling" /\ broken' = broken \cup {w}
    BY <1>1, OnlyCancelledLose
  <2>3. CASE worker[w] = "calling" /\ broken' = broken \cup {w}
    <3>1. w \notin broken
      BY <1>1, <2>3 DEF BrokenAreOver
    <3> QED
      BY <2>2, <2>3, <3>1
  <2>4. CASE interrupted[w] /\ worker[w] = "putback"
    BY <1>1, <2>2, <2>4 DEF Interrupts, IInv, TypeOK
  <2>5. CASE interrupted[w] /\ worker[w] \in {"calling", "delay"}
    BY <1>1, <2>2, <2>5 DEF Interrupts, IInv, Hands, Executing
  <2> QED
    BY <2>2, <2>3, <2>4, <2>5
<1>2. IInv /\ Interrupts /\ BrokenAreOver /\ [Next]_vars
        => [\A t \in lost' \ lost : Excused(t)]_vars
  BY <1>1
<1> QED
  BY InitPlaces, PlacesKept, InitInterrupts, InterruptsKept, InitBroken,
     BrokenKept, <1>2, PTL
  DEF Spec, OnlyCancellationLoses

(* wait_for_task() polls for a task that was enqueued.                     *)
AwaitedIsKnown == awaited # NoTask => status[awaited] # "new"

LEMMA InitAwaited == Init => AwaitedIsKnown
  BY DEF Init, AwaitedIsKnown

LEMMA AwaitedKept == IInv /\ AwaitedIsKnown /\ [Next]_vars => AwaitedIsKnown'
<1> SUFFICES ASSUME IInv, AwaitedIsKnown, [Next]_vars
             PROVE  AwaitedIsKnown'
  OBVIOUS
<1> USE DEF IInv, TypeOK, AwaitedIsKnown
<1>1. ASSUME NEW w \in Worker, WorkerStep(w)
      PROVE  AwaitedIsKnown'
  <2> USE DEF Finish, callerVars
  <2>1. CASE GetEnds(w) \/ Get(w) \/ GiveBack(w) \/ PutBack(w)
    BY <2>1 DEF GetEnds, Get, GiveBack, PutBack, taskVars
  <2>2. CASE Begin(w)
    BY <2>2 DEF Begin
  <2>3. CASE CallReturns(w) \/ CallRaises(w) \/ CallTimesOut(w)
    BY <2>3 DEF CallReturns, CallRaises, CallTimesOut, AttemptFails
  <2>4. CASE Retry(w)
    BY <2>4 DEF Retry
  <2>5. CASE WorkerInterrupted(w) \/ CallCancels(w) \/ CallGoesOn(w)
    BY <2>5 DEF WorkerInterrupted, CallCancels, LoseTask, CallGoesOn, taskVars
  <2> QED
    BY <1>1, <2>1, <2>2, <2>3, <2>4, <2>5 DEF WorkerStep
<1>2. ASSUME NEW t \in Task,
             Enqueue(t) \/ CancelToken(t) \/ Wait(t) \/ ThreadEnds(t)
      PROVE  AwaitedIsKnown'
  BY <1>2 DEF Enqueue, CancelToken, Wait, ThreadEnds, callerVars, taskVars
<1>3. CASE Poll \/ PollTimesOut
  BY <1>3 DEF Poll, PollTimesOut
<1>4. CASE ClearCompleted \/ Start \/ Stop \/ StopTimesOut \/ StopReturns
           \/ UNCHANGED vars
  BY <1>4 DEF ClearCompleted, Start, Stop, StopTimesOut, StopReturns, vars,
              callerVars, taskVars
<1> QED
  BY <1>1, <1>2, <1>3, <1>4 DEF Next

(* NotFoundIsTrue: wait_for_task() says not found of no task that is       *)
(* queued or being executed.                                               *)
THEOREM NotFoundIsTrueHolds == Spec => NotFoundIsTrue
<1> DEFINE Gone == \/ awaited \in lost
                   \/ status[awaited] \in Finished
                   \/ \E w \in Worker : hold[w] = awaited /\ ~Executing(w)
<1>1. ASSUME IInv, AwaitedIsKnown, [Next]_vars,
             answer # "not_found" /\ answer' = "not_found"
      PROVE  Gone
  <2>1. Poll
    <3>1. ASSUME NEW w \in Worker, WorkerStep(w)
          PROVE  answer' = answer
      BY <3>1 DEF WorkerStep, GetEnds, Get, Begin, GiveBack, PutBack,
                  CallReturns, CallRaises, CallTimesOut, AttemptFails, Retry,
                  CallGoesOn, CallCancels, WorkerInterrupted, LoseTask,
                  callerVars
    <3>2. ASSUME NEW t \in Task,
                 Enqueue(t) \/ CancelToken(t) \/ Wait(t) \/ ThreadEnds(t)
          PROVE  answer' # "not_found"
      BY <1>1, <3>2 DEF Enqueue, CancelToken, Wait, ThreadEnds, callerVars
    <3>3. ASSUME \/ PollTimesOut \/ ClearCompleted \/ Start \/ Stop
                 \/ StopTimesOut \/ StopReturns \/ UNCHANGED vars
          PROVE  answer' # "not_found"
      BY <1>1, <3>3 DEF PollTimesOut, ClearCompleted, Start, Stop,
                        StopTimesOut, StopReturns, vars, callerVars
    <3> QED
      BY <1>1, <3>1, <3>2, <3>3 DEF Next
  <2>2. awaited \in Task /\ awaited \notin Running /\ awaited \notin pending
    BY <1>1, <2>1 DEF Poll, IInv, TypeOK
  <2>3. \A w \in Worker : hold[w] = awaited => ~Executing(w)
    BY <2>2 DEF Running
  <2>4. status[awaited] # "new"
    BY <1>1, <2>1 DEF AwaitedIsKnown, Poll
  <2> QED
    BY <1>1, <2>2, <2>3, <2>4 DEF IInv, TypeOK, Places, TaskStatus, Finished
<1>2. IInv /\ AwaitedIsKnown /\ [Next]_vars
        => [answer # "not_found" /\ answer' = "not_found" => Gone]_vars
  BY <1>1
<1> QED
  BY InitPlaces, PlacesKept, InitAwaited, AwaitedKept, <1>2, PTL
  DEF Spec, NotFoundIsTrue
=============================================================================
