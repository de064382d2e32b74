------------------------------ MODULE TaskQueue ------------------------------
(***************************************************************************)
(* TaskQueue and Task of src/revitpy/async_support/task_queue.py: workers  *)
(* that take tasks from an asyncio.PriorityQueue, call their function with *)
(* retries, and are cancelled by stop().                                   *)
(*                                                                         *)
(* Everything runs on one event loop, so what lies between two awaits is   *)
(* one step.  The awaits are: get() of the pending queue (state "get" of a *)
(* worker), the hand-over of what get() removed (in Python 3.11 wait_for() *)
(* runs get() in a task of its own, so that the item is in nobody's table  *)
(* before the worker resumes: "held"), the put() that gives a task back to *)
(* a full queue ("putback"), the task's function ("calling") and the sleep *)
(* before a retry ("delay").                                               *)
(*                                                                         *)
(* stop() cancels the workers: interrupted[w] is the CancelledError that w *)
(* has not met yet.  A function can also end with a CancelledError of its  *)
(* own.  _shutdown_event is the negation of _is_running from the first     *)
(* start() on, and has no variable.                                        *)
(*                                                                         *)
(* A coroutine function ends with its await.  A synchronous one runs in a  *)
(* thread of the executor, which runs on when the await is given up, by    *)
(* the task's timeout or a cancellation: threads[t] counts these.          *)
(*                                                                         *)
(* Tasks are numbered by created_at and each is enqueued once.  Any task   *)
(* may have a timeout.  Statistics and progress reports are left out.      *)
(***************************************************************************)
EXTENDS Integers, FiniteSets

CONSTANTS
    N,              \* number of tasks
    Priority,       \* Priority[t]: priority of task t
    Token,          \* the tasks that have a cancellation token
    Sync,           \* the tasks whose function is no coroutine function
    Retries,        \* retry_count of every task
    MaxConcurrent,  \* max_concurrent_tasks
    MaxQueueSize,   \* max_queue_size
    MaxStarts       \* bound on the calls of start()

Task == 1 .. N
Worker == 1 .. MaxConcurrent * MaxStarts

ASSUME BoundsAssumption ==
    /\ N \in Nat
    /\ Retries \in Nat
    /\ MaxConcurrent \in Nat \ {0}
    /\ MaxQueueSize \in Nat \ {0}
    /\ MaxStarts \in Nat
ASSUME TasksAssumption ==
    Priority \in [Task -> Int] /\ Token \subseteq Task /\ Sync \subseteq Task

NoTask == 0
TaskStatus ==
    {"new", "pending", "running", "completed", "failed", "cancelled"}
Finished == {"completed", "failed", "cancelled"}
WorkerState ==
    {"unborn", "get", "held", "putback", "calling", "delay", "ended"}

VARIABLES
    active,       \* _is_running
    starts,       \* calls of start() so far
    tracked,      \* _worker_tasks
    stopping,     \* where stop() stands: "no", "waits", "timed_out"
    gathered,     \* the workers stop() waits for
    overlapped,   \* whether start() was called while stop() waited
    worker,       \* worker[w]: where worker w stands
    hold,         \* hold[w]: the task w has in hand
    interrupted,  \* interrupted[w]: w was cancelled and has not met it yet
    pending,      \* _pending_queue
    status,       \* status[t] of the task; "new" before it is enqueued
    attempts,     \* attempts[t] of the task
    cancelled,    \* the tasks whose token is cancelled
    results,      \* keys of _completed_tasks
    lost,         \* tasks a CancelledError took from a worker
    threads,      \* threads[t]: calls of t left behind in executor threads
    broken,       \* the workers that a function's own CancelledError ended
    awaited,      \* the task wait_for_task() polls for
    answer        \* what the latest wait_for_task() has come to

queueVars == <<active, starts, tracked, stopping, gathered, overlapped>>
workerVars == <<worker, hold, interrupted>>
taskVars == <<pending, status, attempts, results, lost>>
callVars == <<threads, broken>>
callerVars == <<cancelled, awaited, answer>>
vars == <<queueVars, workerVars, taskVars, callVars, callerVars>>

Init ==
    /\ active = FALSE
    /\ starts = 0
    /\ tracked = {}
    /\ stopping = "no"
    /\ gathered = {}
    /\ overlapped = FALSE
    /\ worker = [w \in Worker |-> "unborn"]
    /\ hold = [w \in Worker |-> NoTask]
    /\ interrupted = [w \in Worker |-> FALSE]
    /\ pending = {}
    /\ status = [t \in Task |-> "new"]
    /\ attempts = [t \in Task |-> 0]
    /\ cancelled = {}
    /\ results = {}
    /\ lost = {}
    /\ threads = [t \in Task |-> 0]
    /\ broken = {}
    /\ awaited = NoTask
    /\ answer = "none"

-----------------------------------------------------------------------------
(* enqueue() and enqueue_sync() refuse with an exception.                  *)
Enqueue(t) ==
    /\ active
    /\ status[t] = "new"
    /\ Cardinality(pending) < MaxQueueSize
    /\ pending' = pending \cup {t}
    /\ status' = [status EXCEPT ![t] = "pending"]
    /\ UNCHANGED <<queueVars, workerVars, attempts, results, lost,
                   callVars, callerVars>>

(* The owner of the token cancels it.                                      *)
CancelToken(t) ==
    /\ t \in Token \ cancelled
    /\ cancelled' = cancelled \cup {t}
    /\ UNCHANGED <<queueVars, workerVars, taskVars, callVars,
                   awaited, answer>>

ClearCompleted ==
    /\ results # {}
    /\ results' = {}
    /\ UNCHANGED <<queueVars, workerVars, pending, status, attempts, lost,
                   callVars, callerVars>>

-----------------------------------------------------------------------------
Live(w) == worker[w] \notin {"unborn", "ended"}
Executing(w) == worker[w] \in {"calling", "delay"}   \* in _running_tasks
InHand == {hold[w] : w \in Worker} \ {NoTask}
Running == {hold[w] : w \in {v \in Worker : Executing(v)}}

(* Mutant: one poll, before it has looked at the pending queue.            *)
PollSkipsPending ==
    /\ awaited # NoTask
    /\ answer' = IF awaited \in results THEN "result" ELSE "not_found"
    /\ awaited \notin Running
    /\ awaited' = NoTask
    /\ UNCHANGED <<queueVars, workerVars, taskVars, callVars, cancelled>>

(* wait_for_task() polls.  A task in neither table is looked for in the    *)
(* pending queue, which is emptied and refilled without an await.          *)
Wait(t) ==
    /\ awaited = NoTask
    /\ status[t] # "new"
    /\ awaited' = t
    /\ answer' = "waiting"
    /\ UNCHANGED <<queueVars, workerVars, taskVars, callVars, cancelled>>

Poll ==
    /\ awaited # NoTask
    /\ \/ awaited \in results /\ answer' = "result"
       \/ awaited \notin results \cup Running \cup pending
          /\ answer' = "not_found"
    /\ awaited' = NoTask
    /\ UNCHANGED <<queueVars, workerVars, taskVars, callVars, cancelled>>

PollTimesOut ==
    /\ awaited # NoTask
    /\ awaited \notin results
    /\ answer' = "timeout"
    /\ awaited' = NoTask
    /\ UNCHANGED <<queueVars, workerVars, taskVars, callVars, cancelled>>

-----------------------------------------------------------------------------
Generation(n) == (n - 1) * MaxConcurrent + 1 .. n * MaxConcurrent

Start ==
    /\ ~active
    /\ starts < MaxStarts
    /\ active' = TRUE
    /\ starts' = starts + 1
    /\ tracked' = Generation(starts')
    /\ overlapped' = (overlapped \/ stopping # "no")
    /\ worker' = [w \in Worker |->
                     IF w \in tracked' THEN "get" ELSE worker[w]]
    /\ UNCHANGED <<stopping, gathered, hold, interrupted, taskVars, callVars,
                   callerVars>>

Interrupt(W) ==
    interrupted' = [w \in Worker |-> interrupted[w] \/ (w \in W /\ Live(w))]

(* stop() up to its await, the second cancellation when that times out,    *)
(* and the rest.  The timeout does not cut the wait short: wait_for()      *)
(* waits until what it cancelled has ended.                                *)
Stop ==
    /\ active
    /\ stopping = "no"
    /\ active' = FALSE
    /\ stopping' = "waits"
    /\ gathered' = tracked
    /\ Interrupt(tracked)
    /\ UNCHANGED <<starts, tracked, overlapped, worker, hold, taskVars,
                   callVars, callerVars>>

StopTimesOut ==
    /\ stopping = "waits"
    /\ \E w \in gathered : Live(w)
    /\ stopping' = "timed_out"
    /\ Interrupt(gathered)
    /\ UNCHANGED <<active, starts, tracked, gathered, overlapped, worker, hold,
                   taskVars, callVars, callerVars>>

(* Mutant: stop() returns at its timeout.                                  *)
StopReturnsEarly ==
    /\ stopping # "no"
    /\ stopping = "timed_out" \/ \A w \in gathered : ~Live(w)
    /\ stopping' = "no"
    /\ gathered' = {}
    /\ tracked' = {}
    /\ cancelled' = cancelled \cup (Running \cap Token)
    /\ UNCHANGED <<active, starts, overlapped, workerVars, taskVars, callVars,
                   awaited, answer>>

StopReturns ==
    /\ stopping # "no"
    /\ \A w \in gathered : ~Live(w)
    /\ stopping' = "no"
    /\ gathered' = {}
    /\ tracked' = {}
    /\ cancelled' = cancelled \cup (Running \cap Token)
    /\ UNCHANGED <<active, starts, overlapped, workerVars, taskVars, callVars,
                   awaited, answer>>

-----------------------------------------------------------------------------
(* Task.__lt__: the higher priority, then the older task.                  *)
Before(t, u) ==
    \/ Priority[t] > Priority[u]
    \/ Priority[t] = Priority[u] /\ t < u

IsNext(t) == t \in pending /\ \A u \in pending \ {t} : Before(t, u)

(* w has nothing in hand any more, and ends or goes round its loop.        *)
LetGo(w, state) ==
    /\ worker' = [worker EXCEPT ![w] = state]
    /\ hold' = [hold EXCEPT ![w] = NoTask]
    /\ interrupted' = [interrupted EXCEPT ![w] = FALSE]

(* Mutant: a worker serves one task.                                       *)
AfterOneTask == "ended"

AfterTask == IF active THEN "get" ELSE "ended"

(* The while test after a get() that timed out, and the cancellation of a  *)
(* get(), which leaves the queue as it was.                                *)
GetEnds(w) ==
    /\ worker[w] = "get"
    /\ interrupted[w] \/ ~active
    /\ LetGo(w, "ended")
    /\ UNCHANGED <<queueVars, taskVars, callVars, callerVars>>

(* Mutant: get() looks at the queue and does not remove.                   *)
GetPeeks(w) ==
    /\ worker[w] = "get"
    /\ ~interrupted[w]
    /\ \E t \in pending : IsNext(t) /\ hold' = [hold EXCEPT ![w] = t]
    /\ worker' = [worker EXCEPT ![w] = "held"]
    /\ UNCHANGED <<queueVars, interrupted, taskVars, callVars, callerVars>>

Get(w) ==
    /\ worker[w] = "get"
    /\ ~interrupted[w]
    /\ \E t \in pending :
          /\ IsNext(t)
          /\ pending' = pending \ {t}
          /\ hold' = [hold EXCEPT ![w] = t]
    /\ worker' = [worker EXCEPT ![w] = "held"]
    /\ UNCHANGED <<queueVars, interrupted, status, attempts, results, lost,
                   callVars, callerVars>>

(* execute() of the task in hand ends: the task's callbacks are called, the*)
(* worker stores the result and leaves the task.                           *)
Finish(w, outcome) ==
    /\ status' = [status EXCEPT ![hold[w]] = outcome]
    /\ results' = results \cup {hold[w]}
    /\ LetGo(w, AfterTask)
    /\ UNCHANGED <<pending, lost>>

(* The worker resumes from get(); wait_for() has swallowed a cancellation  *)
(* that came after the item.                                               *)
Begin(w) ==
    /\ worker[w] = "held"
    /\ active
    /\ \/ /\ hold[w] \in cancelled
          /\ Finish(w, "cancelled")
          /\ UNCHANGED attempts
       \/ /\ hold[w] \notin cancelled
          /\ status' = [status EXCEPT ![hold[w]] = "running"]
          /\ attempts' = [attempts EXCEPT ![hold[w]] = 1]
          /\ worker' = [worker EXCEPT ![w] = "calling"]
          /\ interrupted' = [interrupted EXCEPT ![w] = FALSE]
          /\ UNCHANGED <<hold, pending, results, lost>>
    /\ UNCHANGED <<queueVars, callVars, callerVars>>

(* Mutant: put() wants one more free place than there is.                  *)
RoomToSpare == Cardinality(pending) + 1 < MaxQueueSize

Room == Cardinality(pending) < MaxQueueSize

(* After a shutdown it gives the task back; put() waits when the queue has *)
(* been filled since.                                                      *)
GiveBack(w) ==
    /\ worker[w] = "held"
    /\ ~active
    /\ IF Room
       THEN pending' = pending \cup {hold[w]} /\ LetGo(w, "ended")
       ELSE /\ worker' = [worker EXCEPT ![w] = "putback"]
            /\ interrupted' = [interrupted EXCEPT ![w] = FALSE]
            /\ UNCHANGED <<hold, pending>>
    /\ UNCHANGED <<queueVars, status, attempts, results, lost, callVars,
                   callerVars>>

PutBack(w) ==
    /\ worker[w] = "putback"
    /\ Room
    /\ ~interrupted[w]
    /\ pending' = pending \cup {hold[w]}
    /\ LetGo(w, "ended")
    /\ UNCHANGED <<queueVars, status, attempts, results, lost, callVars,
                   callerVars>>

(* The function of the task returns, or raises OperationCancelledError for *)
(* whatever token.  A cancellation of the worker that comes at the same    *)
(* time is swallowed by the wait_for() of a task with a timeout.           *)
CallReturns(w) ==
    /\ worker[w] = "calling"
    /\ \E outcome \in {"completed", "cancelled"} : Finish(w, outcome)
    /\ UNCHANGED <<queueVars, attempts, callVars, callerVars>>

(* An attempt failed: the task does too, or waits for the next attempt.    *)
AttemptFails(w) ==
    /\ \/ attempts[hold[w]] > Retries /\ Finish(w, "failed")
       \/ /\ attempts[hold[w]] <= Retries
          /\ worker' = [worker EXCEPT ![w] = "delay"]
          /\ interrupted' = [interrupted EXCEPT ![w] = FALSE]
          /\ UNCHANGED <<hold, pending, status, results, lost>>
    /\ UNCHANGED <<queueVars, attempts, broken, callerVars>>

CallRaises(w) ==
    /\ worker[w] = "calling"
    /\ AttemptFails(w)
    /\ UNCHANGED threads

(* The await of a call is given up.  The thread of a synchronous function  *)
(* runs on, unless the executor had not begun it.                          *)
LeavesThread(t) ==
    \/ UNCHANGED threads
    \/ t \in Sync /\ threads' = [threads EXCEPT ![t] = @ + 1]

CallTimesOut(w) ==
    /\ worker[w] = "calling"
    /\ ~interrupted[w]
    /\ AttemptFails(w)
    /\ LeavesThread(hold[w])

ThreadEnds(t) ==
    /\ threads[t] > 0
    /\ threads' = [threads EXCEPT ![t] = @ - 1]
    /\ UNCHANGED <<queueVars, workerVars, taskVars, broken, callerVars>>

(* The loop of _execute_with_retry() looks at the token first.             *)
Retry(w) ==
    /\ worker[w] = "delay"
    /\ ~interrupted[w]
    /\ attempts' = [attempts EXCEPT ![hold[w]] = @ + 1]
    /\ \/ hold[w] \in cancelled /\ Finish(w, "cancelled")
       \/ /\ hold[w] \notin cancelled
          /\ worker' = [worker EXCEPT ![w] = "calling"]
          /\ UNCHANGED <<pending, status, results, lost, hold, interrupted>>
    /\ UNCHANGED <<queueVars, callVars, callerVars>>

(* CancelledError is no Exception: it passes execute() by, only the finally*)
(* of _worker() sees the task, and the worker ends.                        *)
LoseTask(w) ==
    /\ lost' = lost \cup {hold[w]}
    /\ LetGo(w, "ended")
    /\ UNCHANGED <<queueVars, pending, status, attempts, results, callerVars>>

(* Mutant: wait_for() lets a cancellation pass that came after the item.   *)
WorkerInterruptedInHandover(w) ==
    /\ worker[w] \in {"held", "calling", "delay", "putback"}
    /\ interrupted[w]
    /\ LoseTask(w)
    /\ UNCHANGED callVars

WorkerInterrupted(w) ==
    /\ worker[w] \in {"calling", "delay", "putback"}
    /\ interrupted[w]
    /\ LoseTask(w)
    /\ IF worker[w] = "calling" THEN LeavesThread(hold[w])
                                ELSE UNCHANGED threads
    /\ UNCHANGED broken

(* The function itself ends with CancelledError, stop() or not.            *)
CallCancels(w) ==
    /\ worker[w] = "calling"
    /\ LoseTask(w)
    /\ broken' = broken \cup {w}
    /\ UNCHANGED threads

(* A coroutine function may catch CancelledError and go on.                *)
CallGoesOn(w) ==
    /\ worker[w] = "calling"
    /\ hold[w] \notin Sync
    /\ interrupted[w]
    /\ interrupted' = [interrupted EXCEPT ![w] = FALSE]
    /\ UNCHANGED <<queueVars, worker, hold, taskVars, callVars, callerVars>>

-----------------------------------------------------------------------------
WorkerStep(w) ==
    \/ GetEnds(w) \/ Get(w) \/ Begin(w) \/ GiveBack(w) \/ PutBack(w)
    \/ CallReturns(w) \/ CallRaises(w) \/ CallTimesOut(w) \/ CallCancels(w)
    \/ Retry(w) \/ WorkerInterrupted(w) \/ CallGoesOn(w)

Next ==
    \/ \E t \in Task :
          Enqueue(t) \/ CancelToken(t) \/ Wait(t) \/ ThreadEnds(t)
    \/ \E w \in Worker : WorkerStep(w)
    \/ Poll \/ PollTimesOut \/ ClearCompleted
    \/ Start \/ Stop \/ StopTimesOut \/ StopReturns

Spec == Init /\ [][Next]_vars

(* The event loop runs what is ready; functions return.                    *)
Fairness ==
    /\ \A w \in Worker : WF_vars(WorkerStep(w))
    /\ WF_vars(Poll)
    /\ WF_vars(StopReturns)

FairSpec == Spec /\ Fairness

-----------------------------------------------------------------------------
(* The type invariant, with the bound of the retries.                      *)
TypeOK ==
    /\ active \in BOOLEAN /\ overlapped \in BOOLEAN
    /\ starts \in 0 .. MaxStarts
    /\ tracked \subseteq Worker /\ gathered \subseteq Worker
    /\ stopping \in {"no", "waits", "timed_out"}
    /\ worker \in [Worker -> WorkerState]
    /\ hold \in [Worker -> Task \cup {NoTask}]
    /\ interrupted \in [Worker -> BOOLEAN]
    /\ pending \subseteq Task
    /\ status \in [Task -> TaskStatus]
    /\ attempts \in [Task -> 0 .. Retries + 1]
    /\ cancelled \subseteq Token
    /\ results \subseteq Task
    /\ lost \subseteq Task
    /\ threads \in [Task -> Nat]
    /\ broken \subseteq Worker
    /\ awaited \in Task \cup {NoTask}
    /\ answer \in {"none", "waiting", "result", "not_found", "timeout"}
    /\ answer = "waiting" <=> awaited # NoTask

(* A task is in one place: pending, in the hand of one worker, lost or     *)
(* over.  So a coroutine function is never run twice at once, nor while its*)
(* task is queued.  A synchronous one is awaited once at a time and not    *)
(* while its task is queued; what earlier attempts left in threads may     *)
(* still run, one thread an attempt.  Over every put-back, restart and     *)
(* overlap of stop() and start().                                          *)
OnePlace ==
    /\ \A v, w \in Worker : v # w /\ hold[v] # NoTask => hold[v] # hold[w]
    /\ InHand \cap pending = {}
    /\ lost \cap (InHand \cup pending) = {}
    /\ \A t \in pending : status[t] = "pending" /\ threads[t] = 0
    /\ \A t \in InHand : status[t] \in {"pending", "running"}
    /\ \A t \in Task : status[t] = "running" => t \in InHand \cup lost
    /\ \A t \in Task :
          status[t] = "pending" => t \in InHand \cup pending \cup lost
    /\ \A w \in Worker :
          worker[w] = "calling" => threads[hold[w]] < attempts[hold[w]]
    /\ \A t \in Task : threads[t] > 0 => t \in Sync /\ threads[t] <= attempts[t]

(* A task is lost only by a CancelledError: that of its own function, which*)
(* costs its worker too, or that of a stop() which waits for the worker.   *)
(* A stop() loses only what was being executed, until its timeout.         *)
OnlyCancellationLoses ==
    [][\A t \in lost' \ lost :
          \/ \E w \in broken' \ broken : hold[w] = t /\ worker[w] = "calling"
          \/ /\ stopping # "no"
             /\ status[t] = "pending" => stopping = "timed_out"]_vars

(* When stop() has returned no worker is left: no task is taken, retried or*)
(* awaited until the next start() (unless start() did not wait for stop()).*)
(* What may still run are threads of synchronous functions.                *)
NoWorkerAfterStop ==
    (~overlapped /\ ~active /\ stopping = "no") => \A w \in Worker : ~Live(w)

(* running_count is at most max_concurrent_tasks, over restarts; every call*)
(* that is awaited counts.  The threads left behind do not: see            *)
(* CallsAtMostMax.                                                         *)
RunningAtMostMax == ~overlapped => Cardinality(Running) <= MaxConcurrent

(* The calls of task functions under way: awaited, and left behind.        *)
Calls ==
    {<<hold[w], 0>> : w \in {v \in Worker : worker[v] = "calling"}}
    \cup {c \in Task \X (1 .. Retries + 1) : c[2] <= threads[c[1]]}

(* async.md says the queue has concurrency limits: never more calls of task*)
(* functions at once than max_concurrent_tasks.  The thread of a call that *)
(* timed out runs beside the retry.                                        *)
CallsAtMostMax == ~overlapped => Cardinality(Calls) <= MaxConcurrent

(* stop() says it cancels running tasks: the token of a task whose function*)
(* still runs is cancelled when it returns.  Its loop finds _running_tasks *)
(* empty, for the workers have ended by then.                              *)
StopCancelsTokens ==
    [][stopping # "no" /\ stopping' = "no" /\ ~overlapped
          => \A t \in Token : threads[t] > 0 => t \in cancelled']_vars

(* wait_for_task() says not found only of a task that a CancelledError took*)
(* from its worker, that is over and was cleared, or that is between get() *)
(* and its worker.                                                         *)
NotFoundIsTrue ==
    [][answer # "not_found" /\ answer' = "not_found"
          => \/ awaited \in lost
             \/ status[awaited] \in Finished
             \/ \E w \in Worker : hold[w] = awaited /\ ~Executing(w)]_vars

(* Every pending task is executed to an end, after restarts too, unless    *)
(* stop() comes first, a CancelledError takes it, or functions that ended  *)
(* with CancelledError have cost every worker of the latest start().       *)
PendingIsFinished ==
    \A t \in Task :
        status[t] \in {"pending", "running"}
            ~> \/ status[t] \in Finished \/ ~active \/ t \in lost
               \/ Generation(starts) \subseteq broken

(* stop() returns when the functions it interrupts do, unless a start()    *)
(* that did not wait for it gives its workers new work, or a worker cannot *)
(* give its task back to a queue that is full again.                       *)
StopEnds ==
    stopping # "no" ~>
        \/ stopping = "no" \/ overlapped
        \/ /\ \E w \in gathered : worker[w] = "putback"
           /\ Cardinality(pending) >= MaxQueueSize
=============================================================================
