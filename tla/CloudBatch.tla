----------------------------- MODULE CloudBatch -----------------------------
(***************************************************************************)
(* BatchProcessor.process() of src/revitpy/cloud/batch.py over JobManager  *)
(* (jobs.py): one task per job, a semaphore of max_parallel slots, retries *)
(* of what failed or timed out, and a loop that takes the results in the   *)
(* order they arrive.                                                      *)
(*                                                                         *)
(* The cloud is external: a request may raise, and a work item goes on     *)
(* until it reaches one of the final statuses.  Nobody stops a work item:  *)
(* a job that times out leaves its item running.  Counts are the           *)
(* cardinalities of the results.  The tasks start together, in the order   *)
(* of the list, before anything else can run.                              *)
(***************************************************************************)
EXTENDS Integers, Sequences, FiniteSets

CONSTANTS
    Jobs,         \* how many jobs the batch has
    MaxParallel,  \* max_parallel
    RetryCount    \* retry_count

ASSUME BatchAssumption ==
    /\ Jobs \in Nat \ {0} /\ MaxParallel \in Nat \ {0} /\ RetryCount \in Nat

Job == 1 .. Jobs
FinalStatuses == {"completed", "failed", "cancelled", "timed_out"}

VARIABLES
    continueOnError,  \* continue_on_error
    cancel,           \* the cancel event: "none" (not given), "clear", "set"
    task,             \* task[j]: where the task of job j is
    attempt,          \* attempts of job j that are over
    item,             \* the work item the task of j waits for
    abandoned,        \* earlier work items of j that still run
    result,           \* status of the result of job j
    finished,         \* tasks that are done, for as_completed()
    results,          \* jobs whose results process() has
    process           \* "before", "running", "returned" or "raised"

batchVars == <<continueOnError, cancel, task, attempt, item, abandoned,
               result, finished, results, process>>
loopVars == <<continueOnError, cancel, results, process>>

BatchInit ==
    /\ continueOnError \in BOOLEAN
    /\ cancel \in {"none", "clear"}
    /\ task = [j \in Job |-> "new"]
    /\ attempt = [j \in Job |-> 0]
    /\ item = [j \in Job |-> "none"]
    /\ abandoned = [j \in Job |-> 0]
    /\ result = [j \in Job |-> "none"]
    /\ finished = <<>>
    /\ results = <<>>
    /\ process = "before"

(* _run_one() looks at the event once, when the task starts, and then      *)
(* waits for a slot.                                                       *)
Process ==
    /\ process = "before"
    /\ process' = "running"
    /\ IF cancel = "set"
       THEN /\ task' = [j \in Job |-> "done"]
            /\ result' = [j \in Job |-> "cancelled"]
            /\ finished' = [j \in Job |-> j]
       ELSE /\ task' = [j \in Job |-> IF j <= MaxParallel THEN "submits"
                                                          ELSE "waits"]
            /\ UNCHANGED <<result, finished>>
    /\ UNCHANGED <<continueOnError, cancel, attempt, item, abandoned, results>>

Cancel ==
    /\ cancel = "clear"
    /\ cancel' = "set"
    /\ UNCHANGED <<continueOnError, task, attempt, item, abandoned, result,
                   finished, results, process>>
-----------------------------------------------------------------------------
Waiting == {k \in Job : task[k] = "waits"}

(* Mutant: a job that waits is not told of the slot.                       *)
EndsUnnoticed(j, status) ==
    /\ result' = [result EXCEPT ![j] = status]
    /\ finished' = Append(finished, j)
    /\ task' = [task EXCEPT ![j] = "done"]

(* The task of job j ends, and the first that waits gets its slot.         *)
Ends(j, status) ==
    /\ result' = [result EXCEPT ![j] = status]
    /\ finished' = Append(finished, j)
    /\ task' = [k \in Job |->
                  IF k = j THEN "done"
                  ELSE IF k \in Waiting /\ \A l \in Waiting : k <= l
                  THEN "submits" ELSE task[k]]

Submit(j) ==
    /\ task[j] = "submits"
    /\ task' = [task EXCEPT ![j] = "polls"]
    /\ item' = [item EXCEPT ![j] = "running"]
    /\ UNCHANGED <<loopVars, attempt, abandoned, result, finished>>

(* An error of the client is not retried.                                  *)
RequestRaises(j) ==
    /\ task[j] \in {"submits", "polls"}
    /\ Ends(j, "failed")
    /\ UNCHANGED <<loopVars, attempt, item, abandoned>>

PollFindsResult(j) ==
    /\ task[j] = "polls"
    /\ item[j] \in FinalStatuses \ {"failed"}
    /\ Ends(j, item[j])
    /\ UNCHANGED <<loopVars, attempt, item, abandoned>>

(* JobExecutionError: the item failed, or it took too long and is left as  *)
(* it is.                                                                  *)
Retries(j) ==
    IF attempt[j] < RetryCount
    THEN /\ task' = [task EXCEPT ![j] = "sleeps"]
         /\ attempt' = [attempt EXCEPT ![j] = @ + 1]
         /\ UNCHANGED <<result, finished>>
    ELSE Ends(j, "failed") /\ UNCHANGED attempt

PollFindsFailure(j) ==
    /\ task[j] = "polls" /\ item[j] = "failed"
    /\ Retries(j)
    /\ UNCHANGED <<loopVars, item, abandoned>>

TimesOut(j) ==
    /\ task[j] = "polls"
    /\ Retries(j)
    /\ abandoned' = [abandoned EXCEPT ![j] =
                       IF item[j] = "running" THEN @ + 1 ELSE @]
    /\ item' = [item EXCEPT ![j] = "none"]
    /\ UNCHANGED loopVars

Wakes(j) ==
    /\ task[j] = "sleeps"
    /\ task' = [task EXCEPT ![j] = "submits"]
    /\ UNCHANGED <<loopVars, attempt, item, abandoned, result, finished>>

TaskStep(j) ==
    \/ Submit(j)
    \/ RequestRaises(j)
    \/ PollFindsResult(j)
    \/ PollFindsFailure(j)
    \/ TimesOut(j)
    \/ Wakes(j)

(* The cloud                                                               *)
ItemEnds(j) ==
    /\ \/ /\ item[j] = "running"
          /\ \E st \in FinalStatuses : item' = [item EXCEPT ![j] = st]
          /\ UNCHANGED abandoned
       \/ /\ abandoned[j] > 0
          /\ abandoned' = [abandoned EXCEPT ![j] = @ - 1]
          /\ UNCHANGED item
    /\ UNCHANGED <<loopVars, task, attempt, result, finished>>
-----------------------------------------------------------------------------
(* One turn of the loop of process(); a progress callback may raise.       *)
TakeResult ==
    /\ process = "running" /\ finished # <<>>
    /\ finished' = Tail(finished)
    /\ results' = Append(results, Head(finished))
    /\ LET stops == ~continueOnError /\ result[Head(finished)] = "failed"
       IN \/ /\ cancel' = IF stops /\ cancel = "clear" THEN "set" ELSE cancel
             /\ process' = IF stops \/ Len(results') = Jobs THEN "returned"
                                                            ELSE "running"
          \/ process' = "raised" /\ UNCHANGED cancel
    /\ UNCHANGED <<continueOnError, task, attempt, item, abandoned, result>>

BatchNext ==
    \/ Process
    \/ Cancel
    \/ \E j \in Job : TaskStep(j) \/ ItemEnds(j)
    \/ TakeResult

(* Requests return or raise and time passes; the cloud may take for ever.  *)
BatchFairness ==
    /\ WF_batchVars(TakeResult)
    /\ \A j \in Job : WF_batchVars(TaskStep(j))

BatchSpec == BatchInit /\ [][BatchNext]_batchVars /\ BatchFairness
-----------------------------------------------------------------------------
StoppedEarly ==
    \/ process = "raised"
    \/ ~continueOnError /\ results # <<>>
         /\ result[results[Len(results)]] = "failed"

(* A batch ends, however its jobs fail, hang or are cancelled: process()   *)
(* has returned with the result of every job, unless a failure or the      *)
(* progress callback stopped it; then the tasks that it leaves end too,    *)
(* those that were waiting for a slot among them.                          *)
BatchEnds ==
    process = "running" ~>
      /\ process \in {"returned", "raised"}
      /\ \A j \in Job : task[j] = "done" /\ result[j] # "none"
      /\ StoppedEarly \/ {results[i] : i \in DOMAIN results} = Job
=============================================================================
