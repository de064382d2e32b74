# A TLA+ development of RevitPy

RevitPy gives Python code access to Autodesk Revit. Its Python library
(`revitpy/`) wraps the host's transactions, dispatches the host's events, maps
elements to objects, runs background tasks, cloud jobs and extensions; a C# add-in
(`src/`) hosts Python in the Revit process. This directory models the parts of it
whose correctness depends on the order of steps: of callers, of user code called
back in the middle of an operation, of threads, of coroutines, and of failures.
The modules are model-checked with TLC, and the invariants that matter most are
proved with TLAPS for every value of the constants.

Paths below are relative to the repository's root.

    tlc -workers 2 -config MCTransactions.cfg MCTransactions  # any run of the table below
    tlapm TransactionProofs.tla                               # any module named ...Proofs

## Inventory

What is listed as *left out* has no module; the reasons are at the end of this
file and in `PROJECT.json`.

| part | source | module |
|---|---|---|
| transactions, groups | `revitpy/api/transaction.py` | `Transaction`, `TransactionGroup` |
| scopes, retry, cancellation of a transaction | `revitpy/api/transaction.py`, `revitpy/async_support/context_managers.py` | `TransactionScope` |
| document provider | `revitpy/api/wrapper.py` | `DocumentTransaction` |
| event dispatcher | `revitpy/events/dispatcher.py` | `EventDispatcher`, over `EventChannel` |
| handlers of an event | `revitpy/events/dispatcher.py`, `handlers.py` | `EventHandlers` |
| task queue | `revitpy/async_support/task_queue.py` | `TaskQueue` |
| `with_cancellation()` | `revitpy/async_support/cancellation.py` | `Cancellation` |
| ORM context and change tracker | `revitpy/orm/context.py`, `change_tracker.py` | `OrmSession`, over `OrmCache` |
| ORM cache | `revitpy/orm/cache.py` | `OrmCache` |
| asynchronous transaction | `revitpy/orm/async_support.py` | `AsyncTransaction`, over `AsyncLock` |
| extension manager, life cycle | `revitpy/extensions/manager.py`, `extension.py` | `ExtensionManager`, over `AsyncLock` |
| order of loading | `revitpy/extensions/registry.py` | `LoadOrder` |
| cloud batches and jobs | `revitpy/cloud/batch.py`, `jobs.py` | `CloudBatch` |
| cloud client | `revitpy/cloud/client.py` | `CloudClient` |
| interpreter pool (C#) | `src/RevitPy.Runtime/PythonInterpreterPool.cs` | `InterpreterPool` |
| event manager's own tables, queries, element sets, AI guard, interop, IFC, extraction, sustainability, performance, host process, bridges, tools | | left out |

**Transactions.** *State:* a `Transaction` has a status, the host's handle, a list
of operations and two lists of handlers; a `TransactionGroup` a status and its
members. *Operations:* start, add_operation, commit, rollback; add_transaction,
start_all, commit_all, rollback_all. *Interactions:* every call goes to an
`ITransactionProvider`; commit calls the queued operations and the handlers.
*Hard:* an operation is user code running in the middle of commit and may call
the transaction (or another member of its group) again; the provider can refuse
or raise at every call; a group fails half way. *Correct when:* what a
transaction reports is what the host did, handlers are told the truth once, an
outcome is final, a group's methods keep their promises.

**Scopes.** *State:* none of their own but the exception in flight, the attempt
and the token. *Operations:* `with`/`async with`, `transaction_scope`,
`async_transaction` with a token whose callback rolls back, `retry_transaction`.
*Hard:* failures on either side of the commit, cancellation at any moment, a
body that ends the transaction itself. *Correct when:* returning means committed,
nothing is committed twice, a scope leaves nothing open.

**Document provider.** *State:* `_transaction_stack`, a list of string handles.
*Operations:* start, commit, rollback, is_in_transaction. *Hard:* handles are made
of a name and the length of the list, and can be equal. *Correct when:* it keeps
the contract that `Transaction` relies on.

**Event dispatcher.** *State:* a bounded deque under a lock; `_is_processing`,
`_shutdown_event` and `_processing_thread` under none. *Operations:* dispatch,
start of the thread, its loop over batches, stop with a bounded join, clear.
*Interactions:* any thread dispatches; handlers run on the processing thread and
may dispatch or stop. *Hard:* every test of a flag is stale when it is used.
*Correct when:* no event is handled twice or disappears, order is kept, a
dispatched event is processed, a stopped dispatcher is quiet.

**Handlers.** *State:* a list of handlers per type of event and one for all events;
each handler's switch and count of errors. *Operations:* register, unregister,
enable, disable; an event reads the two lists and calls what it has read. *Interactions:* handlers and
filters are user code and change the lists while their event goes on; so do other
threads. *Hard:* the lists have no lock, and `list.sort()` empties a list while it runs. *Correct
when:* each registered handler is called once, in order of priority.

**Task queue.** *State:* an `asyncio.PriorityQueue` of pending tasks, the running
and the completed ones, a list of workers, `_is_running`. *Operations:* enqueue,
start, stop, wait_for_task, clear_completed; a worker gets, executes with retries,
stores. *Interactions:* a task's function is user code; tokens cancel it; stop
cancels the workers. *Hard:* a cancellation reaches a worker at any await; start
and stop overlap; the hand-over of an item is not atomic; a bounded queue is
full when a task is to be put back; a function may end with `CancelledError` itself, and one that
runs in a thread cannot be ended. *Correct when:* a task is in one place and
run by one worker, only a cancellation loses tasks, everything ends.

**Cancellation.** *State:* two tasks, a token, perhaps a deadline. *Operations:*
`with_cancellation()`. *Hard:* the operation, its monitor, the deadline and the
caller's own cancellation race, and a cancelled operation may still return or
raise. *Correct when:* the call reports what happened, leaves nothing running,
and a cancelled token ends it.

**ORM.** *State:* per element a tracker (state, original and current value, recorded
changes), a second table of states; a cache of entries in order with two dependency
indexes. *Operations:* attach, detach, set, add, remove, accept, reject,
get_by_id, save_changes over a unit of work, dispose; get, set, delete,
invalidate by dependency and by pattern, clear. *Interactions:* the provider and
the unit of work are the host's; setters of user classes track themselves.
*Hard:* save_changes() is four steps under no lock of the context; a load is two; there may be no
unit of work; a reject may restore nothing; one element has several keys; a full cache evicts
in the middle of a store. *Correct when:* what is accepted is what the host has,
an unsaved object is dirty, what was deleted is not served, an invalidated
dependency leaves nothing behind.

**Asynchronous transaction.** *State:* an active context, the nested ones, an
`asyncio.Lock`, a timeout task. *Operations:* begin, commit, rollback, `async with`.
*Hard:* the lock is not re-entrant and a failing commit asks for it again; the
timeout fires, and a task is cancelled, at any await. *Correct when:* a transaction ends once and in one
way, and the lock serves everybody.

**Extension manager.** *State:* extensions by id and by name, their order, an
`asyncio.Lock`, each extension's status. *Operations:* load with dependencies,
activate, deactivate, unload, shutdown; the registry's load order. *Hard:* the
lock is not re-entrant and loading a dependency takes it again; activation,
deactivation and shutdown do not take it; every hook is user code that may fail
while other tasks run. *Correct when:* what is active can be found and ended, a
dependency comes before what needs it, every call ends.

**Cloud batches.** *State:* a semaphore, a cancel event, one task per job, the results.
*Operations:* process with retries, cancel. *Hard:* a job times out while its item still runs, the
loop leaves at the first failure while jobs wait for a slot. *Correct when:* a batch ends
with the result of every job, and leaves no task waiting.

**Cloud client.** *State:* the times of the latest requests, in a deque. *Operations:* `request()` with a
rate limiter and retries after a backoff. *Interactions:* the jobs of a batch share one client. *Hard:* the
limiter waits, and others send meanwhile. *Correct when:* the limit holds over every second.

**Interpreter pool.** *State:* a queue of available interpreters, a dictionary of
all and one of the rented, a semaphore. *Operations:* rent, return, replacement of unhealthy interpreters,
forced return, reset. *Hard:* the four change in separate steps, and errors
release twice. *Correct when:* an interpreter has at most one renter, and the
free slots are those that nobody has.

The hazards of all of these, with the line where each bites, are the list
`hazards` of `PROJECT.json`.

## Modules

    EventChannel  <--implements--  EventDispatcher  <-- EventDispatcherProofs
    Transaction   <--implements--  DocumentTransaction <-- MCDocument, DocumentTransactionProofs
      ^  ^  ^
      |  |  +---- TransactionProofs (about all three)
      |  +------- TransactionScope <-- TransactionProofs
      +---------- TransactionGroup <-- TransactionProofs
    TaskQueue  <-- MCTaskQueue, TaskQueueProofs
    OrmCache  <-- OrmSession <-- OrmProofs (about both)
    AsyncLock <-- AsyncTransaction, ExtensionManager
    AsyncTransaction, Cancellation, CloudClient <-- AsyncProofs
    LoadOrder, ExtensionManager <-- ExtensionProofs
    InterpreterPool, EventHandlers <-- CountingProofs
    CloudBatch

    MCTransactions  = TransactionGroup + TransactionScope
    MCTables        = DocumentTransaction + OrmCache + InterpreterPool
    MCSession       = OrmSession, with calls on one element or changes of two
    MCDispatcher    = EventDispatcher + EventHandlers
    MCServices      = EventDispatcher + AsyncTransaction + LoadOrder + ExtensionManager
                      + CloudBatch + CloudClient + Cancellation

The last five modules but `MCSession` put parts that do not interact side by side for model
checking: a variable `subject`, chosen at the start, says which part moves, and
the others keep their initial state. (A behaviour is thus a behaviour of one
part, and every property is about one.) In `MCSession` it says which calls are made.

A call that the code refuses at once (an exception or a warning, and no
assignment) is a stuttering step of every model and is not written out.
Logging, statistics and times are left out everywhere. Each module has, beside
the definition a mutant changes, that mutant: the definition with a plausible
bug, which the property it is paired with in `PROJECT.json` must detect.

### Transaction

`status`, `queued` and `ran` are `_status`, the length of `_operations` and the
operations that the latest commit has seen return; `native[t]` is what the host
holds for `t`; `phase[t]` says where `commit()` of `t` is, because it is the one
call that is not atomic: `BeginCommit`, then one step per operation
(`OperationReturns`, `OperationRaises` for an Exception, `OperationInterrupted` for a
BaseException, which `except Exception` lets pass), then `CommitOk` or
`CommitFails`. While it is inside an operation, `AddOperation`, `Rollback` and the
calls of other transactions are enabled: they are the operation's own calls.
(Left out: a `commit()` of the same transaction by its own operation, which runs its
operations again, itself among them.) `RollbackCall` is `rollback()` with its three endings: done, refused by the
provider (`RollbackRefused`, which the code marks rolled back all the same),
raised (`RollbackRaises`, failed).

The provider is external. It is assumed to keep a contract: a call that answers
False or raises has changed nothing, and only an open transaction can be ended.
`DocumentTransaction` shows that the provider in the repository does.

### TransactionGroup, TransactionScope

Both extend `Transaction` and add a program counter. In the group, `call` and
`member` are the loop that runs: `StartMember`, `CommitMember` (with
`MemberOperation`, `MemberCommits`, `MemberFails`, `MemberInterrupted` for what the member's commit
does), `UndoMember` for the loop that is to roll back committed members,
`RollbackMember`. A caller may use the members directly between the group's
calls, and an operation of one member may use another.

In the scope, `kind` says which of the three ways in is used, `at` where the
caller is, `raising` the exception in flight, and attempt `k` of a retry uses
transaction `k`. `Cancel` is the token's callback, at any moment of the body or
of an operation.

### DocumentTransaction

The handle is the pair of a name and a depth, and the list of handles is the
bag `entries` with its length `depth`: the code searches the list and removes the
first equal element, so order is irrelevant. `T == INSTANCE Transaction` with the
refinement mapping `native`, which reads the list and not the status: nothing before there is a
handle, open while the handle is on the list, and once it is gone committed or
rolled back. `KeepsContract == T!Spec` is the refinement.

### EventChannel, EventDispatcher

`EventChannel` is what a dispatching caller is promised: an accepted event is
handled at most once or lost for good. `EventDispatcher` has one step for every
access to shared state: the deque in one step (the lock), each flag by itself.
`call[c]` walks through `_queue_event`, `_start_processing` and
`stop_processing`; `loop[l]` through `_process_events_loop`. Threads are numbered in
the order they are created, and each may still be alive while the next is started,
which is what the stale tests allow. A handler that dispatches or stops is a
further caller; the stop that would join its own thread is `StopInHandler`. The join of
`stop_processing()` reads `_processing_thread` twice (lines 496-498), in one step here (`Join`).

### EventHandlers

`lists` holds the list of one type of event and the list of the handlers of all
events. Every access is a step: `change[c]` says where thread `c` is in
`register_handler()` (append, then `Sort` and `SortEnds`: CPython takes the items
out of a list while it sorts it, and the key is Python code, so that other threads run in between
and find the list empty) or in `unregister_handler()` (`Find`, `Remove`, list by list). The thread
`"events"` makes its calls between events and in handlers. An event is
`BeginEvent` and `ReadGlobal`, which copy the two lists, then for each handler
`SkipHandler` or `CallHandler` and how it ends; `FilterRaises` is a filter that raises, outside
the `try` of the loop, and ends the event. `owed` is how often each handler was registered when the event began,
`touched` are those about which nothing can be said (disabled, refused, failed, changed since),
and `upset` remembers that another thread was in a call while the lists were read,
or in one beside another. One event is processed at a time; an event dispatched
immediately in a handler, or by another thread, reads the same lists and changes none.

### TaskQueue

All of it runs on one event loop, so what lies between two awaits is one step.
`worker[w]` is the await at which worker `w` stands, `hold[w]` the task it has in
hand, `interrupted[w]` a `CancelledError` it has not met yet. Workers of one
`start()` are one `Generation` of numbers; a number is never used again.
`Get` and `Begin` are separate: in Python 3.11 `wait_for(queue.get())` runs `get()` in
a task of its own, so that the item has left the queue before the worker resumes,
and a cancellation that arrives in between is swallowed. (Later versions do not have
the gap; their behaviours are among those of the model.) `GiveBack` and `PutBack` are the put of a task that the
worker met after the shutdown, at once or after waiting for room.
`stop()` is `Stop`, `StopTimesOut` and `StopReturns`; `start()` may come while it
waits (`overlapped` remembers that it did).

A call ends in five ways: `CallReturns` (or it raises `OperationCancelledError`), `CallRaises` and
`CallTimesOut`, which `_execute_with_retry()` retries, and two that no `except Exception` sees, so that the
worker ends with its task (`LoseTask`): `WorkerInterrupted`, which meets the cancellation by `stop()`, and
`CallCancels`, a function that ends with `CancelledError` of its own, whether the queue is being stopped or not.
A task that is lost so, or while it is put back, is in `lost`: its status stays as it was; `broken` are
the workers that functions have cost. `Sync` are the tasks whose function is
synchronous and runs in a thread of the executor: a timeout and a cancellation end the await and leave the thread
(`LeavesThread`; `threads[t]` counts them) until its function returns (`ThreadEnds`).

Left out: a second `stop()` while the first waits (it returns at once when no `start()` came between),
functions that raise `KeyboardInterrupt` or `SystemExit`, which end the event loop, and the executor's own
limit of threads (a call that waits for one is being called as far as the queue can tell).

### OrmCache, OrmSession

`MemoryCache` and `CacheManager` keep everything under one re-entrant lock, so a method
is one step. The operations are functions from a cache (a record of the entries,
their order, which are expired, and the two indexes) to a cache, and `OrmSession`
applies the same functions that `OrmCache`'s actions do. `Removed` is the deletion of an
entry with the clean-up of its dependencies, `Stored` the assignment that keeps the place
of a key that is there, `Victims` what `_ensure_capacity()` evicts, `AfterPattern`
the invalidation by pattern, which rebuilds keys with their entity type alone
(`TypeKey`). Time is an action, `Expire`.

In `OrmSession` an element is one property with a value: `store` is what the host holds, `object` what the objects hold,
`tracker` and `states` the two tables of the change tracker. `save_changes()` is
`Save`, then `Commit` or `CommitFails` with a unit of work and `SkipCommit` without one (`unit`, chosen at the start),
`AcceptSaved`, `Invalidate`; a load is `GetById` and `Load`; every call of
other threads may come between. `KeysOf[e]` are the keys of the types that `e` may be asked for by, under which a
load stores it; `ExactKey[e]` is the one of the type of its object, which a save invalidates. `Attached` may find no
original value to record: the snapshot takes public attributes and property mappings, not what a property
keeps in a private one. `Unrestored` are the choices a reject has of what it does not restore: that, and what
a setter refuses. The setter of a user class and the tracking of its change are
one step, saves do not overlap, and an element's object is the one the provider answers.
`adrift` remembers the elements whose snapshot was never what the host held (accepted by
the caller himself or by a save without a unit of work, attached with a new value, added without a value, or changed while a save
ran, which `accept_changes()` accepts although nothing saved it), `unreverted` those that a reject left changed
and took for unchanged, `outrun` the keys of those that a save deleted
while a load had them in hand: the properties are about the others, and say so.
Auto-tracking is on and the cache policy is the memory cache, the defaults.

### AsyncLock, AsyncTransaction, ExtensionManager

`AsyncLock` is `asyncio.Lock` as the code uses it: `holder`, a line of tasks
`waiting`, and `stuck`, the tasks that asked for a lock they hold.

In `AsyncTransaction` each task is in at most one method (`method`); `Calls` asks for
the lock and `MethodRuns` is what the method does once it has it. `commit()` and `rollback()` test `is_active` and then await
the unit of work under the lock (`CommitStarts`, `RollbackStarts`; the method is then "commits" or "rolls_back");
the answer is a step of its own (`CommitOk`, `CommitFails`, `RollbackOk`, `RollbackFails`).
A task may be cancelled there (`AwaitCancelled`: the unit of work may have done its work or not, the lock is
released, the context stays active, and `cut` remembers it) and while it waits for the lock (`LockCancelled`).
`auto` is `auto_commit`. (A method that finds the lock free
does not pause there; the model lets others run, which adds behaviours and takes
none away.) `CommitFails` is the commit of the unit of work that raises: `commit()`
then calls `rollback()`, which waits for the lock of its own task. `timer` is the
timeout task of the context manager. Savepoints, which keep names and restore nothing, are left out.

In `ExtensionManager` `listed` and `order` are the tables (id and name of an extension
are one entry), `status[o]` belongs to an object, and every load makes a new object.
A step goes from one awaited hook to the next: `doing[t]` says in which method task `t`
is and which hook it awaits, and the `...HookEnds` actions let it return or raise.
`Activates`, `Disposes`, `UnloadDisposes`, `ShutdownDeactivates`, `ShutdownDisposes`
are the continuations. `LoadWaitsForItself` is the load of a missing dependency under
the lock. `overlapped` names objects whose activation ran beside the call that took
their extension out of the tables. Left out: callbacks (errors swallowed), discovery of
files, the container, a second visit of `values()` to an extension (each is in the table under its id and
its name) whose disposal failed or which was replaced under one of the two;
the loop over `values()` takes any order.

### LoadOrder

The recursion of `visit()` is its stack `path`, with `todo[n]` the dependencies that
the visit to `n` has not seen; a step is one turn of its loop. The graph is any
graph over any registered names. (The manager does not call it; users of the registry do.)

### CloudBatch, CloudClient, Cancellation

In `CloudBatch` `task[j]` is where the coroutine of job `j` is, `item[j]` the work item it
waits for in the cloud, `abandoned[j]` the items it gave up on, which run on. The tasks start
together (`Process`), read the cancel event once and then wait for a slot;
`TakeResult` is a turn of the loop over `as_completed`, whose progress callback may
raise.

In `CloudClient` `now` is a clock of ticks and `times` the deque. `SendAtOnce` and
`WaitForRoom` are what `_enforce_rate_limit()` decides in one go; `SendAfterSleep` is the
rest after its sleep, at its time or later. `RetryableStatus`, `TransportFails` and `BackoffOver` are the
retries. An answer takes at least a tick. Ticks can be as coarse as the code's clock
is: two readings of `time.monotonic()` may be exactly a second apart.

In `Cancellation` the two tasks, the token, the deadline and the caller are a variable each;
`WaitSees...` are what `asyncio.wait` may have found, both included.

### InterpreterPool

Each access to the semaphore, the queue and the dictionaries is a step, because
nothing makes two of them one; only the two inserts of `CreateInterpreterAsync()`
are together. `at[r]` is where the caller is, `has[r]` the interpreter in its hand,
`replacing` and `refills` the background tasks after an unhealthy return (`Replace` is its disposal and
its removal in one step; a `Dispose` that raises, which leaves it in the dictionary and on no queue, is left out). An
interpreter may be found unhealthy at any return, because the timers make any busy
at any time. `ResetPoolAsync()` is four steps, and the `InitializeAsync()` at its end does nothing,
because the pool is still marked initialized. `handed` are the interpreters that `RentAsync()`
created, `lent` says that nothing has upset the count of slots.

## Runs

Deadlock is not checked (`CHECK_DEADLOCK FALSE`): every bounded run ends in states
where all transactions are over, all events sent, or all calls made.

| run | bounds | shows |
|---|---|---|
| `transactions` | 3 transactions, 2 operations each; groups of up to 2 members, scopes of 3 attempts | transactions, groups, scopes, retries and cancellation |
| `group_atomic` | 2 transactions, 1 operation | **violation**: a failed group is not undone |
| `document_one_name` | 3 transactions, one name | **violation**: `is_in_transaction()` is wrong |
| `dispatcher` | queue: 2 threads, 3 events, deque of 2, batches of 2, joins time out, handlers stop; handlers: 2 handlers with 2 priorities, 2 threads, 3 calls, disabled at the first error | no event twice, none disappears, every handler called |
| `dispatcher_two_loops` | 2 threads, 2 events | **violation**: two processing threads |
| `task_queue` | 2 tasks, one with a token and a synchronous function, 1 retry, 1 worker, a queue of 1, 3 starts | everything about the task queue |
| `task_queue_threads` | 1 task, 1 retry, 1 worker | **violation**: a call that timed out runs beside its retry |
| `tables` | document: 3 transactions, distinct names; cache: 3 keys, 2 dependencies, 2 entries, LRU; pool: 2 callers, 2 interpreters, 3 ever created | the document provider implements `Transaction`; the ORM's cache; the interpreter pool |
| `session` | 2 elements, 2 values, a cache of 1; one element with 2 keys, or two elements without loads; with and without a unit of work | the ORM session |
| `pool_shared` | 3 callers, 3 interpreters, as in the pool's tests | **violation**: two callers get one interpreter |
| `services` | dispatcher: 1 thread, 5 events, joins wait; asynchronous transaction: 3 tasks, 3 calls; load order: all graphs over 3 names; manager: 2 tasks, 4 calls, 2 extensions of which one needs the other; batch: 2 jobs, 1 slot, 1 retry; client: 1 task, 2 requests a second, seconds of 4 ticks, 14 ticks, 2 attempts; cancellation: all sources | the dispatcher with one caller, and the parts that run on an event loop |
| `rate_shared` | client: 2 tasks, 9 ticks | **violation**: too many requests within a second |

Six further configurations, which are not among the regular runs, show by a violation what
the same modules say of other promises; each ends within seconds:

| configuration | of module | violation |
|---|---|---|
| `MCDispatcherStranded.cfg` | `EventDispatcher` | `QueuedIsProcessed`: after a join that timed out an event stays in the deque |
| `MCTaskQueueTokens.cfg` | `MCTaskQueue` | `StopCancelsTokens`: `stop()` cancels no token |
| `MCSessionKeys.cfg` | `MCSession` | `DeletedIsGone`: a deleted element is served under its other key |
| `MCSessionUnit.cfg` | `MCSession` | `SavedIsWritten`: a save writes nothing and accepts |
| `MCSessionReject.cfg` | `MCSession` | `RejectReverts`: a reject restores nothing and accepts |
| `MCAsyncLeaving.cfg` | `AsyncTransaction` | `LeavingEnds`: a body that left has not ended its transaction |

Why the bounds are enough. Two members are what a group needs for one to
fail after another has committed and for an operation to touch a member that is
already committed and one that is not yet; two operations, for one queued by
another. Three transactions in the document let a handle be freed and given
again while a third is open. Three attempts have a first, a middle and a last.
Two threads and three events make all pairs of races on the flags, a full deque
(2) and a batch that is left in the middle; five events with one caller add
several batches and restarts. Two handlers of different priority and three calls have a registration
in each list and one change while an event reads or calls; a handler registered twice and then removed needs no more. One worker with three starts has at most three
workers alive at once (start during a waiting stop, twice), which is where the limits
and the put-backs go wrong; two tasks and a queue of one fill it behind a
worker's back; one function is synchronous and one a coroutine. In the session, one subject makes every call on one element, which has
two keys that compete for one place in the cache; the other leaves the loads out and changes a second element
while it is not tracked, at any point of a save of the first, which is what goes over all elements meets.
Further keys are those that a pattern rebuilds from the types alone. Three keys in a cache of two make
an eviction meet each of the others, with dependencies shared and overwritten. Two callers and two interpreters, with a
third to replace one, have every pair of accesses between them. In the manager
the third call comes while one holds the lock and one waits for it, and the fourth is the
shutdown; in a batch of two with one slot one job waits while the other fails, hangs
or is retried. Two requests a second are a limit at which one send is old and one is not; fourteen ticks are
three seconds and a half, which hold two full windows and the longest backoff. The proofs cover what larger numbers could add to the safety
properties they name.

### The properties

*Transactions.* `OutcomeIsNative`: a transaction reports committed exactly when the host
committed it, whatever its operations did to it. `AllOperationsBeforeCommit`: the
host commits only after every queued operation has returned.
`HandlersMatchOutcome`: handlers are called once, for the right outcome.
`FinalStatus`: outcomes do not change, with one exception the code has: a commit
over a rollback that the host refused. `CommittedGroupIsWhole` and
`RollbackAllLeavesNoneStarted` for groups. (`CommitsStand`, that no call of a group
takes a commit back, is proved and in no run.)

*Scopes.* `ReturnedMeansCommitted`, `RetryCommitsOnce`, `ScopeEndsTransaction`,
`CancelledBodyNeverCommits`. A `BaseException` of an operation
leaves the transaction started when the scope has ended
(`interrupted` is not among the outcomes of `ScopeEndsTransaction`).

*Document.* `KeepsContract`, `InTransactionIsTrue`; `RolledBackForGood` is proved.

*Dispatcher.* `EachEventOnce` and `KeepsChannel` in every interleaving.
`AtMostOneLoop`, `StoppedIsQuiet`, `InOrder`, `QueuedIsProcessed` with one
caller and joins that wait (run `services`); `dispatcher_two_loops` and `MCDispatcherStranded.cfg` show which of them fail without
either assumption. `HandlersAreCalled`: an event calls the handlers that were registered
when it began, once for each registration and in order of priority, whatever they register and
unregister meanwhile - unless another thread's call overlaps with the reading of the lists, or with
another call before.

*Task queue.* `OnePlace`: a task is pending, or in the hand of one worker, or lost, or over, and
never two of these, so a coroutine function is never run twice at once; of a synchronous one, beside the call that is awaited, at most one thread
for each earlier attempt, and none while its task is queued. `OnlyCancellationLoses`: a task is lost to its own function's `CancelledError` or to a `stop()`.
`NoWorkerAfterStop` (threads may be left), `NotFoundIsTrue` (a `KeyError` of `wait_for_task` only for what is lost,
cleared or between queue and worker), `PendingIsFinished` (as long as functions have left a worker), `StopEnds`;
`RunningAtMostMax`, that `running_count` keeps the limit, is proved.
`NoWorkerAfterStop` and `RunningAtMostMax` exclude a `start()` that did not wait for
`stop()`: then old workers go on beside new ones. `StopEnds` excludes that too,
and the put-back that waits for room in a queue filled after the shutdown. That a
cancelled token stops the retries has no property: it is the test at each attempt's start, in the model as in the code.
`CallsAtMostMax` (never more calls of functions under way than the limit, run `task_queue_threads`) and `StopCancelsTokens` are what the
documents say and threads break.

*ORM.* `OriginalIsStored`: what `reject_changes()` would restore is what the host holds, and `UnsavedIsDirty`: an
object that differs from the host is among the changes - for the elements that are
not `adrift` (nor, the second, `unreverted`), over saves that fail half way and everything that other threads do
meanwhile. `DeletedIsNotServed`: under the key of the object's type the cache does not answer with what a save deleted,
unless a load was on its way. `DeletedIsGone` (under every key), `SavedIsWritten` (what a save accepts the host has) and `RejectReverts` are what the
documents say; three of the further configurations show them broken. `IndexesAgree`: the two dependency indexes are each other's inverse and name what is cached.
`InvalidationReachesAll` is proved and in no run.

*Interpreter pool.* `OnePlaceEach`: an interpreter is queued, with one caller or to
be replaced, unless `RentAsync()` created it. `SlotsCount`: the semaphore counts
the callers, until a rental fails in one of the ways that release twice or not at all.

*Event loop.* `RateIsKept`: no more requests than the limit within a second, for one task
with its retries and backoffs; `rate_shared` shows that two tasks break it. `OneOutcome`: what the unit of work answered to an asynchronous
transaction stands until the next one begins, whoever else calls while it is awaited, unless an await of it was cancelled, so that nobody has heard
the answer (a second one may then follow); `LeavingEnds`, that a body that left has ended its transaction, is broken by that. `LockServes`: who asks for a lock
(of a transaction or of the extension manager) gets it and gives it back, unless some task waits for
itself. `ActiveIsListed`: an active extension can be found. `OrderIsRight`: an order lists everything once and
dependencies first, and the error is raised only for circles. `BatchEnds`: a batch and all its tasks end, with all
results unless it was stopped early. `CallTellsTheEnd` and `CancelIsHeard`: `with_cancellation()`
reports what happened, leaves nothing running, and hears its token.

### Where code and documents disagree

* `group_atomic`: `commit_all()` does not undo (`revitpy/api/transaction.py:343`
  calls `rollback()`, which ignores committed transactions), and
  `docs/technical/security.md:242` says that it does.
* `document_one_name`: transactions with the same name can share a handle.
* `dispatcher_two_loops`: two dispatches start two processing threads.
* `MCDispatcherStranded.cfg`: after a join that timed out, the old thread's `finally`
  ends the new thread's loop.
* `pool_shared`: the interpreter that `RentAsync()` creates is also put on the queue
  (`PythonInterpreterPool.cs:396`), and the next caller gets it too;
  `tests/RevitPy.Tests/Runtime/PythonInterpreterPoolTests.cs:79` expects distinct ones.
* `task_queue_threads`: `wait_for()` gives up the await of a synchronous function, whose thread runs on beside the
  retry (`revitpy/async_support/task_queue.py:244`, `:279`); `docs/user/features/async.md:195` promises concurrency limits.
* `MCTaskQueueTokens.cfg`: "Cancel running tasks" at the end of `stop()` (`task_queue.py:533`) finds none, because the workers
  have ended by then.
* `MCSessionUnit.cfg`: without a unit of work `save_changes()` (`revitpy/orm/context.py:328`) writes nothing, accepts everything and
  returns the number of changes; `docs/user/features/orm.md:246` says that it persists them.
* `MCSessionReject.cfg`: `reject_changes()` (`revitpy/orm/change_tracker.py:207`) takes what it did not restore for unchanged;
  `docs/user/faq.md:126` says that it reverts to the last accepted state.
* `MCSessionKeys.cfg`: a save invalidates the key of the object's type (`context.py:530`), and an element asked for by a
  base or a protocol is cached under that name (`:236`), where it stays when it is deleted.
* `MCAsyncLeaving.cfg`: a task cancelled while it awaits the unit of work leaves the `async with` and its transaction active
  (`revitpy/orm/async_support.py:155`, `:169`); `revitpy/orm/README.md:254` says "Auto-commit on success, rollback on exception".
* `rate_shared`: `_enforce_rate_limit()` (`revitpy/cloud/client.py:171`, "max 20
  requests per second", and `docs/user/features/cloud.md:166`) does not look again after its sleep, so tasks
  that sleep to the same moment send together; and a send of exactly a second ago is counted (`>`, line 175) but
  not waited for (line 180), which is the shortest trace.

The models also show these, which have no run of their own:

* A handler that another thread registers while the list is being sorted is lost, and the
  `ValueError` of `list.sort()` is raised in the first; an event read meanwhile misses every handler of that list
  (`revitpy/events/dispatcher.py:153`, `:159`).
* A filter that raises ends its event for all the handlers after it (`dispatcher.py:286` is outside the `try`).
* `commit()` of `AsyncTransaction` waits for itself when the unit of work raises
  (`revitpy/orm/async_support.py:174`), and so does `load_extension()` of an extension
  whose dependency is not loaded (`revitpy/extensions/manager.py:376`): `LockServes`
  needs its exception `stuck`.
* An extension can be active and in no table when its activation ran beside an unload
  or a shutdown; a `shutdown()` whose loop sees a load add an entry raises and leaves the tables.
* `accept_changes()` at the end of `save_changes()` accepts what was changed
  meanwhile and never saved (`revitpy/orm/context.py:341`); a load that was on its way
  caches what the save has just deleted (`context.py:239`).
* A task function that ends with `CancelledError` ends its worker for good (`task_queue.py:591`); its task stays
  running for ever, is not found by `wait_for_task()`, and its completion callbacks are not called. As many as there are workers stop the queue
  while `is_running` is true.
* A batch that is cancelled still starts the jobs that wait for a slot
  (`revitpy/cloud/batch.py:54` says that no new jobs start), and a job that timed out
  leaves its work item running.
* `ResetPoolAsync()` leaves the pool empty (`PythonInterpreterPool.cs:307`: the
  initialization at its end is skipped); a rental that times out releases its slot twice
  (`:133`, `:155`), and a forced return gives none back.
* A caller of `with_cancellation()` that is cancelled in the wait leaves both tasks
  running; one that is cancelled later does not hear of it; the timer of a combined token is
  never disposed of. A timeout raises `OperationCancelledError`, not the
  `asyncio.TimeoutError` its docstring names (`revitpy/async_support/cancellation.py:178`).

Seen while reading, outside the models: `TransactionOptions.retry_count` and
`timeout_seconds` are read by nothing. `clear_completed(older_than)` clears
everything. The sets that `all()` caches are never
invalidated. `remove_listener()` of the event manager takes the callback from its own
table and leaves the handler registered (`revitpy/events/manager.py:462`).
`get_file_exchange_response` of the bridge looks for metadata that nothing sets.

## Fairness

Safety needs none. Liveness is checked under what the runtime gives:

* `EventDispatcher!FairSpec`: a thread inside a call, and each processing thread,
  goes on (weak fairness of each, the scheduler's); handlers return. No thread
  must dispatch, stop or clear.
* `TaskQueue!FairSpec`: the event loop runs each worker that is ready, the poll
  of `wait_for_task` and the end of `stop()`; coroutine functions return or raise, and so do synchronous ones
  unless a timeout gives up on them (a thread left behind may run for ever). A token
  need not be cancelled, a timeout need not happen, and nobody must start again:
  `PendingIsFinished` allows for a stop.
* `AsyncFairness`, `ManagerFairness`: the event loop runs the task that has the lock,
  the unit of work and the hooks return or raise. Nobody must make a call or be cancelled, and a timeout need not fire.
* `BatchFairness`: requests return or raise, and sleeps and timeouts pass; the cloud may leave an
  item running for ever, and nobody must cancel.
* `CancellationFairness`: the event loop runs what is ready, and an operation that is asked to
  stop ends. One that is not asked need not end.

## Proofs

All proofs are for every value of the constants that satisfies the assumptions
named in the modules: `N`, `MaxOps` and the like are naturals, sizes are
positive, a pool has finitely many callers, `"nobody"` is no task, `NoValue` no value, and no two elements share a cache key. Three
theorems have a hypothesis of their own, which a violation shows to be needed:

* `DistinctNames`, for the document: no two transactions have the same name (`document_one_name`);
* `OneCaller`, for `AtMostOneLoop`, `StoppedIsQuiet` and `InOrder` of the dispatcher: one
  thread dispatches and stops, and its joins wait until the thread has ended
  (`dispatcher_two_loops`, `MCDispatcherStranded.cfg`);
* `OneSender`, for the client: one task uses it (`rate_shared`).

The modules, each with its theorems and the argument:

* `TransactionProofs`, on `Transaction`: `TypeCorrect`, `OutcomeIsNativeHolds`,
  `AllOperationsBeforeCommitHolds`, `HandlersMatchOutcomeHolds`, `FinalStatusHolds`. The
  inductive invariant (`TxnInv`, of each transaction) adds to the properties what
  the last step of commit relies on: a commit at the provider has run every
  queued operation and one inside an operation has not, no commit runs before a
  start, and a started transaction is open in the host.
* On `TransactionGroup`: `GroupImplementsTransactions` (a group takes only steps that
  transactions take), `GroupTypeCorrect`, `CommittedGroupIsWholeHolds`, `CommitsStandHolds`,
  `RollbackAllLeavesNoneStartedHolds`. `Walks` ties the loop variable to the method that
  runs; `Progress` says what the loop has done with the members it has passed: all
  committed in `commit_all()`, none started in `rollback_all()`. Operations may use any
  member meanwhile, and what saves `Progress` is that outcomes are final, so the proof
  rests on `TxnInv` and `FinalStatus`.
* On `TransactionScope`: `ScopeImplementsTransactions`, `ScopeTypeCorrect`,
  `ReturnedMeansCommittedHolds`, `RetryCommitsOnceHolds`, `ScopeEndsTransactionHolds`,
  `CancelledBodyNeverCommitsHolds`. `Where` says which transaction may be in which
  status at each place of the scope, `Others` that later attempts are untouched and
  earlier ones neither started nor committed, `Ends` how an attempt can be over,
  `Token` what a cancelled token has done to the body's transaction.
* `DocumentTransactionProofs`: `KeepsContractHolds`, `InTransactionIsTrueHolds`,
  `RolledBackForGoodHolds`. The invariant says that the handles of started transactions are on the list once
  each and nothing else is, and that `depth` is the number of started
  transactions. It needs distinct names because a depth can come again. Initial states map to initial states and each action to the
  action of the same name or a stutter.
* `EventDispatcherProofs`: `TypeCorrect`, `EachEventOnceHolds`, `KeepsChannelHolds`. The
  invariant is `TypeOK` with `EachEventOnce`; no fact about the flags is needed, which
  is the point: whatever threads the races start, the lock decides who handles an
  event. `OtherStepKeeps` deals at once with all steps that touch neither the deque nor a
  batch; five lemmas deal with those that do.
  For one caller, `AtMostOneLoopHolds`, `StoppedIsQuietHolds` and `InOrderHolds`: `Serial` says that a living thread is
  the one `_processing_thread` names, marked by `_is_processing`, and that none lives while the caller
  makes a new one or takes the mark away; `InLine` that the deque and each batch are in order, and that
  what is handled was dispatched before what is in a batch, and that before what is in the deque. A thread that is alone
  keeps the latter; of two, one could hand on a later batch first.
* `TaskQueueProofs`: `TypeCorrect`, `OnePlaceHolds`, `NoWorkerAfterStopHolds`,
  `RunningAtMostMaxHolds`. `OnePlace` is not inductive. `Places` restates it
  worker by worker, and `Hands` ties what a worker holds to the await at which it stands: a worker
  executes a running task, gives back a pending one, holds none when it
  waits or has ended; and the numbers above those `start()` has given out are
  unused. `FreshNumbers` is the arithmetic of the latter.
  The other two rest on a further invariant, `OneGeneration`: while no `start()` has
  overlapped a `stop()`, the live workers are among those `_worker_tasks` names, all of one
  `start()`. `WorkersOnlyEnd` says that no step of a worker brings one to life, so only
  `start()` and `stop()` matter to it; `GenerationSize` counts the workers of one `start()`.
  What `OnePlace` says of threads needs that no thread is left of a task that was not called yet, and one at most for
  each attempt that is over (`Left`).
  Two are about steps: `OnlyCancellationLosesHolds` (a worker that meets a cancellation is one that a `stop()` has gathered and not yet left,
  and until that times out no such worker is putting a task back: `Interrupts`) and `NotFoundIsTrueHolds` (who is
  awaited has been enqueued, `AwaitedIsKnown`).
* `OrmProofs`, on `OrmCache`: `CacheIsSound`, `IndexesAgreeHolds`, `InvalidationReachesAllHolds`.
  `Sound(c)` is the types of a cache with `IndexesAgree` of it; two lemmas, `SoundRemoved` and
  `SoundStored`, show that the two operators every method is made of keep it.
* On `OrmSession`: `OriginalIsStoredHolds`, `UnsavedIsDirtyHolds`, `DeletedIsNotServedHolds`,
  `SessionIndexesAgree`. The invariant is one of each element: what a tracker's state, original value and recorded changes make of its object
  (`Fits`), what a save that the host has committed has left to accept (`Saved`), that a settled
  element's original is the host's value (`Agrees`), and that what is loaded, under any key, or
  served under the exact one exists (`Serves`). `Saved` is what the steps of `save_changes()` after the commit rest on.
* `CountingProofs`, on `InterpreterPool`: `PoolTypeCorrect`, `OnePlaceEachHolds`, `SlotsCountHolds`. Both count, so
  lemmas say first what a step of one caller, or of the queue, does to a count. `OnePlaceEach` needs in addition that an
  interpreter which was not created yet is nowhere (`Numbers`), `SlotsCount` that a rental that was
  forced back has upset the count already (`Slots`).
* On `EventHandlers`: `HandlersAreCalledHolds`. While no calls have overlapped, a handler is in the lists as often as it
  is registered, and in the middle of a call as often as what the call has done so far makes it (`ListsCount`); what is read for an event
  is thus what it owes (`Reading`); and what it has gone to and what it has yet to go to add up to that, in order of priority (`Goes`).
  `Sorted` says that `list.sort()` keeps every item and puts high priority first: no two positions have the same rank (`RankOrders`), so
  each finds a place (`RankIsOne`); `WithoutOne` that `list.remove()` takes one away.
* `AsyncProofs`: `OneOutcomeHolds` of `AsyncTransaction`: a task that awaits the unit of work has the lock and an active context
  (`AwaitsWithLock`), so that no other ends it meanwhile; and an active context is one that nothing has answered for, or whose await was cut
  (`OpenWhileActive`), so that whoever comes late finds none. `CallTellsTheEndHolds` of `Cancellation`: a monitor that raised was asked by a cancelled
  token or a passed deadline, and an operation or a monitor is asked to stop only when the wait is over (`MonitorAsked`,
  `OperationAsked`, `NobodyAsked`). `RateIsKeptHolds` of `CloudClient`, for any limit and any window: `RateInv` says that the deque has at most one
  entry more than the limit, that no entry is later than the clock, and that a sender that sleeps does so until the oldest entry
  it counted is a window old.
* `ExtensionProofs`, on `LoadOrder`: `OrderIsRightHolds`. `OrderInv` describes the search: the path is a chain of
  dependencies without repetition (`PathIsChain`), what it has passed is resolved or still to do
  (`NothingForgotten`), and what is resolved has its dependencies before it (`DependenciesFirst`). That a circle is reported only when there is one
  takes the chain from the repeated name to the end of the path as the circle.
* On `ExtensionManager`: `ActiveIsListedHolds`. `ActiveIsListed` is far from inductive. An object belongs to one extension (`Owners`); a call that
  loads or unloads has the lock (`CallsFit`); one shutdown runs (`OneShutdown`); what is being activated is in the
  tables (`ActivatesListed`); and what is to be taken out is not active any more: what a load replaces (`LoadReplacesQuiet`), what the loop of
  a shutdown has passed (`SeenIsQuiet`), what an unload has disposed of (`UnloadsListed`, `DisposedIsExcused`).
  `Excused` says that an activation beside a call that takes out is in `overlapped`, which is how the proof deals with
  the other tasks. `StepKeeps` states once what a step may do to the calls, to the tables and to the shutdown; each action is then shown to do no more.

In each module TLC had checked the inductive invariant on a small instance before it was proved.

Only model-checked:

* all liveness (`QueuedIsProcessed`, `PendingIsFinished`, `StopEnds`, `LockServes`, `BatchEnds`,
  `CancelIsHeard`): the prover cannot reason about fairness, and the batch has no other property;
* the types of the cache's order in a session: it is a sequence made by `SelectSeq`, a recursion over data of which the library
  proves nothing without an operator as a parameter.

## Plan

What would come next, in this order: a safety property of the batch; the event manager's
`add_listener()` and `remove_listener()` over `EventHandlers`; two overlapping `save_changes()`; the life cycle of the host's `PluginManager`.

## Not modelled

Two threads inside one `Transaction`: it is used on the host's main thread, and
nothing in the repository shares one. The absence of an event loop, in which
`get_event_loop()` raises. Calls of a group's own methods from its members'
operations. Asynchronous dispatch of events, global filters, and the event manager's own tables, beside those of the
dispatcher. Tokens of the cloud client, its webhooks and the templates for CI: one request at a time, or text.
Completion callbacks and progress of tasks, called in order with their errors
swallowed. The C# transaction manager of the bridge: `TransactionManager.cs:176`
and `:202` take an `ITransactionScope`, which is only `IAsyncDisposable`, in a `using`
statement, so that as written it does not compile and has no behaviour to model.
The AI safety guard and its undo stack, which one request at a time uses: small
and sequential. Queries, element sets, relationships, file formats, conversions and sums:
functions of their data, which unit tests reach. Batches of ORM
operations and the asynchronous query helpers, which call the parts above in turn. The host process, the
bridges between processes, the development server, command line, package manager
and installer: I/O and supervision around the library, or separate products.
