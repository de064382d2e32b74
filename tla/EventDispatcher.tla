--------------------------- MODULE EventDispatcher --------------------------
(***************************************************************************)
(* The queued side of EventDispatcher, src/revitpy/events/dispatcher.py:   *)
(* the event deque, the flags _is_processing and _shutdown_event, the      *)
(* processing thread, and the threads that dispatch, stop and clear.       *)
(*                                                                         *)
(* _queue_lock makes each access to the deque one step.  Nothing guards    *)
(* the flags, so every read and every write of them is a step of its own:  *)
(* call[c] is where the call of thread c stands, loop[l] where the l-th    *)
(* processing thread stands in _process_events_loop.                       *)
(*                                                                         *)
(* An event is its number in the order of the deque; sent counts them.     *)
(* Handlers run inside Deliver.  A handler that dispatches or stops is one *)
(* more caller whose call happens while the loop stands still, except for  *)
(* the stop that would join its own thread: StopInHandler.                 *)
(* dispatch_event(immediate=True) and an event that a global filter        *)
(* refuses touch nothing of this state.                                    *)
(***************************************************************************)
EXTENDS Integers, Sequences

CONSTANTS
    Caller,        \* threads that use the dispatcher
    Stopper,       \* those of them that may call stop_processing()
    MaxQueueSize,  \* max_queue_size
    BatchSize,     \* batch_size
    MaxEvents,     \* bound on the events dispatched
    JoinTimeouts,  \* whether the join of stop_processing() may time out
    HandlerStops   \* whether a handler may call stop_processing()

ASSUME SizesAssumption ==
    /\ MaxQueueSize \in Nat \ {0}
    /\ BatchSize \in Nat \ {0}
    /\ MaxEvents \in Nat
ASSUME CallersAssumption == Stopper \subseteq Caller
ASSUME FlagsAssumption == JoinTimeouts \in BOOLEAN /\ HandlerStops \in BOOLEAN

Event == 1 .. MaxEvents
Loop == 1 .. MaxEvents    \* a dispatch creates at most one thread

CallState ==
    {"idle", "check", "recheck", "mark", "clear", "create", "start",
     "signal", "alive", "join", "unmark"}
LoopState == {"unborn", "test", "take", "deliver", "finally", "ended"}

VARIABLES
    queue,       \* _event_queue
    sent,        \* events dispatched so far
    processing,  \* _is_processing
    shutdown,    \* _shutdown_event.is_set()
    thread,      \* _processing_thread; 0 is None
    created,     \* Thread objects made so far
    loop,        \* loop[l]: where thread l stands
    batch,       \* batch[l]: what thread l took and has not handled
    call,        \* call[c]: where the call of c stands
    joined,      \* joined[c]: the thread c waits for
    lastStop,    \* the newest event at the latest call of stop_processing()
    delivered,   \* events given to the handlers
    lost         \* events dropped, cleared or discarded

vars == <<queue, sent, processing, shutdown, thread, created, loop, batch,
          call, joined, lastStop, delivered, lost>>
flags == <<processing, shutdown, thread, created>>
events == <<queue, sent, batch, delivered, lost>>

Elems(s) == {s[i] : i \in 1 .. Len(s)}

Init ==
    /\ queue = <<>>
    /\ sent = 0
    /\ processing = FALSE
    /\ shutdown = FALSE
    /\ thread = 0
    /\ created = 0
    /\ loop = [l \in Loop |-> "unborn"]
    /\ batch = [l \in Loop |-> <<>>]
    /\ call = [c \in Caller |-> "idle"]
    /\ joined = [c \in Caller |-> 0]
    /\ lastStop = 0
    /\ delivered = {}
    /\ lost = {}

-----------------------------------------------------------------------------
(* dispatch_event(): _queue_event() drops the oldest event of a full deque *)
(* under the lock, and looks at _is_processing after releasing it.         *)

(* Mutant: a full deque refuses the new event by putting it in front.      *)
EnqueueInFront(c) ==
    /\ call[c] = "idle"
    /\ sent < MaxEvents
    /\ sent' = sent + 1
    /\ \/ /\ Len(queue) < MaxQueueSize
          /\ queue' = <<sent'>> \o queue
          /\ UNCHANGED lost
       \/ /\ Len(queue) >= MaxQueueSize
          /\ queue' = <<sent'>> \o Tail(queue)
          /\ lost' = lost \cup {Head(queue)}
    /\ call' = [call EXCEPT ![c] = "check"]
    /\ UNCHANGED <<flags, loop, batch, joined, lastStop, delivered>>

Enqueue(c) ==
    /\ call[c] = "idle"
    /\ sent < MaxEvents
    /\ sent' = sent + 1
    /\ \/ /\ Len(queue) < MaxQueueSize
          /\ queue' = Append(queue, sent')
          /\ UNCHANGED lost
       \/ /\ Len(queue) >= MaxQueueSize
          /\ queue' = Append(Tail(queue), sent')
          /\ lost' = lost \cup {Head(queue)}
    /\ call' = [call EXCEPT ![c] = "check"]
    /\ UNCHANGED <<flags, loop, batch, joined, lastStop, delivered>>

GoTo(c, from, to) == call[c] = from /\ call' = [call EXCEPT ![c] = to]

(* Mutant: a dispatcher that was stopped stays stopped.                    *)
CheckIfNeverStarted(c) ==
    /\ IF processing \/ thread # 0 THEN GoTo(c, "check", "idle")
                                   ELSE GoTo(c, "check", "recheck")
    /\ UNCHANGED <<events, flags, loop, joined, lastStop>>

(* The tests of _is_processing, in _queue_event() and _start_processing(). *)
Check(c) ==
    /\ IF processing THEN GoTo(c, "check", "idle")
                     ELSE GoTo(c, "check", "recheck")
    /\ UNCHANGED <<events, flags, loop, joined, lastStop>>

Recheck(c) ==
    /\ IF processing THEN GoTo(c, "recheck", "idle")
                     ELSE GoTo(c, "recheck", "mark")
    /\ UNCHANGED <<events, flags, loop, joined, lastStop>>

Mark(c) ==
    /\ GoTo(c, "mark", "clear")
    /\ processing' = TRUE
    /\ UNCHANGED <<events, shutdown, thread, created, loop, joined, lastStop>>

ClearShutdown(c) ==
    /\ GoTo(c, "clear", "create")
    /\ shutdown' = FALSE
    /\ UNCHANGED <<events, processing, thread, created, loop, joined, lastStop>>

CreateThread(c) ==
    /\ GoTo(c, "create", "start")
    /\ created' = created + 1
    /\ thread' = created'
    /\ UNCHANGED <<events, processing, shutdown, loop, joined, lastStop>>

(* _processing_thread.start() reads the attribute again: another caller    *)
(* may have put its own Thread there, and to start one twice raises.       *)
StartThread(c) ==
    /\ GoTo(c, "start", "idle")
    /\ loop' = IF loop[thread] = "unborn" THEN [loop EXCEPT ![thread] = "test"]
                                          ELSE loop
    /\ UNCHANGED <<events, flags, joined, lastStop>>

-----------------------------------------------------------------------------
(* stop_processing()                                                       *)
StopCall(c) ==
    /\ processing
    /\ GoTo(c, "idle", "signal")
    /\ lastStop' = sent
    /\ UNCHANGED <<events, flags, loop, joined>>

Signal(c) ==
    /\ GoTo(c, "signal", "alive")
    /\ shutdown' = TRUE
    /\ UNCHANGED <<events, processing, thread, created, loop, joined, lastStop>>

IsAlive(l) == l # 0 /\ loop[l] \notin {"unborn", "ended"}

(* Mutant: the thread is told to stop and not waited for.                  *)
AliveUnasked(c) ==
    /\ GoTo(c, "alive", "unmark")
    /\ UNCHANGED <<events, flags, loop, joined, lastStop>>

Alive(c) ==
    /\ IF IsAlive(thread)
       THEN /\ GoTo(c, "alive", "join")
            /\ joined' = [joined EXCEPT ![c] = thread]
       ELSE GoTo(c, "alive", "unmark") /\ UNCHANGED joined
    /\ UNCHANGED <<events, flags, loop, lastStop>>

(* join(timeout) returns when the thread has ended or the time is over;    *)
(* which of the two is only logged.                                        *)
Join(c) ==
    /\ GoTo(c, "join", "unmark")
    /\ ~IsAlive(joined[c]) \/ JoinTimeouts
    /\ joined' = [joined EXCEPT ![c] = 0]
    /\ UNCHANGED <<events, flags, loop, lastStop>>

Unmark(c) ==
    /\ GoTo(c, "unmark", "idle")
    /\ processing' = FALSE
    /\ UNCHANGED <<events, shutdown, thread, created, loop, joined, lastStop>>

(* Called by a handler of the current processing thread, join() raises     *)
(* (a thread cannot join itself) and the handler's wrapper logs it.        *)
StopInHandler(l) ==
    /\ HandlerStops
    /\ loop[l] = "deliver"
    /\ thread = l
    /\ processing
    /\ shutdown' = TRUE
    /\ lastStop' = sent
    /\ UNCHANGED <<events, processing, thread, created, loop, call, joined>>

(* clear_queue()                                                           *)
ClearQueue(c) ==
    /\ call[c] = "idle"
    /\ queue # <<>>
    /\ lost' = lost \cup Elems(queue)
    /\ queue' = <<>>
    /\ UNCHANGED <<sent, batch, delivered, flags, loop, call, joined, lastStop>>

-----------------------------------------------------------------------------
(* _process_events_loop() of thread l                                      *)
LoopTo(l, from, to) == loop[l] = from /\ loop' = [loop EXCEPT ![l] = to]

Test(l) ==
    /\ IF processing /\ ~shutdown THEN LoopTo(l, "test", "take")
                                  ELSE LoopTo(l, "test", "finally")
    /\ UNCHANGED <<events, flags, call, joined, lastStop>>

BatchOf(n) == IF n < BatchSize THEN n ELSE BatchSize

(* Mutant: the batch is copied, and the deque keeps its events.            *)
TakeCopies(l) ==
    LET n == BatchOf(Len(queue)) IN
    /\ batch' = [batch EXCEPT ![l] = SubSeq(queue, 1, n)]
    /\ IF n = 0 THEN LoopTo(l, "take", "test") ELSE LoopTo(l, "take", "deliver")
    /\ UNCHANGED <<queue, sent, delivered, lost, flags, call, joined, lastStop>>

(* The batch, under the lock.  An empty one is a sleep.                    *)
Take(l) ==
    LET n == BatchOf(Len(queue)) IN
    /\ batch' = [batch EXCEPT ![l] = SubSeq(queue, 1, n)]
    /\ queue' = SubSeq(queue, n + 1, Len(queue))
    /\ IF n = 0 THEN LoopTo(l, "take", "test") ELSE LoopTo(l, "take", "deliver")
    /\ UNCHANGED <<sent, delivered, lost, flags, call, joined, lastStop>>

(* Mutant: the loop goes on to its next batch with the event still in hand.*)
DeliverAgain(l) ==
    /\ LoopTo(l, "deliver", "test")
    /\ ~shutdown
    /\ delivered' = delivered \cup {Head(batch[l])}
    /\ UNCHANGED <<queue, sent, batch, lost, flags, call, joined, lastStop>>

(* _process_event_immediate() gives the event to its handlers; what they   *)
(* raise is logged.                                                        *)
Deliver(l) ==
    /\ LoopTo(l, "deliver", IF Len(batch[l]) = 1 THEN "test" ELSE "deliver")
    /\ ~shutdown
    /\ delivered' = delivered \cup {Head(batch[l])}
    /\ batch' = [batch EXCEPT ![l] = Tail(@)]
    /\ UNCHANGED <<queue, sent, lost, flags, call, joined, lastStop>>

(* The break of a shutdown: the rest of the batch goes with it.            *)
Break(l) ==
    /\ LoopTo(l, "deliver", "test")
    /\ shutdown
    /\ lost' = lost \cup Elems(batch[l])
    /\ batch' = [batch EXCEPT ![l] = <<>>]
    /\ UNCHANGED <<queue, sent, delivered, flags, call, joined, lastStop>>

Finally(l) ==
    /\ LoopTo(l, "finally", "ended")
    /\ processing' = FALSE
    /\ UNCHANGED <<events, shutdown, thread, created, call, joined, lastStop>>

-----------------------------------------------------------------------------
Dispatch(c) == Check(c) \/ Recheck(c) \/ Mark(c) \/ ClearShutdown(c)
                   \/ CreateThread(c) \/ StartThread(c)
Stop(c) == Signal(c) \/ Alive(c) \/ Join(c) \/ Unmark(c)
LoopStep(l) == Test(l) \/ Take(l) \/ Deliver(l) \/ Break(l) \/ Finally(l)

Next ==
    \/ \E c \in Caller : Enqueue(c) \/ Dispatch(c) \/ ClearQueue(c)
    \/ \E c \in Stopper : StopCall(c) \/ Stop(c)
    \/ \E l \in Loop : LoopStep(l) \/ StopInHandler(l)

Spec == Init /\ [][Next]_vars

(* A thread that is in a call or in the loop goes on; nobody is forced to  *)
(* begin a call, and handlers return.                                      *)
Fairness ==
    /\ \A c \in Caller : WF_vars(Dispatch(c))
    /\ \A c \in Stopper : WF_vars(Stop(c))
    /\ \A l \in Loop : WF_vars(LoopStep(l))

FairSpec == Spec /\ Fairness

-----------------------------------------------------------------------------
(* The type invariant: the deque never exceeds max_queue_size, and only a  *)
(* loop inside its for statement holds events.                             *)
TypeOK ==
    /\ sent \in 0 .. MaxEvents
    /\ queue \in Seq(1 .. sent) /\ Len(queue) <= MaxQueueSize
    /\ processing \in BOOLEAN /\ shutdown \in BOOLEAN
    /\ created \in Nat /\ thread \in 0 .. created
    /\ loop \in [Loop -> LoopState]
    /\ batch \in [Loop -> Seq(1 .. sent)]
    /\ \A l \in Loop : Len(batch[l]) <= BatchSize
                       /\ (batch[l] # <<>> <=> loop[l] = "deliver")
    /\ call \in [Caller -> CallState]
    /\ joined \in [Caller -> 0 .. created]
    /\ lastStop \in 0 .. sent
    /\ delivered \subseteq 1 .. sent
    /\ lost \subseteq 1 .. sent

(* Every dispatched event is in exactly one place, and there once: the     *)
(* deque, the batch of one thread, with the handlers, or lost.  Whatever   *)
(* the threads do to the flags, popleft() under _queue_lock decides who    *)
(* handles an event (_queue_event, _process_events_loop, clear_queue).     *)
Once(s) == \A i, j \in 1 .. Len(s) : s[i] = s[j] => i = j
InBatches == UNION {Elems(batch[l]) : l \in Loop}

EachEventOnce ==
    /\ Once(queue)
    /\ \A l \in Loop : Once(batch[l])
    /\ \A l, k \in Loop : l # k => Elems(batch[l]) \cap Elems(batch[k]) = {}
    /\ Elems(queue) \cap InBatches = {}
    /\ delivered \cap lost = {}
    /\ (Elems(queue) \cup InBatches) \cap (delivered \cup lost) = {}
    /\ Elems(queue) \cup InBatches \cup delivered \cup lost = 1 .. sent

(* With one caller no thread starts beside another: _is_processing and the *)
(* join of stop_processing() keep them apart.                              *)
Alone(l) == \A k \in Loop \ {l} : ~IsAlive(k)
AtMostOneLoop == \A l \in Loop : IsAlive(l) => Alone(l)

(* ... and is_processing tells the truth whenever no call is running: no   *)
(* thread lives behind a False, so a handler never runs after              *)
(* stop_processing() has returned.                                         *)
StoppedIsQuiet ==
    (~processing /\ \A c \in Caller : call[c] = "idle")
        => \A l \in Loop : ~IsAlive(l)

(* Events reach the handlers in the order they were dispatched, whatever   *)
(* the batches, the overflows and the restarts between them.               *)
InOrder ==
    [][\A e \in delivered' \ delivered : \A d \in delivered : d < e]_vars

(* An event dispatched after the latest stop_processing() leaves the deque *)
(* ("Queue an event for processing.", _queue_event).                       *)
QueuedIsProcessed ==
    \A e \in Event :
        (e \in Elems(queue) /\ e > lastStop)
            ~> (e \notin Elems(queue) \/ e <= lastStop)

(* The deque and the batches implement the channel of EventChannel.        *)
Channel == INSTANCE EventChannel
    WITH waiting <- Elems(queue) \cup InBatches, handled <- delivered
KeepsChannel == Channel!Spec
=============================================================================
