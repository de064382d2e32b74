------------------------ MODULE EventDispatcherProofs ------------------------
(***************************************************************************)
(* Proofs about EventDispatcher, for any number of callers, events and     *)
(* threads, any queue and batch size, with and without join timeouts:      *)
(* every event is in one place (EachEventOnce), and the dispatcher         *)
(* implements EventChannel (KeepsChannel).  The races on _is_processing do *)
(* not matter to either: the argument is only about the deque and the      *)
(* batches, and the steps that touch neither are dealt with together       *)
(* (OtherStep).                                                            *)
(*                                                                         *)
(* And for one caller whose joins wait (OneCaller): one thread lives at a  *)
(* time, none after a stop_processing(), and events are handled in order   *)
(* (AtMostOneLoop, StoppedIsQuiet, InOrder).  There the flags do matter:   *)
(* Serial says which of them a living thread goes with, and InLine that    *)
(* what is handled came before what is in the batch, and that before what  *)
(* is on the deque.                                                        *)
(***************************************************************************)
EXTENDS EventDispatcher, TLAPS

(* What Append, Tail and SubSeq do to the elements of a sequence.          *)
LEMMA ElemsAppend ==
    ASSUME NEW S, NEW s \in Seq(S), NEW e \in S
    PROVE  /\ Elems(Append(s, e)) = Elems(s) \cup {e}
           /\ Once(s) /\ e \notin Elems(s) => Once(Append(s, e))
  <1>1. Append(s, e) \in Seq(S) /\ Len(Append(s, e)) = Len(s) + 1
    OBVIOUS
  <1>2. \A i \in 1 .. Len(s) : Append(s, e)[i] = s[i]
    OBVIOUS
  <1>3. Append(s, e)[Len(s) + 1] = e
    OBVIOUS
  <1>4. Elems(Append(s, e)) \subseteq Elems(s) \cup {e}
    BY <1>1, <1>2, <1>3 DEF Elems
  <1>5. Elems(s) \cup {e} \subseteq Elems(Append(s, e))
    BY <1>1, <1>2, <1>3 DEF Elems
  <1>6. ASSUME Once(s), e \notin Elems(s) PROVE Once(Append(s, e))
    BY <1>1, <1>2, <1>3, <1>6 DEF Elems, Once
  <1>7. QED
    BY <1>4, <1>5, <1>6

LEMMA ElemsTail ==
    ASSUME NEW S, NEW s \in Seq(S), s # <<>>, Once(s)
    PROVE  /\ Tail(s) \in Seq(S)
           /\ Head(s) \in Elems(s)
           /\ Len(Tail(s)) = Len(s) - 1
           /\ Elems(Tail(s)) = Elems(s) \ {Head(s)}
           /\ Once(Tail(s))
  <1>1. Len(s) \in Nat \ {0} /\ Tail(s) \in Seq(S) /\ Len(Tail(s)) = Len(s) - 1
    OBVIOUS
  <1>2. \A i \in 1 .. Len(s) - 1 : Tail(s)[i] = s[i + 1]
    OBVIOUS
  <1>3. Head(s) = s[1]
    OBVIOUS
  <1>4. Elems(Tail(s)) \subseteq Elems(s) \ {Head(s)}
    BY <1>1, <1>2, <1>3 DEF Elems, Once
  <1>5. ASSUME NEW e \in Elems(s), e # Head(s) PROVE e \in Elems(Tail(s))
    <2>1. PICK i \in 1 .. Len(s) : e = s[i]
      BY DEF Elems
    <2>2. i - 1 \in 1 .. Len(s) - 1 /\ Tail(s)[i - 1] = e
      BY <1>1, <1>2, <1>3, <1>5, <2>1
    <2>3. QED
      BY <1>1, <2>2 DEF Elems
  <1>6. Once(Tail(s))
    BY <1>1, <1>2 DEF Once
  <1>7. Head(s) \in Elems(s)
    <2>1. 1 \in 1 .. Len(s)
      BY <1>1
    <2>2. QED
      BY <1>3, <2>1 DEF Elems
  <1>8. QED
    BY <1>1, <1>4, <1>5, <1>6, <1>7

(* a is the first n elements of s, and b the others.                       *)
Split(s, a, b, S, n) ==
    /\ a \in Seq(S) /\ Len(a) = n
    /\ b \in Seq(S) /\ Len(b) = Len(s) - n
    /\ Elems(a) \cup Elems(b) = Elems(s)
    /\ Elems(a) \cap Elems(b) = {}
    /\ Once(a) /\ Once(b)

LEMMA ElemsSplit ==
    ASSUME NEW S, NEW s \in Seq(S), NEW n \in 0 .. Len(s), Once(s)
    PROVE  Split(s, SubSeq(s, 1, n), SubSeq(s, n + 1, Len(s)), S, n)
  <1> DEFINE a == SubSeq(s, 1, n)
             b == SubSeq(s, n + 1, Len(s))
  <1>1. a \in Seq(S) /\ Len(a) = n /\ \A i \in 1 .. n : a[i] = s[i]
    OBVIOUS
  <1>2. /\ b \in Seq(S) /\ Len(b) = Len(s) - n
        /\ \A i \in 1 .. Len(s) - n : b[i] = s[n + i]
    OBVIOUS
  <1> HIDE DEF a, b
  <1>8. /\ Len(s) \in Nat /\ n \in 0 .. Len(s)
        /\ \A i \in 1 .. n : i \in 1 .. Len(s)
        /\ \A i \in 1 .. Len(s) - n : n + i \in 1 .. Len(s)
    OBVIOUS
  <1>3. Elems(a) \cup Elems(b) \subseteq Elems(s)
    <2>1. Elems(a) \subseteq Elems(s)
      BY <1>1, <1>8 DEF Elems
    <2>2. Elems(b) \subseteq Elems(s)
      BY <1>2, <1>8 DEF Elems
    <2>3. QED
      BY <2>1, <2>2
  <1>4. ASSUME NEW e \in Elems(s) PROVE e \in Elems(a) \cup Elems(b)
    <2>1. PICK i \in 1 .. Len(s) : e = s[i]
      BY DEF Elems
    <2>2. CASE i <= n
      BY <1>1, <2>1, <2>2 DEF Elems
    <2>3. CASE i > n
      <3>1. i - n \in 1 .. Len(s) - n /\ b[i - n] = e
        BY <1>2, <2>1, <2>3
      <3>2. QED
        BY <1>2, <3>1 DEF Elems
    <2>4. QED
      BY <2>1, <2>2, <2>3
  <1>5. Elems(a) \cap Elems(b) = {}
    BY <1>1, <1>2 DEF Elems, Once
  <1>6. Once(a) /\ Once(b)
    <2>1. Once(a)
      BY <1>1, <1>8 DEF Once
    <2>2. Once(b)
      BY <1>2, <1>8 DEF Once
    <2>3. QED
      BY <2>1, <2>2
  <1>7. QED
    BY <1>1, <1>2, <1>3, <1>4, <1>5, <1>6 DEF Split, a, b

LEMMA ElemsInside ==
    ASSUME NEW S, NEW s \in Seq(S) PROVE Elems(s) \subseteq S
  BY DEF Elems

LEMMA ElemsEmpty == Elems(<<>>) = {} /\ Once(<<>>)
  BY DEF Elems, Once

-----------------------------------------------------------------------------
(* The inductive invariant: the types, and every event in one place.       *)
IInv == TypeOK /\ EachEventOnce

(* What IInv says of the events; the rest of it is only types.             *)
EventsOK ==
    /\ sent \in 0 .. MaxEvents
    /\ queue \in Seq(1 .. sent)
    /\ Len(queue) <= MaxQueueSize
    /\ loop \in [Loop -> LoopState]
    /\ batch \in [Loop -> Seq(1 .. sent)]
    /\ \A l \in Loop : Len(batch[l]) <= BatchSize
    /\ \A l \in Loop : batch[l] # <<>> <=> loop[l] = "deliver"
    /\ delivered \subseteq 1 .. sent
    /\ lost \subseteq 1 .. sent
    /\ EachEventOnce

FlagsOK ==
    /\ processing \in BOOLEAN
    /\ shutdown \in BOOLEAN
    /\ created \in Nat
    /\ thread \in 0 .. created
    /\ call \in [Caller -> CallState]
    /\ joined \in [Caller -> 0 .. created]
    /\ lastStop \in 0 .. sent

LEMMA Parts == IInv <=> EventsOK /\ FlagsOK
  BY DEF IInv, TypeOK, EventsOK, FlagsOK

LEMMA InitIInv == Init => IInv
  <1> SUFFICES ASSUME Init PROVE IInv
    OBVIOUS
  <1>1. 1 .. sent = {} /\ <<>> \in Seq(1 .. sent)
    BY DEF Init
  <1>2. FlagsOK
    <2>1. processing \in BOOLEAN /\ shutdown \in BOOLEAN
      BY DEF Init
    <2>2. created \in Nat /\ thread \in 0 .. created /\ lastStop \in 0 .. sent
      BY DEF Init
    <2>3. call \in [Caller -> CallState]
      BY DEF Init, CallState
    <2>4. joined \in [Caller -> 0 .. created]
      BY <2>2 DEF Init
    <2>5. QED
      BY <2>1, <2>2, <2>3, <2>4 DEF FlagsOK
  <1>3. InBatches = {}
    BY ElemsEmpty DEF Init, InBatches
  <1>4. EachEventOnce
    BY <1>1, <1>3, ElemsEmpty DEF Init, EachEventOnce
  <1>5. EventsOK
    BY <1>1, <1>4, SizesAssumption DEF Init, EventsOK, LoopState
  <1>6. QED
    BY <1>2, <1>5, Parts

-----------------------------------------------------------------------------
(* The steps that move events, named with what they do to the batches.     *)
SameBatches == \A l \in Loop : batch'[l] = batch[l]

LEMMA SameBatchesSame ==
    ASSUME SameBatches PROVE InBatches' = InBatches
  BY DEF SameBatches, InBatches

InBatchesBut(l) == UNION {Elems(batch[k]) : k \in Loop \ {l}}

LEMMA OneBatch ==
    ASSUME NEW l \in Loop, \A k \in Loop \ {l} : batch'[k] = batch[k]
    PROVE  InBatches' =
              InBatchesBut(l) \cup Elems(batch'[l])
  BY DEF InBatches, InBatchesBut

(* The steps of the calls and of the loops that leave every event alone.   *)
OtherStep ==
    /\ UNCHANGED events
    /\ loop' \in [Loop -> LoopState]
    /\ \A l \in Loop : loop'[l] = "deliver" <=> loop[l] = "deliver"

LEMMA OtherStepKeeps ==
    ASSUME EventsOK, OtherStep PROVE EventsOK'
  <1>1. InBatches' = InBatches
    BY DEF OtherStep, events, InBatches
  <1>2. EachEventOnce'
    BY <1>1 DEF EventsOK, OtherStep, events, EachEventOnce
  <1>3. QED
    BY <1>2 DEF EventsOK, OtherStep, events

(* Every step of a call but Enqueue and ClearQueue is one of them.         *)
LEMMA CallsAreOtherSteps ==
    ASSUME EventsOK, NEW c \in Caller, Dispatch(c) \/ StopCall(c) \/ Stop(c)
    PROVE  OtherStep
  <1>1. CASE UNCHANGED <<events, loop>>
    BY <1>1 DEF OtherStep, EventsOK
  <1>2. CASE StartThread(c)
    BY <1>2 DEF OtherStep, EventsOK, StartThread, LoopState
  <1>3. QED
    BY <1>1, <1>2 DEF Dispatch, StopCall, Stop, Check, Recheck, Mark,
       ClearShutdown, CreateThread, Signal, Alive, Join, Unmark

LEMMA LoopOtherSteps ==
    ASSUME EventsOK, NEW l \in Loop, Test(l) \/ Finally(l) \/ StopInHandler(l)
    PROVE  OtherStep
  <1>1. CASE Test(l)
    BY <1>1 DEF OtherStep, EventsOK, Test, LoopTo, LoopState
  <1>2. CASE Finally(l)
    BY <1>2 DEF OtherStep, EventsOK, Finally, LoopTo, LoopState
  <1>3. CASE StopInHandler(l)
    BY <1>3 DEF OtherStep, EventsOK, StopInHandler, events
  <1>4. QED
    BY <1>1, <1>2, <1>3

-----------------------------------------------------------------------------
(* The steps that move events.                                             *)
LEMMA EnqueueKeeps ==
    ASSUME EventsOK, NEW c \in Caller, Enqueue(c)
    PROVE  EventsOK'
  <1>1. sent \in Nat /\ sent' = sent + 1 /\ sent' \in 0 .. MaxEvents
    BY SizesAssumption DEF EventsOK, Enqueue
  <1>2. /\ 1 .. sent' = (1 .. sent) \cup {sent'}
        /\ sent' \notin 1 .. sent
    BY <1>1
  <1>3. Seq(1 .. sent) \subseteq Seq(1 .. sent')
    BY <1>1
  <1>4. InBatches' = InBatches
    BY DEF Enqueue, InBatches
  <1>5. /\ Once(queue)
        /\ queue \in Seq(1 .. sent)
        /\ Elems(queue) \subseteq 1 .. sent
    BY DEF EventsOK, EachEventOnce, Elems
  <1>6. CASE Len(queue) < MaxQueueSize /\ lost' = lost
    <2>1. queue' = Append(queue, sent')
      BY <1>6, <1>5, SizesAssumption DEF Enqueue
    <2>2. Elems(queue') = Elems(queue) \cup {sent'} /\ Once(queue')
      BY <2>1, <1>1, <1>2, <1>3, <1>5, ElemsAppend
    <2>3. queue' \in Seq(1 .. sent') /\ Len(queue') <= MaxQueueSize
      BY <2>1, <1>1, <1>3, <1>5, <1>6, SizesAssumption
    <2>4. EachEventOnce'
      BY <2>2, <1>2, <1>4, <1>6 DEF EventsOK, EachEventOnce, Enqueue
    <2>5. QED
      BY <2>3, <2>4, <1>1, <1>2, <1>3, <1>6 DEF EventsOK, Enqueue
  <1>7. CASE Len(queue) >= MaxQueueSize
    <2>1. /\ queue' = Append(Tail(queue), sent')
          /\ lost' = lost \cup {Head(queue)}
          /\ queue # <<>>
      BY <1>7, <1>5, SizesAssumption DEF Enqueue
    <2>2. /\ Tail(queue) \in Seq(1 .. sent)
          /\ Head(queue) \in Elems(queue)
          /\ Elems(Tail(queue)) = Elems(queue) \ {Head(queue)}
          /\ Once(Tail(queue))
      BY <2>1, <1>5, ElemsTail
    <2>3. /\ Elems(queue') = (Elems(queue) \ {Head(queue)}) \cup {sent'}
          /\ Once(queue')
      <3>1. Tail(queue) \in Seq(1 .. sent') /\ sent' \in 1 .. sent'
        BY <2>2, <1>2, <1>3
      <3>2. sent' \notin Elems(Tail(queue))
        BY <2>2, <1>2, <1>5
      <3>3. /\ Elems(Append(Tail(queue), sent')) = Elems(Tail(queue)) \cup {sent'}
            /\ Once(Append(Tail(queue), sent'))
        <4> DEFINE s == Tail(queue)
        <4>1. s \in Seq(1 .. sent') /\ Once(s) /\ sent' \notin Elems(s)
          BY <2>2, <3>1, <3>2
        <4> HIDE DEF s
        <4>2. Elems(Append(s, sent')) = Elems(s) \cup {sent'}
          BY <3>1, <4>1, ElemsAppend
        <4>3. Once(Append(s, sent'))
          BY <3>1, <4>1, ElemsAppend
        <4>4. QED
          BY <4>2, <4>3 DEF s
      <3>4. QED
        BY <2>1, <2>2, <3>3
    <2>4. queue' \in Seq(1 .. sent') /\ Len(queue') <= MaxQueueSize
      BY <2>1, <2>2, <1>1, <1>3, <1>5, SizesAssumption DEF EventsOK
    <2>5. EachEventOnce'
      BY <2>1, <2>2, <2>3, <1>2, <1>4, <1>5 DEF EventsOK, EachEventOnce, Enqueue
    <2>6. QED
      BY <2>1, <2>2, <2>4, <2>5, <1>1, <1>2, <1>3, <1>5 DEF EventsOK, Enqueue
  <1>8. QED
    BY <1>6, <1>7 DEF Enqueue

LEMMA ClearKeeps ==
    ASSUME EventsOK, NEW c \in Caller, ClearQueue(c)
    PROVE  EventsOK'
  <1>1. InBatches' = InBatches
    BY DEF ClearQueue, InBatches
  <1>2. Elems(queue) \subseteq 1 .. sent
    BY DEF EventsOK, Elems
  <1>3. EachEventOnce'
    BY <1>1, ElemsEmpty DEF EventsOK, EachEventOnce, ClearQueue
  <1>4. queue' \in Seq(1 .. sent') /\ Len(queue') = 0
    BY DEF ClearQueue
  <1>5. lost' \subseteq 1 .. sent'
    BY <1>2 DEF EventsOK, ClearQueue
  <1>6. QED
    BY <1>3, <1>4, <1>5, SizesAssumption DEF EventsOK, ClearQueue

(* The two ends of the batch of l: what it takes, and what it still holds. *)
LEMMA TakeKeeps ==
    ASSUME EventsOK, NEW l \in Loop, Take(l)
    PROVE  EventsOK' /\ Elems(queue') \cup InBatches' = Elems(queue) \cup InBatches
  <1> DEFINE n == BatchOf(Len(queue))
  <1>1. /\ queue \in Seq(1 .. sent) /\ Once(queue)
        /\ n \in 0 .. Len(queue) /\ n <= BatchSize
    BY SizesAssumption DEF EventsOK, EachEventOnce, BatchOf
  <1>2. batch[l] = <<>>
    BY DEF EventsOK, Take, LoopTo
  <1>3. /\ batch' = [batch EXCEPT ![l] = SubSeq(queue, 1, n)]
        /\ queue' = SubSeq(queue, n + 1, Len(queue))
        /\ UNCHANGED <<sent, delivered, lost>>
    BY DEF Take
  <1>4. batch'[l] = SubSeq(queue, 1, n) /\ \A k \in Loop \ {l} : batch'[k] = batch[k]
    BY <1>3 DEF EventsOK
  <1> HIDE DEF n
  <1>5. /\ batch'[l] \in Seq(1 .. sent) /\ Len(batch'[l]) = n
        /\ queue' \in Seq(1 .. sent) /\ Len(queue') = Len(queue) - n
        /\ Elems(batch'[l]) \cup Elems(queue') = Elems(queue)
        /\ Elems(batch'[l]) \cap Elems(queue') = {}
        /\ Once(batch'[l]) /\ Once(queue')
    <2>1. Split(queue, SubSeq(queue, 1, n), SubSeq(queue, n + 1, Len(queue)),
                1 .. sent, n)
      BY <1>1, ElemsSplit
    <2>2. QED
      BY <1>3, <1>4, <2>1 DEF Split
  <1>6. InBatches' = InBatchesBut(l) \cup Elems(batch'[l])
    BY <1>4, OneBatch
  <1>7. InBatches = InBatchesBut(l)
    BY <1>2, ElemsEmpty DEF InBatches, InBatchesBut
  <1>8. Elems(queue') \cup InBatches' = Elems(queue) \cup InBatches
    BY <1>5, <1>6, <1>7
  <1>9. EachEventOnce'
    <2>1. \A k \in Loop : Once(batch'[k])
      BY <1>4, <1>5 DEF EventsOK, EachEventOnce
    <2>2. \A k \in Loop : Elems(batch[k]) \subseteq InBatches
      BY DEF InBatches
    <2>3. \A k, m \in Loop : k # m => Elems(batch'[k]) \cap Elems(batch'[m]) = {}
      BY <1>4, <1>5, <2>2 DEF EventsOK, EachEventOnce
    <2>4. Elems(queue') \cap InBatches' = {}
      BY <1>5, <1>6, <1>7 DEF EventsOK, EachEventOnce
    <2>5. QED
      BY <2>1, <2>3, <2>4, <1>3, <1>5, <1>8 DEF EventsOK, EachEventOnce
  <1>10. loop' \in [Loop -> LoopState] /\ \A k \in Loop :
             batch'[k] # <<>> <=> loop'[k] = "deliver"
    <2>1. n = 0 <=> batch'[l] = <<>>
      BY <1>5
    <2>2. loop' = [loop EXCEPT ![l] = IF n = 0 THEN "test" ELSE "deliver"]
      BY DEF Take, LoopTo, n
    <2>3. QED
      BY <2>1, <2>2, <1>4 DEF EventsOK, LoopState
  <1>11. batch' \in [Loop -> Seq(1 .. sent)] /\ \A k \in Loop :
             Len(batch'[k]) <= BatchSize
    BY <1>1, <1>3, <1>4, <1>5 DEF EventsOK
  <1>12. Len(queue') <= MaxQueueSize
    BY <1>1, <1>5, SizesAssumption DEF EventsOK
  <1>13. QED
    BY <1>3, <1>5, <1>8, <1>9, <1>10, <1>11, <1>12 DEF EventsOK

LEMMA DeliverKeeps ==
    ASSUME EventsOK, NEW l \in Loop, Deliver(l)
    PROVE  /\ EventsOK'
           /\ Head(batch[l]) \in InBatches
           /\ InBatches' = InBatches \ {Head(batch[l])}
  <1> DEFINE e == Head(batch[l])
  <1>1. batch[l] \in Seq(1 .. sent) /\ batch[l] # <<>> /\ Once(batch[l])
    BY DEF EventsOK, EachEventOnce, Deliver, LoopTo
  <1>2. /\ batch' = [batch EXCEPT ![l] = Tail(batch[l])]
        /\ delivered' = delivered \cup {e}
        /\ UNCHANGED <<queue, sent, lost>>
    BY DEF Deliver
  <1>3. batch'[l] = Tail(batch[l]) /\ \A k \in Loop \ {l} : batch'[k] = batch[k]
    BY <1>2 DEF EventsOK
  <1>4. /\ batch'[l] \in Seq(1 .. sent) /\ Len(batch'[l]) = Len(batch[l]) - 1
        /\ e \in Elems(batch[l])
        /\ Elems(batch'[l]) = Elems(batch[l]) \ {e}
        /\ Once(batch'[l])
    <2> DEFINE s == batch[l]
    <2>1. s \in Seq(1 .. sent) /\ s # <<>> /\ Once(s)
      BY <1>1
    <2> HIDE DEF s
    <2>2. /\ Tail(s) \in Seq(1 .. sent) /\ Len(Tail(s)) = Len(s) - 1
          /\ Head(s) \in Elems(s)
          /\ Elems(Tail(s)) = Elems(s) \ {Head(s)}
          /\ Once(Tail(s))
      BY <2>1, ElemsTail
    <2>3. QED
      BY <1>3, <2>2 DEF s
  <1> HIDE DEF e
  <1>5. InBatches' = InBatchesBut(l) \cup Elems(batch'[l])
    BY <1>3, OneBatch
  <1>6. InBatches = InBatchesBut(l) \cup Elems(batch[l])
    BY DEF InBatches, InBatchesBut
  <1>7. e \notin InBatchesBut(l)
    BY <1>4 DEF EventsOK, EachEventOnce, InBatchesBut
  <1>8. e \in InBatches /\ InBatches' = InBatches \ {e}
    BY <1>4, <1>5, <1>6, <1>7
  <1>9. EachEventOnce'
    <2>1. \A k \in Loop : Once(batch'[k])
      BY <1>3, <1>4 DEF EventsOK, EachEventOnce
    <2>2. \A k, m \in Loop : k # m => Elems(batch'[k]) \cap Elems(batch'[m]) = {}
      BY <1>3, <1>4 DEF EventsOK, EachEventOnce
    <2>3. /\ queue' = queue /\ lost' = lost /\ sent' = sent
          /\ delivered' = delivered \cup {e} /\ InBatches' = InBatches \ {e}
          /\ e \in InBatches
      BY <1>2, <1>8
    <2>4. EachEventOnce
      BY DEF EventsOK
    <2>5. /\ Elems(queue) \cap InBatches = {}
          /\ delivered \cap lost = {}
          /\ (Elems(queue) \cup InBatches) \cap (delivered \cup lost) = {}
          /\ Elems(queue) \cup InBatches \cup delivered \cup lost = 1 .. sent
      BY <2>4 DEF EachEventOnce
    <2>6. Once(queue')
      BY <2>3, <2>4 DEF EachEventOnce
    <2>7. /\ Elems(queue') \cap InBatches' = {}
          /\ delivered' \cap lost' = {}
          /\ (Elems(queue') \cup InBatches') \cap (delivered' \cup lost') = {}
          /\ Elems(queue') \cup InBatches' \cup delivered' \cup lost'
               = 1 .. sent'
      BY <2>3, <2>5
    <2>8. QED
      BY <2>1, <2>2, <2>6, <2>7 DEF EachEventOnce, Once, Elems
  <1>10. loop' \in [Loop -> LoopState] /\ \A k \in Loop :
             batch'[k] # <<>> <=> loop'[k] = "deliver"
    <2>1. Len(batch[l]) = 1 <=> batch'[l] = <<>>
      <3> DEFINE s == batch'[l]
      <3>1. s \in Seq(1 .. sent)
        BY <1>4
      <3> HIDE DEF s
      <3>4. Len(s) = 0 <=> s = <<>>
        BY <3>1
      <3>2. Len(batch[l]) \in Nat
        BY <1>1
      <3>3. QED
        BY <1>4, <3>2, <3>4 DEF s
    <2>2. loop' = [loop EXCEPT ![l] =
                      IF Len(batch[l]) = 1 THEN "test" ELSE "deliver"]
      BY DEF Deliver, LoopTo
    <2>3. QED
      BY <2>1, <2>2, <1>3 DEF EventsOK, LoopState
  <1>11. batch' \in [Loop -> Seq(1 .. sent)] /\ \A k \in Loop :
             Len(batch'[k]) <= BatchSize
    BY <1>1, <1>2, <1>3, <1>4, SizesAssumption DEF EventsOK
  <1>12. delivered' \subseteq 1 .. sent'
    BY <1>1, <1>2, <1>4, ElemsInside DEF EventsOK
  <1>13. QED
    BY <1>2, <1>8, <1>9, <1>10, <1>11, <1>12 DEF EventsOK, e

LEMMA BreakKeeps ==
    ASSUME EventsOK, NEW l \in Loop, Break(l)
    PROVE  /\ EventsOK'
           /\ Elems(batch[l]) \subseteq InBatches
           /\ InBatches' = InBatches \ Elems(batch[l])
  <1>1. batch[l] \in Seq(1 .. sent)
    BY DEF EventsOK
  <1>2. /\ batch' = [batch EXCEPT ![l] = <<>>]
        /\ lost' = lost \cup Elems(batch[l])
        /\ loop' = [loop EXCEPT ![l] = "test"]
        /\ UNCHANGED <<queue, sent, delivered>>
    BY DEF Break, LoopTo
  <1>3. batch'[l] = <<>> /\ \A k \in Loop \ {l} : batch'[k] = batch[k]
    BY <1>2 DEF EventsOK
  <1>4. InBatches' = InBatchesBut(l)
    BY <1>3, OneBatch, ElemsEmpty
  <1>5. InBatches = InBatchesBut(l) \cup Elems(batch[l])
    BY DEF InBatches, InBatchesBut
  <1>6. InBatchesBut(l) \cap Elems(batch[l]) = {}
    BY DEF EventsOK, EachEventOnce, InBatchesBut
  <1>7. EachEventOnce'
    <2>1. \A k \in Loop : Once(batch'[k])
      BY <1>3, ElemsEmpty DEF EventsOK, EachEventOnce
    <2>2. \A k, m \in Loop : k # m => Elems(batch'[k]) \cap Elems(batch'[m]) = {}
      BY <1>3, ElemsEmpty DEF EventsOK, EachEventOnce
    <2>3. QED
      BY <2>1, <2>2, <1>2, <1>4, <1>5, <1>6 DEF EventsOK, EachEventOnce
  <1>8. batch' \in [Loop -> Seq(1 .. sent)] /\ \A k \in Loop :
             Len(batch'[k]) <= BatchSize
    BY <1>2, <1>3, SizesAssumption DEF EventsOK
  <1>9. lost' \subseteq 1 .. sent'
    BY <1>1, <1>2, ElemsInside DEF EventsOK
  <1>10. loop' \in [Loop -> LoopState] /\ \A k \in Loop :
             batch'[k] # <<>> <=> loop'[k] = "deliver"
    BY <1>2, <1>3 DEF EventsOK, LoopState
  <1>11. QED
    BY <1>2, <1>4, <1>5, <1>6, <1>7, <1>8, <1>9, <1>10 DEF EventsOK

-----------------------------------------------------------------------------
(* The flags, the calls and the threads keep their types in every step.    *)
LEMMA FlagsKept ==
    ASSUME EventsOK, FlagsOK, Next
    PROVE  FlagsOK'
  <1>1. CASE UNCHANGED <<processing, shutdown, thread, created, call, joined,
                         lastStop>> /\ UNCHANGED sent
    BY <1>1 DEF FlagsOK
  <1>2. ASSUME NEW c \in Caller, Enqueue(c) PROVE FlagsOK'
    BY <1>2 DEF FlagsOK, EventsOK, Enqueue, flags, CallState
  <1>3. ASSUME NEW c \in Caller, Dispatch(c) PROVE FlagsOK'
    <2>1. CASE Check(c) \/ Recheck(c) \/ StartThread(c)
      BY <2>1 DEF FlagsOK, Check, Recheck, StartThread, GoTo, flags, events,
         CallState
    <2>2. CASE Mark(c) \/ ClearShutdown(c)
      BY <2>2 DEF FlagsOK, Mark, ClearShutdown, GoTo, events, CallState
    <2>3. CASE CreateThread(c)
      BY <2>3 DEF FlagsOK, CreateThread, GoTo, events, CallState
    <2>4. QED
      BY <1>3, <2>1, <2>2, <2>3 DEF Dispatch
  <1>4. ASSUME NEW c \in Caller, StopCall(c) \/ Stop(c) PROVE FlagsOK'
    <2>1. CASE StopCall(c)
      BY <2>1 DEF FlagsOK, EventsOK, StopCall, GoTo, flags, events, CallState
    <2>2. CASE Signal(c) \/ Unmark(c)
      BY <2>2 DEF FlagsOK, Signal, Unmark, GoTo, events, CallState
    <2>3. CASE Alive(c) \/ Join(c)
      BY <2>3 DEF FlagsOK, Alive, Join, GoTo, flags, events, CallState
    <2>4. QED
      BY <1>4, <2>1, <2>2, <2>3 DEF Stop
  <1>5. ASSUME NEW l \in Loop, Finally(l) \/ StopInHandler(l) PROVE FlagsOK'
    <2>1. CASE Finally(l)
      BY <2>1 DEF FlagsOK, Finally, events
    <2>2. CASE StopInHandler(l)
      <3>1. /\ UNCHANGED <<sent, processing, thread, created, call, joined>>
            /\ shutdown' = TRUE /\ lastStop' = sent
        BY <2>2, Zenon DEF StopInHandler, events
      <3>2. sent \in 0 .. sent
        BY DEF EventsOK
      <3>3. QED
        BY <3>1, <3>2 DEF FlagsOK
    <2>3. QED
      BY <1>5, <2>1, <2>2
  <1>6. ASSUME NEW c \in Caller, ClearQueue(c) PROVE FlagsOK'
    BY <1>1, <1>6 DEF ClearQueue, flags
  <1>7. ASSUME NEW l \in Loop, Test(l) \/ Take(l) \/ Deliver(l) \/ Break(l)
        PROVE  FlagsOK'
    <2>1. CASE Test(l)
      BY <1>1, <2>1 DEF Test, flags, events
    <2>2. CASE Take(l)
      BY <1>1, <2>2 DEF Take, flags
    <2>3. CASE Deliver(l)
      BY <1>1, <2>3 DEF Deliver, flags
    <2>4. CASE Break(l)
      BY <1>1, <2>4 DEF Break, flags
    <2>5. QED
      BY <1>7, <2>1, <2>2, <2>3, <2>4
  <1>8. QED
    BY <1>2, <1>3, <1>4, <1>5, <1>6, <1>7, CallersAssumption DEF Next, LoopStep

(* Every step keeps the invariant, with the steps that move no event under *)
(* one case.                                                               *)
LEMMA StepIInv == IInv /\ [Next]_vars => IInv'
  <1>4. IInv' <=> EventsOK' /\ FlagsOK'
    BY DEF IInv, TypeOK, EventsOK, FlagsOK
  <1> SUFFICES ASSUME EventsOK, FlagsOK, [Next]_vars PROVE EventsOK' /\ FlagsOK'
    BY <1>4, Parts
  <1>1. CASE UNCHANGED vars
    <2>1. OtherStep
      BY <1>1 DEF vars, events, OtherStep, EventsOK
    <2>2. QED
      BY <1>1, <2>1, OtherStepKeeps DEF vars, FlagsOK
  <1>2. ASSUME Next PROVE EventsOK'
    <2>1. ASSUME NEW c \in Caller,
                 Dispatch(c) \/ StopCall(c) \/ Stop(c)
          PROVE  EventsOK'
      BY <2>1, CallsAreOtherSteps, OtherStepKeeps
    <2>2. ASSUME NEW l \in Loop, Test(l) \/ Finally(l) \/ StopInHandler(l)
          PROVE  EventsOK'
      BY <2>2, LoopOtherSteps, OtherStepKeeps
    <2>3. QED
      BY <1>2, <2>1, <2>2, CallersAssumption, EnqueueKeeps, ClearKeeps,
         TakeKeeps, DeliverKeeps, BreakKeeps DEF Next, LoopStep
  <1>3. QED
    BY <1>1, <1>2, FlagsKept

LEMMA SpecIInv == Spec => []IInv
  BY InitIInv, StepIInv, PTL DEF Spec

(* The types hold in every state of every dispatcher.                      *)
THEOREM TypeCorrect == Spec => []TypeOK
  BY SpecIInv, PTL DEF IInv

(* Every dispatched event is in exactly one place, however many threads    *)
(* the races on _is_processing start.                                      *)
THEOREM EachEventOnceHolds == Spec => []EachEventOnce
  BY SpecIInv, PTL DEF IInv

-----------------------------------------------------------------------------
(* Every step is a step of the channel, or leaves it alone.                *)
Waiting == Elems(queue) \cup InBatches
channel == <<Waiting, delivered, lost>>

LEMMA EnqueueAccepts ==
    ASSUME EventsOK, EventsOK', NEW c \in Caller, Enqueue(c)
    PROVE  Channel!Accept(sent')
  <1>1. sent' = sent + 1 /\ sent' \notin 1 .. sent
    BY DEF EventsOK, Enqueue
  <1>2. Waiting \cup delivered \cup lost = 1 .. sent
    BY DEF EventsOK, EachEventOnce, Waiting
  <1>3. InBatches' = InBatches
    BY DEF Enqueue, InBatches
  <1>4. delivered' = delivered
    BY DEF Enqueue
  <1>5. queue \in Seq(1 .. sent) /\ Once(queue)
    BY DEF EventsOK, EachEventOnce
  <1>6. sent' \in 1 .. sent' /\ Seq(1 .. sent) \subseteq Seq(1 .. sent')
    BY <1>1 DEF EventsOK
  <1>7. CASE queue' = Append(queue, sent') /\ lost' = lost
    <2>1. Elems(queue') = Elems(queue) \cup {sent'}
      BY <1>5, <1>6, <1>7, ElemsAppend
    <2>2. Waiting' = Waiting \cup {sent'}
      BY <2>1, <1>3 DEF Waiting
    <2>3. QED
      BY <2>2, <1>1, <1>2, <1>4, <1>7 DEF Channel!Accept, Waiting
  <1>8. CASE /\ queue' = Append(Tail(queue), sent') /\ queue # <<>>
             /\ lost' = lost \cup {Head(queue)}
    <2> DEFINE s == Tail(queue)
               old == Head(queue)
    <2>1. s \in Seq(1 .. sent) /\ old \in Elems(queue) /\ Elems(s) = Elems(queue) \ {old}
      BY <1>5, <1>8, ElemsTail
    <2>2. queue' = Append(s, sent') /\ lost' = lost \cup {old}
      BY <1>8
    <2> HIDE DEF s, old
    <2>3. Elems(queue') = Elems(s) \cup {sent'}
      BY <2>1, <2>2, <1>6, ElemsAppend
    <2>4. old \notin InBatches
      BY <2>1 DEF EventsOK, EachEventOnce
    <2>5. Waiting' = (Waiting \ {old}) \cup {sent'} /\ old \in Waiting
      BY <2>1, <2>3, <2>4, <1>3 DEF Waiting
    <2>6. QED
      BY <2>2, <2>5, <1>1, <1>2, <1>4 DEF Channel!Accept, Waiting
  <1>9. QED
    BY <1>5, <1>7, <1>8, SizesAssumption DEF Enqueue

LEMMA LossIsLose ==
    ASSUME NEW S, S \subseteq Waiting, Waiting' = Waiting \ S,
           lost' = lost \cup S, delivered' = delivered
    PROVE  Channel!Next
  <1>1. Channel!Lose(S)
    BY DEF Channel!Lose, Waiting
  <1>2. QED
    BY <1>1 DEF Channel!Next, Waiting

LEMMA StepIsChannelStep ==
    ASSUME IInv, IInv', [Next]_vars
    PROVE  [Channel!Next]_channel
  <1> USE Parts
  <1>1. EventsOK /\ EventsOK'
    BY DEF IInv, TypeOK, EventsOK
  <1>2. CASE OtherStep
    BY <1>2 DEF OtherStep, events, channel, Waiting, InBatches
  <1>3. ASSUME NEW c \in Caller, Enqueue(c) PROVE Channel!Next
    <2>1. sent' \in Event
      BY <1>1, <1>3 DEF EventsOK, Enqueue, Event
    <2>2. QED
      BY <1>1, <1>3, <2>1, EnqueueAccepts DEF Channel!Next
  <1>4. ASSUME NEW c \in Caller, ClearQueue(c) PROVE Channel!Next
    <2>1. InBatches' = InBatches /\ Elems(queue') = {}
      BY <1>4, ElemsEmpty DEF ClearQueue, InBatches
    <2>2. /\ Waiting' = Waiting \ Elems(queue)
          /\ lost' = lost \cup Elems(queue) /\ delivered' = delivered
      BY <1>1, <1>4, <2>1 DEF ClearQueue, EventsOK, EachEventOnce, Waiting
    <2>3. QED
      BY <2>2, LossIsLose DEF Waiting
  <1>5. ASSUME NEW l \in Loop, Take(l) PROVE UNCHANGED channel
    BY <1>1, <1>5, TakeKeeps DEF channel, Waiting, Take
  <1>6. ASSUME NEW l \in Loop, Deliver(l) PROVE Channel!Next
    <2> DEFINE e == Head(batch[l])
    <2>1. e \in InBatches /\ InBatches' = InBatches \ {e}
      BY <1>1, <1>6, DeliverKeeps
    <2>2. queue' = queue /\ lost' = lost /\ delivered' = delivered \cup {e}
      BY <1>6 DEF Deliver
    <2> HIDE DEF e
    <2>3. e \in Waiting /\ Waiting' = Waiting \ {e}
      BY <1>1, <2>1, <2>2 DEF EventsOK, EachEventOnce, Waiting
    <2>4. e \in Event
      BY <1>1, <2>3, SizesAssumption DEF EventsOK, EachEventOnce, Waiting, Event
    <2>5. Channel!Handle(e)
      BY <2>2, <2>3 DEF Channel!Handle, Waiting
    <2>6. QED
      BY <2>4, <2>5 DEF Channel!Next
  <1>7. ASSUME NEW l \in Loop, Break(l) PROVE Channel!Next
    <2>1. /\ Elems(batch[l]) \subseteq InBatches
          /\ InBatches' = InBatches \ Elems(batch[l])
      BY <1>1, <1>7, BreakKeeps
    <2>2. /\ queue' = queue /\ delivered' = delivered
          /\ lost' = lost \cup Elems(batch[l])
      BY <1>7 DEF Break
    <2>3. /\ Elems(batch[l]) \subseteq Waiting
          /\ Waiting' = Waiting \ Elems(batch[l])
      BY <1>1, <2>1, <2>2 DEF EventsOK, EachEventOnce, Waiting
    <2>4. QED
      BY <2>2, <2>3, LossIsLose
  <1>8. CASE UNCHANGED vars
    BY <1>8 DEF vars, channel, Waiting, InBatches
  <1>9. ASSUME Next PROVE OtherStep \/ Channel!Next \/ UNCHANGED channel
    BY <1>1, <1>3, <1>4, <1>5, <1>6, <1>7, <1>9, CallersAssumption,
       CallsAreOtherSteps, LoopOtherSteps DEF Next, LoopStep
  <1>10. QED
    BY <1>2, <1>8, <1>9

LEMMA StepIsChannelStepPTL ==
    IInv /\ IInv' /\ [Next]_vars => [Channel!Next]_channel
  BY StepIsChannelStep

LEMMA InitIsChannelInit == Init => Channel!Init
  <1> SUFFICES ASSUME Init PROVE Channel!Init
    OBVIOUS
  <1>1. InBatches = {}
    BY ElemsEmpty DEF Init, InBatches
  <1>2. QED
    BY <1>1, ElemsEmpty DEF Init, Channel!Init

(* The dispatcher implements the channel: no event is handled twice, and   *)
(* none is handled after it was dropped, cleared or discarded.             *)
THEOREM KeepsChannelHolds == Spec => KeepsChannel
  <1>1. channel = Channel!cvars
    BY DEF channel, Waiting, Channel!cvars
  <1>2. IInv /\ IInv' /\ [Next]_vars => [Channel!Next]_(Channel!cvars)
    BY <1>1, StepIsChannelStepPTL DEF channel, Waiting, Channel!cvars
  <1>3. QED
    BY <1>2, InitIsChannelInit, SpecIInv, PTL DEF Spec, KeepsChannel, Channel!Spec

-----------------------------------------------------------------------------
(* One caller whose joins wait until the thread has ended.                 *)
OneCaller == ~JoinTimeouts /\ \A c, d \in Caller : c = d

(* A living thread is the one _processing_thread names, marked by          *)
(* _is_processing, and none lives while the caller makes a new one or      *)
(* takes the mark away.                                                    *)
NoneAlive == \A l \in Loop : ~IsAlive(l)

Serial ==
    /\ \A l \in Loop : IsAlive(l) => l = thread /\ processing
    /\ \A c \in Caller :
         /\ call[c] \in {"mark", "clear", "create", "start", "unmark"}
              => NoneAlive
         /\ call[c] \in {"clear", "create", "start"} => processing
         /\ call[c] = "join" => joined[c] = thread

LEMMA InitSerial == Init => Serial
  BY DEF Init, Serial, NoneAlive, IsAlive

(* Steps that neither bring a thread to life nor touch the marks.          *)
LEMMA SerialKept ==
    ASSUME Serial, UNCHANGED <<processing, thread, call, joined>>,
           \A l \in Loop : IsAlive(l)' => IsAlive(l)
    PROVE  Serial'
  BY DEF Serial, NoneAlive

LEMMA DispatchKeepsSerial ==
    ASSUME OneCaller, IInv, Serial, NEW c \in Caller,
           Enqueue(c) \/ Dispatch(c) \/ ClearQueue(c)
    PROVE  Serial'
  <1> USE DEF OneCaller
  <1>1. call \in [Caller -> CallState] /\ loop \in [Loop -> LoopState]
    BY DEF IInv, TypeOK
  <1>2. CASE Enqueue(c)
    BY <1>1, <1>2 DEF Enqueue, Serial, NoneAlive, IsAlive, flags
  <1>3. CASE ClearQueue(c)
    BY <1>3, SerialKept DEF ClearQueue, IsAlive, flags
  <1>4. CASE Check(c) \/ Recheck(c)
    BY <1>1, <1>4 DEF Check, Recheck, GoTo, Serial, NoneAlive, IsAlive, flags
  <1>5. CASE Mark(c) \/ ClearShutdown(c) \/ CreateThread(c)
    BY <1>1, <1>5 DEF Mark, ClearShutdown, CreateThread, GoTo, Serial,
       NoneAlive, IsAlive
  <1>6. CASE StartThread(c)
    <2>1. \A l \in Loop : IsAlive(l)' => l = thread
      BY <1>1, <1>6 DEF StartThread, GoTo, Serial, NoneAlive, IsAlive
    <2>2. QED
      BY <1>1, <1>6, <2>1 DEF StartThread, GoTo, Serial, flags
  <1>7. QED
    BY <1>2, <1>3, <1>4, <1>5, <1>6 DEF Dispatch

LEMMA StopKeepsSerial ==
    ASSUME OneCaller, IInv, Serial, NEW c \in Caller, StopCall(c) \/ Stop(c)
    PROVE  Serial'
  <1> USE DEF OneCaller
  <1>1. /\ call \in [Caller -> CallState] /\ loop \in [Loop -> LoopState]
        /\ joined \in [Caller -> 0 .. created]
    BY DEF IInv, TypeOK
  <1>2. CASE StopCall(c) \/ Signal(c)
    BY <1>1, <1>2 DEF StopCall, Signal, GoTo, Serial, NoneAlive, IsAlive, flags
  <1>3. CASE Alive(c)
    BY <1>1, <1>3 DEF Alive, GoTo, Serial, NoneAlive, IsAlive, flags
  <1>4. CASE Join(c)
    <2>1. NoneAlive
      BY <1>1, <1>4 DEF Join, GoTo, Serial, NoneAlive
    <2>2. QED
      BY <1>1, <1>4, <2>1 DEF Join, GoTo, Serial, NoneAlive, IsAlive, flags
  <1>5. CASE Unmark(c)
    BY <1>1, <1>5 DEF Unmark, GoTo, Serial, NoneAlive, IsAlive
  <1>6. QED
    BY <1>2, <1>3, <1>4, <1>5 DEF Stop

LEMMA LoopKeepsSerial ==
    ASSUME IInv, Serial, NEW l \in Loop, LoopStep(l) \/ StopInHandler(l)
    PROVE  Serial'
  <1>1. loop \in [Loop -> LoopState]
    BY DEF IInv, TypeOK
  <1>2. CASE Test(l) \/ Take(l) \/ Deliver(l) \/ Break(l)
    <2>1. UNCHANGED <<processing, thread, call, joined>>
      BY <1>2 DEF Test, Take, Deliver, Break, flags
    <2>2. \A k \in Loop : IsAlive(k)' => IsAlive(k)
      BY <1>1, <1>2 DEF Test, Take, Deliver, Break, LoopTo, IsAlive
    <2>3. QED
      BY <2>1, <2>2, SerialKept
  <1>3. CASE Finally(l)
    <2>3. IsAlive(l) /\ l = thread
      BY <1>3, SizesAssumption DEF Finally, LoopTo, IsAlive, Serial, Loop
    <2>4. \A k \in Loop : IsAlive(k)' => k # l /\ IsAlive(k)
      BY <1>1, <1>3 DEF Finally, LoopTo, IsAlive
    <2>1. NoneAlive'
      BY <2>3, <2>4 DEF NoneAlive, Serial
    <2>2. QED
      BY <1>3, <2>1, <2>3 DEF Finally, Serial, NoneAlive
  <1>4. CASE StopInHandler(l)
    BY <1>4, SerialKept DEF StopInHandler, IsAlive
  <1>5. QED
    BY <1>2, <1>3, <1>4 DEF LoopStep

LEMMA SerialStep == OneCaller /\ IInv /\ Serial /\ [Next]_vars => Serial'
  <1> SUFFICES ASSUME OneCaller, IInv, Serial, [Next]_vars PROVE Serial'
    OBVIOUS
  <1>1. CASE UNCHANGED vars
    BY <1>1, SerialKept DEF vars, IsAlive
  <1>2. CASE Next
    BY <1>2, DispatchKeepsSerial, StopKeepsSerial, LoopKeepsSerial,
       CallersAssumption DEF Next
  <1>3. QED
    BY <1>1, <1>2

LEMMA SpecSerial ==
    ASSUME OneCaller PROVE Spec => [](IInv /\ Serial)
  <1>1. IInv /\ Serial /\ [Next]_vars => Serial'
    BY SerialStep
  <1>2. QED
    BY <1>1, InitSerial, SpecIInv, PTL DEF Spec

(* One caller never makes two threads run, whatever its handlers stop.     *)
THEOREM AtMostOneLoopHolds == OneCaller => (Spec => []AtMostOneLoop)
  <1> SUFFICES ASSUME OneCaller PROVE Spec => []AtMostOneLoop
    OBVIOUS
  <1>1. Serial => AtMostOneLoop
    BY DEF Serial, AtMostOneLoop, Alone
  <1>2. QED
    BY <1>1, SpecSerial, PTL

(* Once stop_processing() has returned to its one caller, no handler runs. *)
THEOREM StoppedIsQuietHolds == OneCaller => (Spec => []StoppedIsQuiet)
  <1> SUFFICES ASSUME OneCaller PROVE Spec => []StoppedIsQuiet
    OBVIOUS
  <1>1. Serial => StoppedIsQuiet
    BY DEF Serial, StoppedIsQuiet
  <1>2. QED
    BY <1>1, SpecSerial, PTL

-----------------------------------------------------------------------------
(* The events in their order: in the deque, in each batch, and from the    *)
(* handlers over the batches to the deque.                                 *)
Ordered(s) == \A i, j \in 1 .. Len(s) : i < j => s[i] < s[j]

InLine ==
    /\ Ordered(queue)
    /\ \A l \in Loop : Ordered(batch[l])
    /\ \A d \in delivered, e \in Elems(queue) \cup InBatches : d < e
    /\ \A e \in InBatches, f \in Elems(queue) : e < f

LEMMA OrderedAppend ==
    ASSUME NEW n \in Nat, NEW s \in Seq(1 .. n), NEW e \in Int,
           Ordered(s), \A x \in Elems(s) : x < e
    PROVE  Ordered(Append(s, e))
  <1>1. Len(Append(s, e)) = Len(s) + 1 /\ Len(s) \in Nat
    OBVIOUS
  <1>2. /\ \A i \in 1 .. Len(s) : Append(s, e)[i] = s[i] /\ s[i] \in Elems(s)
        /\ Append(s, e)[Len(s) + 1] = e
    BY DEF Elems
  <1> DEFINE t == Append(s, e)
  <1>3. ASSUME NEW i \in 1 .. Len(t), NEW j \in 1 .. Len(t), i < j
        PROVE  t[i] < t[j]
    <2>1. i \in 1 .. Len(s) /\ t[i] = s[i]
      BY <1>1, <1>2, <1>3
    <2>2. CASE j = Len(s) + 1
      BY <1>2, <2>1, <2>2
    <2>3. CASE j \in 1 .. Len(s)
      BY <1>2, <1>3, <2>1, <2>3 DEF Ordered
    <2>4. QED
      BY <1>1, <2>2, <2>3
  <1>4. QED
    BY <1>3 DEF Ordered

LEMMA OrderedTail ==
    ASSUME NEW n \in Nat, NEW s \in Seq(1 .. n), s # <<>>, Ordered(s)
    PROVE  /\ Ordered(Tail(s))
           /\ \A x \in Elems(Tail(s)) : x \in Elems(s) /\ Head(s) < x
  <1>1. Len(s) \in Nat \ {0} /\ Len(Tail(s)) = Len(s) - 1
    OBVIOUS
  <1>2. /\ \A i \in 1 .. Len(s) - 1 : Tail(s)[i] = s[i + 1]
        /\ Head(s) = s[1]
    OBVIOUS
  <1>3. \A i \in 1 .. Len(s) - 1 : i + 1 \in 1 .. Len(s) /\ 1 < i + 1
    BY <1>1
  <1>4. Ordered(Tail(s))
    BY <1>1, <1>2 DEF Ordered
  <1>5. \A x \in Elems(Tail(s)) : x \in Elems(s)
    BY <1>1, <1>2, <1>3 DEF Elems
  <1>6. \A x \in Elems(Tail(s)) : Head(s) < x
    BY <1>1, <1>2, <1>3 DEF Elems, Ordered
  <1>7. QED
    BY <1>4, <1>5, <1>6

LEMMA OrderedSplit ==
    ASSUME NEW m \in Nat, NEW s \in Seq(1 .. m), NEW n \in 0 .. Len(s), Ordered(s)
    PROVE  /\ Ordered(SubSeq(s, 1, n))
           /\ Ordered(SubSeq(s, n + 1, Len(s)))
           /\ \A x \in Elems(SubSeq(s, 1, n)), y \in Elems(SubSeq(s, n + 1, Len(s))) :
                x < y
  <1> DEFINE a == SubSeq(s, 1, n)
             b == SubSeq(s, n + 1, Len(s))
  <1>1. Len(a) = n /\ \A i \in 1 .. n : a[i] = s[i]
    OBVIOUS
  <1>2. Len(b) = Len(s) - n /\ \A i \in 1 .. Len(s) - n : b[i] = s[n + i]
    OBVIOUS
  <1> HIDE DEF a, b
  <1>3. /\ Len(s) \in Nat /\ n \in 0 .. Len(s)
        /\ \A i \in 1 .. n : i \in 1 .. Len(s)
        /\ \A i \in 1 .. Len(s) - n : n + i \in 1 .. Len(s)
    OBVIOUS
  <1>4. Ordered(a)
    BY <1>1, <1>3 DEF Ordered
  <1>5. Ordered(b)
    <2>1. ASSUME NEW i \in 1 .. Len(b), NEW j \in 1 .. Len(b), i < j
          PROVE  b[i] < b[j]
      <3>1. /\ n + i \in 1 .. Len(s) /\ n + j \in 1 .. Len(s) /\ n + i < n + j
            /\ b[i] = s[n + i] /\ b[j] = s[n + j]
        BY <1>2, <1>3, <2>1
      <3>2. QED
        BY <3>1 DEF Ordered
    <2>2. QED
      BY <2>1 DEF Ordered
  <1>6. ASSUME NEW x \in Elems(a), NEW y \in Elems(b) PROVE x < y
    <2>1. PICK i \in 1 .. n : x = s[i]
      BY <1>1 DEF Elems
    <2>2. PICK j \in 1 .. Len(s) - n : y = s[n + j]
      BY <1>2 DEF Elems
    <2>3. i \in 1 .. Len(s) /\ n + j \in 1 .. Len(s) /\ i < n + j
      BY <1>3
    <2>4. QED
      BY <2>1, <2>2, <2>3 DEF Ordered
  <1>7. QED
    BY <1>4, <1>5, <1>6 DEF a, b

LEMMA InitInLine == Init => InLine
  <1> SUFFICES ASSUME Init PROVE InLine
    OBVIOUS
  <1>1. InBatches = {}
    BY ElemsEmpty DEF Init, InBatches
  <1>2. Ordered(<<>>)
    BY DEF Ordered
  <1>3. QED
    BY <1>1, <1>2, ElemsEmpty DEF Init, InLine

LEMMA EnqueueInLine ==
    ASSUME EventsOK, EventsOK', InLine, NEW c \in Caller, Enqueue(c)
    PROVE  InLine'
  <1>1. sent \in Nat /\ sent' = sent + 1 /\ sent' \in Int
    BY SizesAssumption DEF EventsOK, Enqueue
  <1>2. InBatches' = InBatches /\ UNCHANGED <<batch, delivered>>
    BY DEF Enqueue, InBatches
  <1>3. queue \in Seq(1 .. sent) /\ Once(queue)
    BY DEF EventsOK, EachEventOnce
  <1>4. Elems(queue) \cup InBatches \cup delivered \subseteq 1 .. sent
    BY DEF EventsOK, EachEventOnce
  <1>5. 1 .. sent' = (1 .. sent) \cup {sent'} /\ sent' \in 1 .. sent'
    BY <1>1
  <1>6. Seq(1 .. sent) \subseteq Seq(1 .. sent')
    BY <1>1
  <1>7. ASSUME NEW s \in Seq(1 .. sent), Once(s), queue' = Append(s, sent'),
               Ordered(s), Elems(s) \subseteq Elems(queue)
        PROVE  InLine'
    <2>1. \A x \in Elems(s) : x < sent'
      BY <1>1, <1>4, <1>7
    <2>2. Ordered(queue')
      BY <1>1, <1>7, <2>1, OrderedAppend
    <2>3. Elems(queue') = Elems(s) \cup {sent'}
      BY <1>5, <1>6, <1>7, ElemsAppend
    <2>4. \A x \in InBatches \cup delivered : x < sent'
      BY <1>1, <1>4
    <2>5. QED
      BY <1>2, <1>7, <2>2, <2>3, <2>4 DEF InLine
  <1>8. CASE queue' = Append(queue, sent')
    BY <1>3, <1>7, <1>8 DEF InLine
  <1>9. CASE queue' = Append(Tail(queue), sent') /\ queue # <<>>
    <2>1. /\ Tail(queue) \in Seq(1 .. sent) /\ Once(Tail(queue))
          /\ Elems(Tail(queue)) = Elems(queue) \ {Head(queue)}
      BY <1>3, <1>9, ElemsTail
    <2>2. Ordered(Tail(queue))
      BY <1>1, <1>3, <1>9, OrderedTail DEF InLine
    <2>3. QED
      BY <1>7, <1>9, <2>1, <2>2
  <1>10. QED
    BY <1>3, <1>8, <1>9, SizesAssumption DEF Enqueue

LEMMA TakeInLine ==
    ASSUME EventsOK, InLine, NEW l \in Loop, Take(l)
    PROVE  InLine'
  <1> DEFINE n == BatchOf(Len(queue))
             a == SubSeq(queue, 1, n)
             b == SubSeq(queue, n + 1, Len(queue))
  <1>1. /\ sent \in Nat /\ queue \in Seq(1 .. sent) /\ Once(queue)
        /\ n \in 0 .. Len(queue)
    BY SizesAssumption DEF EventsOK, EachEventOnce, BatchOf
  <1>2. /\ batch' = [batch EXCEPT ![l] = a] /\ queue' = b
        /\ delivered' = delivered
    BY DEF Take
  <1>3. batch'[l] = a /\ \A k \in Loop \ {l} : batch'[k] = batch[k]
    BY <1>2 DEF EventsOK
  <1>4. Elems(queue') \cup InBatches' = Elems(queue) \cup InBatches
    BY TakeKeeps
  <1> HIDE DEF n
  <1>5. Ordered(a) /\ Ordered(b) /\ \A x \in Elems(a), y \in Elems(b) : x < y
    BY <1>1, OrderedSplit DEF InLine
  <1>6. Elems(a) \cup Elems(b) = Elems(queue)
    BY <1>1, ElemsSplit DEF Split
  <1> HIDE DEF a, b
  <1>7. InBatches' = InBatchesBut(l) \cup Elems(a)
    BY <1>3, OneBatch
  <1>8. InBatchesBut(l) \subseteq InBatches
    BY DEF InBatches, InBatchesBut
  <1>9. \A e \in InBatches', f \in Elems(queue') : e < f
    BY <1>2, <1>5, <1>6, <1>7, <1>8 DEF InLine
  <1>10. \A k \in Loop : Ordered(batch'[k])
    BY <1>3, <1>5 DEF InLine
  <1>11. \A d \in delivered', e \in Elems(queue)' \cup InBatches' : d < e
    BY <1>2, <1>4 DEF InLine
  <1>12. QED
    BY <1>2, <1>5, <1>9, <1>10, <1>11 DEF InLine

(* The one step that needs the threads apart: what the other threads hold  *)
(* may be older than what this one delivers.                               *)
LEMMA DeliverInLine ==
    ASSUME EventsOK, Serial, InLine, NEW l \in Loop, Deliver(l)
    PROVE  InLine' /\ \A e \in delivered' \ delivered : \A d \in delivered : d < e
  <1> DEFINE e == Head(batch[l])
  <1>1. /\ sent \in Nat /\ batch[l] \in Seq(1 .. sent) /\ batch[l] # <<>>
        /\ Ordered(batch[l]) /\ Once(batch[l]) /\ loop[l] = "deliver"
    BY SizesAssumption DEF EventsOK, EachEventOnce, Deliver, LoopTo, InLine
  <1>2. /\ batch' = [batch EXCEPT ![l] = Tail(batch[l])]
        /\ delivered' = delivered \cup {e} /\ queue' = queue
    BY DEF Deliver
  <1>3. batch'[l] = Tail(batch[l]) /\ \A k \in Loop \ {l} : batch'[k] = batch[k]
    BY <1>2 DEF EventsOK
  <1>4. \A k \in Loop \ {l} : batch[k] = <<>>
    <2>1. 0 \notin Loop
      BY SizesAssumption DEF Loop
    <2>2. \A k \in Loop : batch[k] # <<>> => IsAlive(k)
      BY <2>1 DEF EventsOK, IsAlive
    <2>3. l = thread
      BY <1>1, <2>2 DEF Serial
    <2>4. QED
      BY <2>2, <2>3 DEF Serial
  <1>5. InBatches' = Elems(Tail(batch[l]))
    BY <1>3, <1>4, ElemsEmpty DEF InBatches
  <1>6. Elems(batch[l]) \subseteq InBatches /\ e \in Elems(batch[l])
    BY <1>1, ElemsTail DEF InBatches
  <1>7. Ordered(Tail(batch[l])) /\ \A x \in Elems(Tail(batch[l])) :
          x \in Elems(batch[l]) /\ e < x
    BY <1>1, OrderedTail
  <1> HIDE DEF e
  <1>8. \A k \in Loop : Ordered(batch'[k])
    BY <1>3, <1>7 DEF InLine
  <1>9. \A d \in delivered', x \in Elems(queue') \cup InBatches' : d < x
    BY <1>2, <1>5, <1>6, <1>7 DEF InLine
  <1>10. \A x \in InBatches', f \in Elems(queue') : x < f
    BY <1>2, <1>5, <1>6, <1>7 DEF InLine
  <1>11. \A x \in delivered' \ delivered : \A d \in delivered : d < x
    BY <1>2, <1>6 DEF InLine
  <1>12. QED
    BY <1>2, <1>8, <1>9, <1>10, <1>11 DEF InLine

LEMMA BreakInLine ==
    ASSUME EventsOK, InLine, NEW l \in Loop, Break(l)
    PROVE  InLine'
  <1>1. /\ batch' = [batch EXCEPT ![l] = <<>>]
        /\ UNCHANGED <<queue, delivered>>
    BY DEF Break
  <1>2. batch'[l] = <<>> /\ \A k \in Loop \ {l} : batch'[k] = batch[k]
    BY <1>1 DEF EventsOK
  <1>3. InBatches' \subseteq InBatches
    BY <1>2, ElemsEmpty DEF InBatches
  <1>4. \A k \in Loop : Ordered(batch'[k])
    BY <1>2 DEF InLine, Ordered
  <1>5. QED
    BY <1>1, <1>3, <1>4 DEF InLine

LEMMA OtherInLine ==
    ASSUME InLine, OtherStep, delivered' = delivered PROVE InLine'
  <1>1. InBatches' = InBatches
    BY DEF OtherStep, events, InBatches
  <1>2. QED
    BY <1>1 DEF InLine, OtherStep, events

LEMMA ClearInLine ==
    ASSUME InLine, NEW c \in Caller, ClearQueue(c) PROVE InLine'
  <1>1. InBatches' = InBatches
    BY DEF ClearQueue, InBatches
  <1>2. Ordered(queue') /\ Elems(queue') = {}
    BY ElemsEmpty DEF ClearQueue, Ordered
  <1>3. QED
    BY <1>1, <1>2 DEF InLine, ClearQueue

LEMMA InLineStep ==
    IInv /\ IInv' /\ Serial /\ InLine /\ [Next]_vars
      => InLine' /\ (\A e \in delivered' \ delivered : \A d \in delivered : d < e)
  <1> SUFFICES ASSUME EventsOK, EventsOK', Serial, InLine, [Next]_vars
               PROVE  /\ InLine'
                      /\ \A e \in delivered' \ delivered : \A d \in delivered : d < e
    BY Parts DEF IInv, TypeOK, EventsOK
  <1>1. ASSUME OtherStep PROVE InLine' /\ delivered' = delivered
    BY <1>1, OtherInLine DEF OtherStep, events
  <1>2. CASE UNCHANGED vars
    BY <1>1, <1>2 DEF vars, OtherStep, events, EventsOK
  <1>3. ASSUME NEW c \in Caller, Enqueue(c) \/ ClearQueue(c)
        PROVE  InLine' /\ delivered' = delivered
    BY <1>3, EnqueueInLine, ClearInLine DEF Enqueue, ClearQueue
  <1>4. ASSUME NEW c \in Caller, Dispatch(c) \/ StopCall(c) \/ Stop(c)
        PROVE  InLine' /\ delivered' = delivered
    BY <1>1, <1>4, CallsAreOtherSteps
  <1>5. ASSUME NEW l \in Loop, LoopStep(l) \/ StopInHandler(l)
        PROVE  /\ InLine'
               /\ \A e \in delivered' \ delivered : \A d \in delivered : d < e
    <2>1. CASE Test(l) \/ Finally(l) \/ StopInHandler(l)
      BY <1>1, <2>1, LoopOtherSteps
    <2>2. CASE Take(l)
      BY <2>2, TakeInLine DEF Take
    <2>3. CASE Break(l)
      BY <2>3, BreakInLine DEF Break
    <2>4. CASE Deliver(l)
      BY <2>4, DeliverInLine
    <2>5. QED
      BY <1>5, <2>1, <2>2, <2>3, <2>4 DEF LoopStep
  <1>6. QED
    BY <1>2, <1>3, <1>4, <1>5, CallersAssumption DEF Next

(* With one caller the handlers get the events in the order they were      *)
(* dispatched, whatever the batches, the overflows and the restarts.       *)
THEOREM InOrderHolds == OneCaller => (Spec => InOrder)
  <1> SUFFICES ASSUME OneCaller PROVE Spec => InOrder
    OBVIOUS
  <1>1. IInv /\ IInv' /\ Serial /\ InLine /\ [Next]_vars => InLine'
    BY InLineStep
  <1>2. IInv /\ IInv' /\ Serial /\ InLine /\ [Next]_vars
          => [\A e \in delivered' \ delivered : \A d \in delivered : d < e]_vars
    BY InLineStep
  <1>3. QED
    BY <1>1, <1>2, InitInLine, SpecSerial, PTL DEF Spec, InOrder
=============================================================================
