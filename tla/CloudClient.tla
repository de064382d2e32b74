---------------------------- MODULE CloudClient ----------------------------
(***************************************************************************)
(* ApsClient.request() of src/revitpy/cloud/client.py: tasks of an event   *)
(* loop that send requests through one client, with its sliding-window     *)
(* rate limiter and its retries.                                           *)
(*                                                                         *)
(* The limiter looks at the list of earlier sends, sleeps when it is full  *)
(* and then sends: the sleep is an await, after which nothing is looked at *)
(* again.  Time is a clock of ticks, Window of them a second; a task that  *)
(* sleeps goes on at its time or later, and an answer takes at least a     *)
(* tick.  The service is external: it answers, fails or cannot be reached. *)
(* Tokens and the contents of requests are left out.                       *)
(***************************************************************************)
EXTENDS Naturals, Sequences

CONSTANTS
    Sender,      \* tasks that share the client
    MaxRequests, \* _MAX_REQUESTS_PER_SECOND
    Window,      \* ticks of a second
    MaxRetries,  \* _MAX_RETRIES, the attempts at a request
    MaxTime      \* bound on the clock

ASSUME ClientAssumption ==
    /\ MaxRequests \in Nat \ {0} /\ Window \in Nat \ {0}
    /\ MaxRetries \in Nat \ {0} /\ MaxTime \in Nat

VARIABLES
    now,      \* time.monotonic()
    times,    \* _request_times
    request   \* where each request is: its attempt, and when that was sent
              \* or goes on

clientVars == <<now, times, request>>

NoRequest == [at |-> "none", attempt |-> 0, time |-> 0]

ClientInit ==
    /\ now = 0
    /\ times = <<>>
    /\ request = [s \in Sender |-> NoRequest]

Tick ==
    /\ now < MaxTime
    /\ now' = now + 1
    /\ UNCHANGED <<times, request>>

MovesTo(s, at, time) ==
    request' = [request EXCEPT ![s] =
                  [at |-> at, attempt |-> @.attempt, time |-> time]]

(* request() gets a token, which may take a while.                         *)
Request(s) ==
    /\ request[s].at = "none"
    /\ MovesTo(s, "limiter", 0)
    /\ UNCHANGED <<now, times>>
-----------------------------------------------------------------------------
(* _enforce_rate_limit()                                                   *)
IsOld(t) == now - t > Window

FirstRecent ==
    CHOOSE i \in 1 .. Len(times) + 1 :
      /\ \A j \in 1 .. i - 1 : IsOld(times[j])
      /\ i <= Len(times) => ~IsOld(times[i])

Recent == SubSeq(times, FirstRecent, Len(times))

Send(s, earlier) ==
    /\ times' = Append(earlier, now)
    /\ MovesTo(s, "sent", now)

(* Mutant: one request too many.                                           *)
IsFullTooLate(earlier) ==
    Len(earlier) > MaxRequests /\ Head(earlier) + Window > now

IsFull(earlier) ==
    Len(earlier) >= MaxRequests /\ Head(earlier) + Window > now

SendAtOnce(s) ==
    /\ request[s].at = "limiter"
    /\ ~IsFull(Recent)
    /\ Send(s, Recent)
    /\ UNCHANGED now

WaitForRoom(s) ==
    /\ request[s].at = "limiter"
    /\ IsFull(Recent)
    /\ times' = Recent
    /\ MovesTo(s, "sleeps", Head(Recent) + Window)
    /\ UNCHANGED now

SendAfterSleep(s) ==
    /\ request[s].at = "sleeps" /\ now >= request[s].time
    /\ Send(s, times)
    /\ UNCHANGED now
-----------------------------------------------------------------------------
(* The answer                                                              *)
Answered(s) == request[s].at = "sent" /\ now > request[s].time

(* A result, or an error that is not retried.                              *)
RequestEnds(s) ==
    /\ Answered(s)
    /\ request' = [request EXCEPT ![s] = NoRequest]
    /\ UNCHANGED <<now, times>>

BackOff(s) ==
    MovesTo(s, "backoff", now + Window * 2 ^ request[s].attempt)

(* 429, 500, 502 and 503 back off even after the last attempt.             *)
RetryableStatus(s) ==
    /\ Answered(s)
    /\ BackOff(s)
    /\ UNCHANGED <<now, times>>

TransportFails(s) ==
    /\ Answered(s)
    /\ IF request[s].attempt + 1 < MaxRetries
       THEN BackOff(s)
       ELSE request' = [request EXCEPT ![s] = NoRequest]
    /\ UNCHANGED <<now, times>>

BackoffOver(s) ==
    /\ request[s].at = "backoff" /\ now >= request[s].time
    /\ request' = [request EXCEPT ![s] =
                     IF @.attempt + 1 < MaxRetries
                     THEN [at |-> "limiter", attempt |-> @.attempt + 1,
                           time |-> 0]
                     ELSE NoRequest]
    /\ UNCHANGED <<now, times>>

ClientNext ==
    \/ Tick
    \/ \E s \in Sender :
         \/ Request(s)
         \/ SendAtOnce(s) \/ WaitForRoom(s) \/ SendAfterSleep(s)
         \/ RequestEnds(s) \/ RetryableStatus(s) \/ TransportFails(s)
         \/ BackoffOver(s)

ClientSpec == ClientInit /\ [][ClientNext]_clientVars
-----------------------------------------------------------------------------
(* src/revitpy/cloud/client.py:171, "Sliding-window rate limiter: max 20   *)
(* requests per second.": over sleeps, retries and backoffs no more than   *)
(* that are sent within a second.                                          *)
RateIsKept ==
    \A i \in DOMAIN times : i > MaxRequests =>
        times[i] - times[i - MaxRequests] >= Window
=============================================================================
