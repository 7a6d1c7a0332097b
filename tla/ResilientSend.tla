---------------------------- MODULE ResilientSend ---------------------------
(***************************************************************************)
(* Concurrent logical requests that share one resilience session:          *)
(* resilientSend (reso-client/src/http/resilience/resilient-send.ts) with  *)
(* its session, per-request timeout, circuit breakers and rate governors.  *)
(*                                                                         *)
(* The SDK is single-threaded: a call runs without interruption from one   *)
(* await to the next, and each such stretch is one action.  Other calls,   *)
(* the server and the clock move between them.                             *)
(***************************************************************************)
EXTENDS Integers, Sequences, FiniteSets,
        CircuitBreaker, RateGovernor, RetryPolicy

CONSTANTS
  Calls,           \* the logical requests of one run
  Keys,            \* the host|resource keys they address
  Methods,         \* the HTTP methods they use
  Statuses,        \* the statuses a server may answer with
  RetryAfters,     \* the Retry-After headers it may attach
  MaxRetries,      \* BackoffConfig.maxRetries
  TimeoutMs,       \* config.timeoutMs, 0 when disabled
  MaxRetryWaitMs,  \* config.maxRetryWaitMs
  TotalTimeoutMs,  \* config.totalTimeoutMs, or NoTotal
  NoTotal,         \* stands for the undefined total timeout
  FreeClock        \* how far the clock may run with no timer waiting for it

Header == [form : {"none", "seconds", "date"}, value : Nat]

ASSUME SendAssumption ==
  /\ Statuses \subseteq Nat \ {NoStatus}
  /\ RetryAfters \subseteq Header
  /\ MaxRetries \in Nat
  /\ TimeoutMs \in Nat
  /\ MaxRetryWaitMs \in Nat
  /\ TotalTimeoutMs # NoTotal => TotalTimeoutMs \in Nat
  /\ FreeClock \in Nat

VARIABLES
  now,       \* Date.now(), counted from the session's startedAtMs
  breaker,   \* the breaker's entries, by key
  bucket,    \* the governor's buckets, by key
  chain,     \* by key, the calls on the bucket's promise chain, oldest first
  call,      \* the control state of each call
  applied,   \* how often the server has performed each call
  died,      \* history: the keys some call was given up on with no response
  grants     \* history: by key, the sends the governor let through

vars == <<now, breaker, bucket, chain, call, applied, died, grants>>

Results == {"none", "response", "fatal-auth", "exhausted", "circuit-open",
            "retry-wait-exceeded", "deadline-exceeded"}

Phases == {"idle", "queued", "pacing", "inflight", "backoff", "settled"}

CallState ==
  [phase : Phases, method : Methods, key : Keys, retriesUsed : 0 .. MaxRetries,
   wakeAt : Nat,        \* when the timer of pacing, inflight or backoff fires
   sends : Nat,         \* history: the times the request went out
   result : Results]

(***************************************************************************)
(* The run's deadline.                                                     *)
(***************************************************************************)
hasDeadline == TotalTimeoutMs # NoTotal

(* Faulty: the budget starts with a later request instead of the session.  *)
FaultyDeadlineMs == TotalTimeoutMs + 2

deadlineMs == TotalTimeoutMs

pastDeadline == hasDeadline /\ now >= deadlineMs

wouldOverrunDeadline(wait) == hasDeadline /\ now + wait >= deadlineMs

-----------------------------------------------------------------------------
Init ==
  /\ now = 0
  /\ breaker = [k \in Keys |-> freshEntry]
  /\ bucket = [k \in Keys |-> freshBucket]
  /\ chain = [k \in Keys |-> <<>>]
  /\ call \in [Calls -> {[phase |-> "idle", method |-> m, key |-> k,
                          retriesUsed |-> 0, wakeAt |-> 0, sends |-> 0,
                          result |-> "none"] : m \in Methods, k \in Keys}]
  /\ applied = [c \in Calls |-> 0]
  /\ died = {}
  /\ grants = [k \in Keys |-> <<>>]

settled(r, result) == [r EXCEPT !.phase = "settled", !.wakeAt = 0, !.result = result]

inflight(r) ==
  [r EXCEPT !.phase = "inflight", !.wakeAt = now + TimeoutMs, !.sends = @ + 1]

(***************************************************************************)
(* attempt(retriesUsed) up to its first await: the deadline, the breaker,  *)
(* then a place on the governor's chain (or, with pacing disabled, the     *)
(* send itself).  r is the call's record on entry.                         *)
(***************************************************************************)
Attempt(c, r) ==
  LET e == breaker[r.key]
      admittedCall == [r EXCEPT !.phase = "queued", !.wakeAt = 0]
  IN
  \/ /\ pastDeadline
     /\ call' = [call EXCEPT ![c] = settled(r, "deadline-exceeded")]
     /\ UNCHANGED <<breaker, chain>>
  \/ /\ ~pastDeadline
     /\ ~canProceed(e, now)
     /\ call' = [call EXCEPT ![c] = settled(r, "circuit-open")]
     /\ UNCHANGED <<breaker, chain>>
  \/ /\ ~pastDeadline
     /\ canProceed(e, now)
     /\ breaker' = [breaker EXCEPT ![r.key] = admitted(@, now)]
     /\ IF TokenMs = 0
          THEN /\ call' = [call EXCEPT ![c] = inflight(admittedCall)]
               /\ UNCHANGED chain
          ELSE /\ call' = [call EXCEPT ![c] = admittedCall]
               /\ chain' = [chain EXCEPT ![r.key] = Append(@, c)]

Issue(c) ==
  /\ call[c].phase = "idle"
  /\ Attempt(c, call[c])
  /\ UNCHANGED <<now, bucket, applied, died, grants>>

(* The sleep before a retry is over: attempt(retriesUsed + 1).             *)
Retry(c) ==
  /\ call[c].phase = "backoff"
  /\ now >= call[c].wakeAt
  /\ Attempt(c, [call[c] EXCEPT !.retriesUsed = @ + 1])
  /\ UNCHANGED <<now, bucket, applied, died, grants>>

(***************************************************************************)
(* acquire: once the previous holder has resolved its gate, refill, wait   *)
(* for the missing credit, refill again, take a token and pass the gate.   *)
(***************************************************************************)
Send(c, k, b) ==
  /\ bucket' = [bucket EXCEPT ![k] = spend(b)]
  /\ chain' = [chain EXCEPT ![k] = Tail(@)]
  /\ grants' = [grants EXCEPT ![k] = Append(@, [by |-> c, at |-> now])]
  /\ call' = [call EXCEPT ![c] = inflight(@)]

(* Faulty: callers do not wait for one another's gate.                     *)
FaultyAcquireTurn(c) ==
  LET k == call[c].key
      b == refill(bucket[k], now)
  IN  /\ call[c].phase = "queued"
      /\ \/ hasToken(b) /\ Send(c, k, b)
         \/ /\ ~hasToken(b)
            /\ bucket' = [bucket EXCEPT ![k] = b]
            /\ call' = [call EXCEPT ![c].phase = "pacing",
                                    ![c].wakeAt = now + waitMs(b)]
            /\ UNCHANGED <<chain, grants>>
      /\ UNCHANGED <<now, breaker, applied, died>>

AcquireTurn(c) ==
  LET k == call[c].key
      b == refill(bucket[k], now)
  IN  /\ call[c].phase = "queued"
      /\ c = Head(chain[k])
      /\ \/ /\ hasToken(b)
            /\ Send(c, k, b)
         \/ /\ ~hasToken(b)
            /\ bucket' = [bucket EXCEPT ![k] = b]
            /\ call' = [call EXCEPT ![c].phase = "pacing",
                                    ![c].wakeAt = now + waitMs(b)]
            /\ UNCHANGED <<chain, grants>>
      /\ UNCHANGED <<now, breaker, applied, died>>

AcquireWake(c) ==
  LET k == call[c].key IN
  /\ call[c].phase = "pacing"
  /\ now >= call[c].wakeAt
  /\ Send(c, k, refill(bucket[k], now))
  /\ UNCHANGED <<now, breaker, applied, died>>

-----------------------------------------------------------------------------
(***************************************************************************)
(* What the call does with a response.                                     *)
(***************************************************************************)
(* Faulty: one retry too many.                                             *)
FaultyCanRetry(r, failure) ==
  /\ shouldRetry(failure, r.method)
  /\ statusAllowsRetry(failure)
  /\ r.retriesUsed <= MaxRetries

canRetry(r, failure) ==
  /\ shouldRetry(failure, r.method)
  /\ statusAllowsRetry(failure)
  /\ r.retriesUsed < MaxRetries

Backoff(c, wait) ==
  /\ call' = [call EXCEPT ![c].phase = "backoff", ![c].wakeAt = now + wait]
  /\ UNCHANGED <<breaker, died>>

(* Faulty: an answer that is no use to the caller counts as a failure.     *)
FaultyAnswered(c, result) ==
  LET k == call[c].key IN
  /\ call' = [call EXCEPT ![c] = settled(@, result)]
  /\ breaker' = [breaker EXCEPT ![k] = IF result = "response" THEN onSuccess(@) ELSE onFailure(@, now)]
  /\ UNCHANGED died

(* The endpoint answered, so the breaker hears of a success whatever the   *)
(* status was.                                                             *)
Answered(c, result) ==
  /\ call' = [call EXCEPT ![c] = settled(@, result)]
  /\ breaker' = [breaker EXCEPT ![call[c].key] = onSuccess(@)]
  /\ UNCHANGED died

(* No response, and no retry left: the breaker hears of a failure.         *)
GaveUp(c, result) ==
  LET k == call[c].key IN
  /\ call' = [call EXCEPT ![c] = settled(@, result)]
  /\ breaker' = [breaker EXCEPT ![k] = onFailure(@, now)]
  /\ died' = died \cup {k}

HandleResponse(c, status, header) ==
  LET failure == classifyStatus(status)
      stated == parseRetryAfterMs(header, now)
  IN
  \/ /\ ~isError(status) \/ failure.kind = "terminal-4xx"
     /\ Answered(c, "response")
  \/ /\ isError(status) /\ failure.kind = "fatal-auth"
     /\ Answered(c, "fatal-auth")
  \/ /\ isError(status) /\ retryable(failure) /\ ~canRetry(call[c], failure)
     /\ Answered(c, "response")
  \/ /\ isError(status) /\ canRetry(call[c], failure)
     /\ \/ /\ stated > MaxRetryWaitMs
           /\ Answered(c, "retry-wait-exceeded")
        \/ /\ stated <= MaxRetryWaitMs
           /\ \E wait \in retryWaits(failure, stated, call[c].retriesUsed) :
                IF wouldOverrunDeadline(wait)
                  THEN Answered(c, "deadline-exceeded")
                  ELSE Backoff(c, wait)

HandleThrown(c, kind) ==
  LET failure == classifyThrown(kind) IN
  \/ /\ ~canRetry(call[c], failure)
     /\ GaveUp(c, "exhausted")
  \/ /\ canRetry(call[c], failure)
     /\ \E wait \in backoffWaits(call[c].retriesUsed) :
          IF wouldOverrunDeadline(wait)
            THEN GaveUp(c, "deadline-exceeded")
            ELSE Backoff(c, wait)

(***************************************************************************)
(* The server and the network (external).  A 429 or a 503 says that the    *)
(* request was not performed; after any other answer, and after none, it   *)
(* may have been.  The answer that beats the abort to the event loop wins, *)
(* so a response may arrive at or after the timer's time.                  *)
(***************************************************************************)
unprocessed(status) == status \in {429, 503}

Performed(c, may) ==
  \/ UNCHANGED applied
  \/ may /\ applied' = [applied EXCEPT ![c] = @ + 1]

Respond(c) ==
  /\ call[c].phase = "inflight"
  /\ \E status \in Statuses, header \in RetryAfters :
       /\ HandleResponse(c, status, header)
       /\ Performed(c, ~unprocessed(status))
  /\ UNCHANGED <<now, bucket, chain, grants>>

Drop(c) ==
  /\ call[c].phase = "inflight"
  /\ HandleThrown(c, "network")
  /\ Performed(c, TRUE)
  /\ UNCHANGED <<now, bucket, chain, grants>>

(* Faulty: only the first attempt arms the timer.                          *)
FaultyAbort(c) ==
  /\ call[c].phase = "inflight"
  /\ TimeoutMs > 0
  /\ call[c].retriesUsed = 0
  /\ now >= call[c].wakeAt
  /\ HandleThrown(c, "timeout")
  /\ Performed(c, TRUE)
  /\ UNCHANGED <<now, bucket, chain, grants>>

(* withTimeout: the timer aborts the fetch.                                *)
Abort(c) ==
  /\ call[c].phase = "inflight"
  /\ TimeoutMs > 0
  /\ now >= call[c].wakeAt
  /\ HandleThrown(c, "timeout")
  /\ Performed(c, TRUE)
  /\ UNCHANGED <<now, bucket, chain, grants>>

(* The clock runs freely up to FreeClock, so that any timer may be served  *)
(* late; beyond that it runs as long as some timer waits for it.           *)
TimerPending ==
  \E c \in Calls : call[c].phase \in {"pacing", "inflight", "backoff"} /\ now < call[c].wakeAt

Tick ==
  /\ now < FreeClock \/ TimerPending
  /\ now' = now + 1
  /\ UNCHANGED <<breaker, bucket, chain, call, applied, died, grants>>

-----------------------------------------------------------------------------
Step(c) == \/ Issue(c) \/ Retry(c)
           \/ AcquireTurn(c) \/ AcquireWake(c)
           \/ Respond(c) \/ Drop(c) \/ Abort(c)

Next == Tick \/ \E c \in Calls : Step(c)

Spec == Init /\ [][Next]_vars

(* The event loop runs every ready microtask and every due timer, and time *)
(* passes.  Nothing makes the server answer.                               *)
Fairness ==
  /\ WF_vars(Tick)
  /\ \A c \in Calls : WF_vars(Retry(c) \/ AcquireTurn(c) \/ AcquireWake(c) \/ Abort(c))

FairSpec == Spec /\ Fairness

-----------------------------------------------------------------------------
(***************************************************************************)
(* Properties.                                                             *)
(***************************************************************************)
(* The state has its type; in particular no bucket is ever overdrawn.      *)
TypeOK ==
  /\ now \in Nat
  /\ breaker \in [Keys -> Entry]
  /\ bucket \in [Keys -> Bucket]
  /\ chain \in [Keys -> Seq(Calls)]
  /\ call \in [Calls -> CallState]
  /\ applied \in [Calls -> Nat]
  /\ died \subseteq Keys
  /\ grants \in [Keys -> Seq([by : Calls, at : Nat])]

mutation(c) == call[c].method \notin IDEMPOTENT_METHODS

(* The breaker tracks reachability, not error rate (circuit-breaker.ts     *)
(* 13-16): on a key whose every request was answered, with whatever        *)
(* status, or is still being retried, it never leaves closed.              *)
ErrorsNeverTrip == \A k \in Keys \ died : breaker[k].state = "closed"

(* The breaker is away from closed exactly when its count of consecutive   *)
(* failures has reached the threshold, however successes and failures of   *)
(* concurrent calls, sent before and after it opened, interleave.          *)
TripsExactlyAtThreshold ==
  \A k \in Keys : breaker[k].state # "closed" <=> breaker[k].failures >= Threshold

(* Retries never duplicate a mutation: the server performs a POST or PATCH *)
(* at most once whatever mix of drops, timeouts and errors it meets        *)
(* (backoff.ts 5-9).                                                       *)
AtMostOnce == \A c \in Calls : mutation(c) => applied[c] <= 1

(* A mutation that fails because the circuit is open, the wait is too long *)
(* or the run's time is spent was never performed, although it may have    *)
(* been sent several times by then: the caller may safely submit it again. *)
FailedFastMeansNotApplied ==
  \A c \in Calls :
    /\ mutation(c)
    /\ call[c].result \in {"circuit-open", "retry-wait-exceeded", "deadline-exceeded"}
    => applied[c] = 0

(* The aggregate rate on a key never exceeds the configured one, however   *)
(* many callers draw from it (rate-governor.ts 4-9): any n consecutive     *)
(* sends span the time that earns all but a burst of their tokens.         *)
PacingRespected ==
  \A k \in Keys : \A i, j \in DOMAIN grants[k] :
    i <= j => (j - i + 1 - Burst) * TokenMs <= grants[k][j].at - grants[k][i].at

(* Acquires of a key are serialised (rate-governor.ts 7-9): only the oldest *)
(* waiter of a chain sleeps for a token, and no waiter falls off the chain. *)
AcquiresSerialised ==
  \A c \in Calls :
    LET queue == chain[call[c].key] IN
    /\ call[c].phase \in {"queued", "pacing"} => c \in {queue[i] : i \in DOMAIN queue}
    /\ call[c].phase = "pacing" => c = Head(queue)

(* When the run's time is spent, every call is at most one request away    *)
(* from its end: the one it may already have been pacing for.              *)
lateSends(c) ==
  {g \in UNION {{k} \X DOMAIN grants[k] : k \in Keys} :
     grants[g[1]][g[2]].by = c /\ grants[g[1]][g[2]].at >= TotalTimeoutMs}

AtMostOneLateSend ==
  hasDeadline => \A c \in Calls : Cardinality(lateSends(c)) <= 1

(* Every call that was issued settles: the timeouts, bounded retries and   *)
(* bounded waits end it even if the server never answers.                  *)
EveryCallSettles ==
  \A c \in Calls : call[c].phase # "idle" ~> call[c].phase = "settled"

(* What the SDK promises about a request, without breaker, governor, clock *)
(* and backoff: RequestContract, under the evident mapping.                *)
Contract == INSTANCE RequestContract WITH
  safeToRepeat <- [c \in Calls |-> ~mutation(c)],
  sends <- [c \in Calls |-> call[c].sends],
  awaiting <- [c \in Calls |-> call[c].phase = "inflight"],
  done <- [c \in Calls |-> call[c].phase = "settled"]

ImplementsContract == Contract!Spec
=============================================================================
