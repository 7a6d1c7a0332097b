------------------------- MODULE ResilientSendProofs ------------------------
(***************************************************************************)
(* What TLAPS proves of ResilientSend, for any number of calls and keys,   *)
(* any statuses and headers, and any configuration of the session.         *)
(***************************************************************************)
EXTENDS ResilientSend, TLAPS

(***************************************************************************)
(* The breaker's methods, on one entry.                                    *)
(***************************************************************************)
EntryInv(e) == e.state # "closed" <=> e.failures >= Threshold

LEMMA FreshEntry == freshEntry \in Entry /\ EntryInv(freshEntry)
  BY BreakerAssumption DEF freshEntry, Entry, BreakerState, EntryInv

(* canProceed only ever moves an entry from open to half-open.             *)
LEMMA AdmittedEntry ==
  ASSUME NEW e \in Entry, NEW t \in Nat
  PROVE  /\ admitted(e, t) \in Entry
         /\ EntryInv(e) => EntryInv(admitted(e, t))
         /\ e.state = "closed" => admitted(e, t) = e
         /\ admitted(e, t).failures = e.failures
  BY DEF admitted, Entry, BreakerState, EntryInv

LEMMA OnSuccessEntry ==
  ASSUME NEW e \in Entry
  PROVE  /\ onSuccess(e) \in Entry
         /\ EntryInv(onSuccess(e))
         /\ onSuccess(e).state = "closed"
         /\ onSuccess(e).failures = 0
<1>1. /\ onSuccess(e) \in Entry
      /\ onSuccess(e).state = "closed"
      /\ onSuccess(e).failures = 0
  BY DEF onSuccess, Entry, BreakerState
<1>2. EntryInv(onSuccess(e))
  BY <1>1, BreakerAssumption DEF EntryInv
<1>3. QED BY <1>1, <1>2

LEMMA OnFailureEntry ==
  ASSUME NEW e \in Entry, NEW t \in Nat
  PROVE  /\ onFailure(e, t) \in Entry
         /\ EntryInv(e) => EntryInv(onFailure(e, t))
  BY BreakerAssumption DEF onFailure, Entry, BreakerState, EntryInv

(***************************************************************************)
(* The bucket's arithmetic.                                                *)
(***************************************************************************)
BucketInv(b, t) == b.credit <= Capacity /\ b.lastRefillMs <= t

LEMMA CapacityType == Capacity \in Nat /\ TokenMs <= Capacity
  BY GovernorAssumption DEF Capacity

LEMMA RefillBucket ==
  ASSUME NEW b \in Bucket, NEW t \in Nat, BucketInv(b, t)
  PROVE  /\ refill(b, t) \in Bucket
         /\ BucketInv(refill(b, t), t)
         /\ refill(b, t).lastRefillMs = t
         /\ refill(b, t).credit <= b.credit + (t - b.lastRefillMs)
         /\ \/ refill(b, t).credit = Capacity
            \/ refill(b, t).credit = b.credit + (t - b.lastRefillMs)
  BY CapacityType DEF refill, Bucket, BucketInv

(* A wait lies in Nat, and canRetry leaves room for one more retry.        *)
LEMMA WaitsAreNat ==
  /\ \A n : backoffWaits(n) \subseteq Nat
  /\ \A header \in Header, t \in Nat :
       parseRetryAfterMs(header, t) \in Nat \cup {Unstated}
<1>1. \A n : backoffWaits(n) \subseteq Nat
  BY DEF backoffWaits
<1>2. ASSUME NEW header \in Header, NEW t \in Nat
      PROVE  parseRetryAfterMs(header, t) \in Nat \cup {Unstated}
  BY PolicyAssumption DEF parseRetryAfterMs, Header, Unstated
<1>3. QED BY <1>1, <1>2

(***************************************************************************)
(* The records of the calls.                                               *)
(***************************************************************************)
LEMMA SettledCall ==
  ASSUME NEW r \in CallState, NEW result \in Results
  PROVE  /\ settled(r, result) \in CallState
         /\ settled(r, result).phase = "settled"
         /\ settled(r, result).result = result
         /\ settled(r, result).key = r.key
         /\ settled(r, result).method = r.method
         /\ settled(r, result).retriesUsed = r.retriesUsed
         /\ settled(r, result).sends = r.sends
  BY DEF settled, CallState, Phases

LEMMA InflightCall ==
  ASSUME now \in Nat, NEW r \in CallState
  PROVE  /\ inflight(r) \in CallState
         /\ inflight(r).phase = "inflight"
         /\ inflight(r).result = r.result
         /\ inflight(r).key = r.key
         /\ inflight(r).method = r.method
         /\ inflight(r).retriesUsed = r.retriesUsed
         /\ inflight(r).sends = r.sends + 1
<1>1. now + TimeoutMs \in Nat /\ r.sends + 1 \in Nat
  BY SendAssumption DEF CallState
<1>2. inflight(r) \in CallState
  BY <1>1 DEF inflight, CallState, Phases
<1>3. QED BY <1>2 DEF inflight, CallState

-----------------------------------------------------------------------------
(***************************************************************************)
(* The inductive invariant, part by part.                                  *)
(***************************************************************************)
RetriesLeft ==
  \A c \in Calls : call[c].phase = "backoff" => call[c].retriesUsed < MaxRetries

BucketsFilled == \A k \in Keys : BucketInv(bucket[k], now)

(* The timer of a pacing call fires no earlier than its token is earned.   *)
CreditArrives ==
  \A c \in Calls :
    call[c].phase = "pacing" =>
      bucket[call[c].key].credit + (call[c].wakeAt - bucket[call[c].key].lastRefillMs)
        >= TokenMs

TypeInv == TypeOK /\ AcquiresSerialised /\ RetriesLeft /\ BucketsFilled /\ CreditArrives

LEMMA TypeInit == Init => TypeInv
<1> SUFFICES ASSUME Init PROVE TypeInv
  OBVIOUS
<1>1. freshBucket \in Bucket /\ BucketInv(freshBucket, 0)
  BY CapacityType DEF freshBucket, Bucket, BucketInv
<1>2. ASSUME NEW c \in Calls
      PROVE  call[c] \in CallState /\ call[c].phase = "idle"
  <2>1. PICK m \in Methods, k \in Keys :
          call[c] = [phase |-> "idle", method |-> m, key |-> k,
                     retriesUsed |-> 0, wakeAt |-> 0, sends |-> 0,
                     result |-> "none"]
    BY DEF Init
  <2>2. 0 \in 0 .. MaxRetries
    BY SendAssumption
  <2>3. QED BY <2>1, <2>2 DEF CallState, Phases, Results
<1>3. TypeOK
  <2>1. call \in [Calls -> CallState]
    BY <1>2 DEF Init
  <2>2. QED BY <1>1, <2>1, FreshEntry DEF Init, TypeOK
<1>4. AcquiresSerialised /\ RetriesLeft /\ CreditArrives
  BY <1>2 DEF AcquiresSerialised, RetriesLeft, CreditArrives
<1>5. BucketsFilled
  BY <1>1 DEF Init, BucketsFilled
<1>6. QED BY <1>3, <1>4, <1>5 DEF TypeInv

(* An attempt: the record it starts from.                                  *)
LEMMA AttemptStarts ==
  ASSUME TypeInv, NEW c \in Calls, Issue(c) \/ Retry(c)
  PROVE  \E r \in CallState :
           /\ r.key = call[c].key
           /\ r.method = call[c].method
           /\ r.sends = call[c].sends
           /\ r.result = call[c].result
           /\ r.phase \in {"idle", "backoff"}
           /\ r.phase = "idle" => r.retriesUsed = call[c].retriesUsed
           /\ r.phase = "backoff" => r.retriesUsed = call[c].retriesUsed + 1
           /\ call[c].phase = r.phase
           /\ Attempt(c, r)
           /\ UNCHANGED <<now, bucket, applied, died, grants>>
<1>1. CASE Issue(c)
  BY <1>1 DEF Issue, TypeInv, TypeOK
<1>2. CASE Retry(c)
  <2> DEFINE r == [call[c] EXCEPT !.retriesUsed = @ + 1]
  <2>1. call[c].phase = "backoff" /\ Attempt(c, r)
        /\ UNCHANGED <<now, bucket, applied, died, grants>>
    BY <1>2 DEF Retry
  <2>2. call[c] \in CallState /\ call[c].retriesUsed < MaxRetries
    BY <2>1 DEF TypeInv, TypeOK, RetriesLeft
  <2>3. r \in CallState
    BY <2>2, SendAssumption DEF CallState
  <2>4. /\ r.key = call[c].key /\ r.method = call[c].method
        /\ r.sends = call[c].sends /\ r.result = call[c].result
        /\ r.phase = call[c].phase /\ r.retriesUsed = call[c].retriesUsed + 1
    BY <2>2 DEF CallState
  <2> HIDE DEF r
  <2>5. QED BY <2>1, <2>3, <2>4
<1>3. QED BY <1>1, <1>2

FailFast == {"circuit-open", "retry-wait-exceeded", "deadline-exceeded"}

(* What an attempt leaves behind: q is the call's new record.              *)
AttemptLeaves(c, q) ==
  /\ q \in CallState
  /\ call[c].phase \in {"idle", "backoff"}
  /\ q.key = call[c].key /\ q.method = call[c].method
  /\ call' = [call EXCEPT ![c] = q]
  /\ UNCHANGED <<now, bucket, applied, died, grants>>
  /\ q.retriesUsed = call[c].retriesUsed + (IF call[c].phase = "backoff" THEN 1 ELSE 0)
  /\ \/ /\ q.phase = "settled" /\ q.result \in FailFast
        /\ q.sends = call[c].sends
        /\ UNCHANGED <<breaker, chain>>
     \/ /\ q.phase = "inflight" /\ q.result = call[c].result
        /\ q.sends = call[c].sends + 1
        /\ breaker' = [breaker EXCEPT ![q.key] = admitted(@, now)]
        /\ UNCHANGED chain
     \/ /\ q.phase = "queued" /\ q.result = call[c].result
        /\ q.sends = call[c].sends
        /\ breaker' = [breaker EXCEPT ![q.key] = admitted(@, now)]
        /\ chain' = [chain EXCEPT ![q.key] = Append(@, c)]

LEMMA AttemptOutcome ==
  ASSUME TypeInv, NEW c \in Calls, Issue(c) \/ Retry(c)
  PROVE  \E q : AttemptLeaves(c, q)
<1>1. PICK r \in CallState :
           /\ r.key = call[c].key
           /\ r.method = call[c].method
           /\ r.sends = call[c].sends
           /\ r.result = call[c].result
           /\ r.phase \in {"idle", "backoff"}
           /\ r.phase = "idle" => r.retriesUsed = call[c].retriesUsed
           /\ r.phase = "backoff" => r.retriesUsed = call[c].retriesUsed + 1
           /\ call[c].phase = r.phase
           /\ Attempt(c, r)
           /\ UNCHANGED <<now, bucket, applied, died, grants>>
  BY AttemptStarts
<1> DEFINE adm == [r EXCEPT !.phase = "queued", !.wakeAt = 0]
           same(q) == q.key = r.key /\ q.method = r.method /\ q.retriesUsed = r.retriesUsed
<1>2. now \in Nat /\ r.retriesUsed \in Nat /\ call[c].retriesUsed \in Nat
  BY DEF TypeInv, TypeOK, CallState
<1>3. /\ adm \in CallState /\ same(adm) /\ adm.phase = "queued"
      /\ adm.sends = r.sends /\ adm.result = r.result
  BY DEF CallState, Phases
<1> HIDE DEF adm
<1>4. \/ \E result \in FailFast :
           call' = [call EXCEPT ![c] = settled(r, result)] /\ UNCHANGED <<breaker, chain>>
      \/ /\ breaker' = [breaker EXCEPT ![r.key] = admitted(@, now)]
         /\ \/ call' = [call EXCEPT ![c] = inflight(adm)] /\ UNCHANGED chain
            \/ /\ call' = [call EXCEPT ![c] = adm]
               /\ chain' = [chain EXCEPT ![r.key] = Append(@, c)]
  BY <1>1 DEF Attempt, FailFast, adm
<1>5. ASSUME NEW result \in FailFast,
             call' = [call EXCEPT ![c] = settled(r, result)], UNCHANGED <<breaker, chain>>
      PROVE  AttemptLeaves(c, settled(r, result))
  <2>1. result \in Results
    BY DEF FailFast, Results
  <2>2. QED BY <1>1, <1>2, <1>5, <2>1, SettledCall DEF AttemptLeaves
<1>6. ASSUME breaker' = [breaker EXCEPT ![r.key] = admitted(@, now)],
             call' = [call EXCEPT ![c] = inflight(adm)], UNCHANGED chain
      PROVE  AttemptLeaves(c, inflight(adm))
  <2>1. /\ inflight(adm) \in CallState /\ same(inflight(adm))
        /\ inflight(adm).phase = "inflight" /\ inflight(adm).result = r.result
        /\ inflight(adm).sends = r.sends + 1
    BY <1>2, <1>3, InflightCall
  <2>2. QED BY <1>1, <1>2, <1>6, <2>1 DEF AttemptLeaves
<1>7. ASSUME breaker' = [breaker EXCEPT ![r.key] = admitted(@, now)],
             call' = [call EXCEPT ![c] = adm],
             chain' = [chain EXCEPT ![r.key] = Append(@, c)]
      PROVE  AttemptLeaves(c, adm)
  BY <1>1, <1>2, <1>3, <1>7 DEF AttemptLeaves
<1>8. QED BY <1>4, <1>5, <1>6, <1>7

(* What a turn at the governor leaves behind.                              *)
AcquireLeaves(c, k, b) ==
  /\ k = call[c].key /\ b = refill(bucket[k], now)
  /\ call[c].phase \in {"queued", "pacing"}
  /\ chain[k] # <<>> /\ c = Head(chain[k])
  /\ b.credit \in Nat
  /\ UNCHANGED <<now, breaker, applied, died>>
  /\ \/ hasToken(b) /\ Send(c, k, b)
     \/ /\ call[c].phase = "queued" /\ b.credit < TokenMs
        /\ bucket' = [bucket EXCEPT ![k] = b]
        /\ call' = [call EXCEPT ![c].phase = "pacing", ![c].wakeAt = now + waitMs(b)]
        /\ UNCHANGED <<chain, grants>>

LEMMA AcquireOutcome ==
  ASSUME TypeInv, NEW c \in Calls, AcquireTurn(c) \/ AcquireWake(c)
  PROVE  AcquireLeaves(c, call[c].key, refill(bucket[call[c].key], now))
<1> DEFINE k == call[c].key
           b == refill(bucket[k], now)
<1>1. /\ k \in Keys /\ now \in Nat /\ bucket[k] \in Bucket /\ BucketInv(bucket[k], now)
      /\ chain[k] \in Seq(Calls) /\ call[c].wakeAt \in Nat
  BY DEF TypeInv, TypeOK, CallState, BucketsFilled
<1>2. b.credit \in Nat /\ b.lastRefillMs = now
  BY <1>1, RefillBucket DEF Bucket
<1>3. TokenMs \in Nat /\ TokenMs <= Capacity
  BY GovernorAssumption, CapacityType
<1>4. call[c].phase \in {"queued", "pacing"} => chain[k] # <<>>
  BY <1>1 DEF TypeInv, AcquiresSerialised
<1>5. CASE AcquireTurn(c)
  <2>1. call[c].phase = "queued" /\ c = Head(chain[k]) /\ UNCHANGED <<now, breaker, applied, died>>
    BY <1>5 DEF AcquireTurn
  <2>2. \/ hasToken(b) /\ Send(c, k, b)
        \/ /\ ~hasToken(b)
           /\ bucket' = [bucket EXCEPT ![k] = b]
           /\ call' = [call EXCEPT ![c].phase = "pacing", ![c].wakeAt = now + waitMs(b)]
           /\ UNCHANGED <<chain, grants>>
    BY <1>5 DEF AcquireTurn
  <2>3. ~hasToken(b) => b.credit < TokenMs
    BY <1>2, <1>3 DEF hasToken
  <2>4. QED BY <2>1, <2>2, <2>3, <1>2, <1>4 DEF AcquireLeaves
<1>6. CASE AcquireWake(c)
  <2>1. call[c].phase = "pacing" /\ now >= call[c].wakeAt
        /\ Send(c, k, b) /\ UNCHANGED <<now, breaker, applied, died>>
    BY <1>6 DEF AcquireWake
  <2>2. c = Head(chain[k])
    BY <2>1 DEF TypeInv, AcquiresSerialised
  <2>3. bucket[k].credit + (call[c].wakeAt - bucket[k].lastRefillMs) >= TokenMs
    BY <2>1 DEF TypeInv, CreditArrives
  <2>4. bucket[k].credit \in Nat /\ bucket[k].lastRefillMs \in Nat
    BY <1>1 DEF Bucket
  <2>5. bucket[k].credit + (now - bucket[k].lastRefillMs) >= TokenMs
    BY <2>1, <2>3, <2>4, <1>1, <1>3
  <2>6. hasToken(b)
    BY <2>5, <1>1, <1>2, <1>3, RefillBucket DEF hasToken
  <2>7. QED BY <2>1, <2>2, <2>6, <1>1, <1>2, <1>4 DEF AcquireLeaves
<1>7. QED BY <1>5, <1>6

(* What the end of an attempt leaves behind: an outcome that promises that *)
(* the mutation was not performed comes with an unchanged server.          *)
EndLeaves(c) ==
  /\ call[c].phase = "inflight"
  /\ UNCHANGED <<now, bucket, chain, grants>>
  /\ applied' = applied \/ applied' = [applied EXCEPT ![c] = @ + 1]
  /\ \/ \E result \in Results :
          /\ Answered(c, result) \/ GaveUp(c, result)
          /\ mutation(c) /\ result \in FailFast => applied' = applied
     \/ \E wait \in Nat :
          /\ Backoff(c, wait)
          /\ call[c].retriesUsed < MaxRetries
          /\ mutation(c) => applied' = applied

LEMMA RetryWaitsAreNat ==
  ASSUME NEW failure, NEW stated \in Nat \cup {Unstated}, NEW attempt
  PROVE  retryWaits(failure, stated, attempt) \subseteq Nat
<1>1. DefaultRetryWaitMs \in Nat
  BY PolicyAssumption
<1>2. backoffWaits(attempt) \subseteq Nat
  BY WaitsAreNat
<1>3. QED BY <1>1, <1>2 DEF retryWaits

LEMMA RespondOutcome ==
  ASSUME TypeInv, NEW c \in Calls, Respond(c)
  PROVE  EndLeaves(c)
<1>1. PICK status \in Statuses, header \in RetryAfters :
        /\ HandleResponse(c, status, header)
        /\ Performed(c, ~unprocessed(status))
  BY DEF Respond
<1>2. call[c].phase = "inflight" /\ UNCHANGED <<now, bucket, chain, grants>>
  BY DEF Respond
<1>3. /\ applied' = applied \/ applied' = [applied EXCEPT ![c] = @ + 1]
      /\ status \in NOT_PROCESSED_STATUSES => applied' = applied
  BY <1>1 DEF Performed, unprocessed, NOT_PROCESSED_STATUSES
<1> DEFINE failure == classifyStatus(status)
           stated == parseRetryAfterMs(header, now)
<1>4. failure.status = status
  BY DEF classifyStatus
<1>5. stated \in Nat \cup {Unstated}
  BY WaitsAreNat, SendAssumption DEF TypeInv, TypeOK
<1>6. ASSUME canRetry(call[c], failure)
      PROVE  /\ call[c].retriesUsed < MaxRetries
             /\ mutation(c) => applied' = applied
  BY <1>3, <1>4, <1>6 DEF canRetry, shouldRetry, mutation
<1>7. \/ \E result \in Results \ FailFast : Answered(c, result)
      \/ /\ canRetry(call[c], failure)
         /\ \/ \E result \in FailFast : Answered(c, result)
            \/ \E wait \in retryWaits(failure, stated, call[c].retriesUsed) : Backoff(c, wait)
  BY <1>1 DEF HandleResponse, Results, FailFast
<1> HIDE DEF failure, stated
<1>8. \A wait \in retryWaits(failure, stated, call[c].retriesUsed) : wait \in Nat
  BY <1>5, RetryWaitsAreNat
<1>9. FailFast \subseteq Results
  BY DEF FailFast, Results
<1>10. QED BY <1>2, <1>3, <1>6, <1>7, <1>8, <1>9 DEF EndLeaves

LEMMA ThrownOutcome ==
  ASSUME TypeInv, NEW c \in Calls, Drop(c) \/ Abort(c)
  PROVE  EndLeaves(c)
<1>1. PICK kind \in {"network", "timeout"} : HandleThrown(c, kind)
  BY DEF Drop, Abort
<1>2. /\ call[c].phase = "inflight" /\ UNCHANGED <<now, bucket, chain, grants>>
      /\ applied' = applied \/ applied' = [applied EXCEPT ![c] = @ + 1]
  BY DEF Drop, Abort, Performed
<1> DEFINE failure == classifyThrown(kind)
<1>3. canRetry(call[c], failure) => ~mutation(c) /\ call[c].retriesUsed < MaxRetries
  BY DEF canRetry, shouldRetry, classifyThrown, NoStatus, NOT_PROCESSED_STATUSES, mutation
<1>4. \/ GaveUp(c, "exhausted")
      \/ /\ canRetry(call[c], failure)
         /\ \/ GaveUp(c, "deadline-exceeded")
            \/ \E wait \in backoffWaits(call[c].retriesUsed) : Backoff(c, wait)
  BY <1>1 DEF HandleThrown
<1> HIDE DEF failure
<1>5. \A wait \in backoffWaits(call[c].retriesUsed) : wait \in Nat
  BY WaitsAreNat
<1>6. {"exhausted", "deadline-exceeded"} \subseteq Results /\ "exhausted" \notin FailFast
  BY DEF FailFast, Results
<1>7. QED BY <1>2, <1>3, <1>4, <1>5, <1>6 DEF EndLeaves

-----------------------------------------------------------------------------
(***************************************************************************)
(* Each kind of step keeps the typing invariant.                           *)
(***************************************************************************)
LEMMA AttemptKeepsTypeInv ==
  ASSUME TypeInv, NEW c \in Calls, NEW q, AttemptLeaves(c, q)
  PROVE  TypeInv'
<1> DEFINE k == q.key
<1>1. /\ q \in CallState /\ k \in Keys /\ k = call[c].key
      /\ q.phase \in {"settled", "inflight", "queued"}
      /\ call[c].phase \in {"idle", "backoff"}
      /\ call' = [call EXCEPT ![c] = q]
      /\ UNCHANGED <<now, bucket, applied, died, grants>>
  BY DEF AttemptLeaves, CallState
<1>2. breaker' = breaker \/ breaker' = [breaker EXCEPT ![k] = admitted(@, now)]
  BY DEF AttemptLeaves
<1>3. \/ q.phase # "queued" /\ chain' = chain
      \/ q.phase = "queued" /\ chain' = [chain EXCEPT ![k] = Append(@, c)]
  BY DEF AttemptLeaves
<1>4. TypeOK /\ call \in [Calls -> CallState] /\ chain \in [Keys -> Seq(Calls)]
  BY DEF TypeInv, TypeOK
<1>5. TypeOK'
  <2>1. breaker' \in [Keys -> Entry]
    <3>1. breaker \in [Keys -> Entry] /\ now \in Nat
      BY <1>4 DEF TypeOK
    <3>2. admitted(breaker[k], now) \in Entry
      BY <3>1, <1>1, AdmittedEntry
    <3>3. QED BY <3>1, <3>2, <1>1, <1>2
  <2>2. chain' \in [Keys -> Seq(Calls)]
    <3>1. Append(chain[k], c) \in Seq(Calls)
      BY <1>1, <1>4
    <3>2. QED BY <3>1, <1>1, <1>3, <1>4
  <2>3. call' \in [Calls -> CallState]
    BY <1>1, <1>4
  <2>4. QED BY <1>1, <1>4, <2>1, <2>2, <2>3 DEF TypeOK
<1>6. \A d \in Calls : d # c => call'[d] = call[d]
  BY <1>1, <1>4
<1>7. call'[c] = q
  BY <1>1, <1>4
<1>8. AcquiresSerialised'
  <2> SUFFICES ASSUME NEW d \in Calls, call'[d].phase \in {"queued", "pacing"}
               PROVE  LET queue == chain'[call'[d].key] IN
                      /\ d \in {queue[i] : i \in DOMAIN queue}
                      /\ call'[d].phase = "pacing" => d = Head(queue)
    BY DEF AcquiresSerialised
  <2> DEFINE kd == call'[d].key
  <2>1. CASE d = c
    <3>1. q.phase = "queued" /\ kd = k /\ chain'[k] = Append(chain[k], c)
      BY <1>1, <1>3, <1>4, <1>7, <2>1
    <3>2. chain[k] \in Seq(Calls)
      BY <1>1, <1>4
    <3>3. /\ Len(chain[k]) + 1 \in DOMAIN Append(chain[k], c)
          /\ Append(chain[k], c)[Len(chain[k]) + 1] = c
      BY <3>2
    <3>4. QED BY <1>7, <2>1, <3>1, <3>3
  <2>2. CASE d # c
    <3>1. call'[d] = call[d] /\ kd \in Keys
      BY <1>4, <1>6, <2>2 DEF CallState
    <3>2. PICK i \in DOMAIN chain[kd] : chain[kd][i] = d
      BY <3>1 DEF TypeInv, AcquiresSerialised
    <3>3. call'[d].phase = "pacing" => d = Head(chain[kd])
      BY <3>1 DEF TypeInv, AcquiresSerialised
    <3>4. chain'[kd] = chain[kd] \/ chain'[kd] = Append(chain[kd], c)
      BY <1>3, <1>4, <3>1
    <3>5. chain[kd] \in Seq(Calls)
      BY <3>1, <1>4
    <3> HIDE DEF kd
    <3>6. i \in DOMAIN chain'[kd] /\ chain'[kd][i] = d /\ Head(chain'[kd]) = Head(chain[kd])
      BY <3>2, <3>4, <3>5
    <3>7. QED BY <3>3, <3>6 DEF kd
  <2>3. QED BY <2>1, <2>2
<1>9. RetriesLeft' /\ CreditArrives'
  BY <1>1, <1>6, <1>7 DEF RetriesLeft, CreditArrives, TypeInv
<1>10. BucketsFilled'
  BY <1>1 DEF BucketsFilled, TypeInv
<1>11. QED BY <1>5, <1>8, <1>9, <1>10 DEF TypeInv

LEMMA EndKeepsTypeInv ==
  ASSUME TypeInv, NEW c \in Calls, EndLeaves(c)
  PROVE  TypeInv'
<1>1. /\ TypeOK /\ call \in [Calls -> CallState] /\ breaker \in [Keys -> Entry]
      /\ call[c] \in CallState /\ call[c].key \in Keys /\ now \in Nat
      /\ UNCHANGED <<now, bucket, chain, grants>>
  BY DEF TypeInv, TypeOK, EndLeaves, CallState
<1>2. applied' \in [Calls -> Nat]
  BY DEF TypeInv, TypeOK, EndLeaves
<1>4. ASSUME NEW q \in CallState, call' = [call EXCEPT ![c] = q],
             q.phase \in {"settled", "backoff"},
             q.phase = "backoff" => q.retriesUsed < MaxRetries
      PROVE  /\ call' \in [Calls -> CallState]
             /\ AcquiresSerialised' /\ RetriesLeft' /\ CreditArrives' /\ BucketsFilled'
  <2>1. call' \in [Calls -> CallState] /\ call'[c] = q /\ \A d \in Calls \ {c} : call'[d] = call[d]
    BY <1>1, <1>4
  <2>2. AcquiresSerialised'
    BY <1>1, <1>4, <2>1 DEF TypeInv, AcquiresSerialised
  <2>3. RetriesLeft' /\ CreditArrives'
    BY <1>1, <1>4, <2>1 DEF TypeInv, RetriesLeft, CreditArrives
  <2>4. BucketsFilled'
    BY <1>1 DEF TypeInv, BucketsFilled
  <2>5. QED BY <2>1, <2>2, <2>3, <2>4
<1>5. ASSUME NEW result \in Results, Answered(c, result) \/ GaveUp(c, result)
      PROVE  TypeInv'
  <2>1. /\ settled(call[c], result) \in CallState
        /\ settled(call[c], result).phase = "settled"
    BY <1>1, SettledCall
  <2>2. call' = [call EXCEPT ![c] = settled(call[c], result)]
    BY <1>5, <1>1 DEF Answered, GaveUp
  <2>3. breaker' \in [Keys -> Entry]
    BY <1>1, <1>5, OnSuccessEntry, OnFailureEntry DEF Answered, GaveUp
  <2>4. died' \subseteq Keys
    BY <1>1, <1>5 DEF Answered, GaveUp, TypeOK
  <2>5. QED BY <1>1, <1>2, <1>4, <2>1, <2>2, <2>3, <2>4 DEF TypeInv, TypeOK
<1>6. ASSUME NEW wait \in Nat, Backoff(c, wait), call[c].retriesUsed < MaxRetries
      PROVE  TypeInv'
  <2> DEFINE q == [call[c] EXCEPT !.phase = "backoff", !.wakeAt = now + wait]
  <2>1. now + wait \in Nat
    BY <1>1
  <2>2. q \in CallState
    BY <1>1, <2>1 DEF CallState, Phases
  <2>3. q.phase = "backoff" /\ q.retriesUsed = call[c].retriesUsed
    BY <1>1 DEF CallState
  <2>4. call' = [call EXCEPT ![c] = q] /\ UNCHANGED <<breaker, died>>
    BY <1>1, <1>6 DEF Backoff
  <2> HIDE DEF q
  <2>5. QED BY <1>1, <1>2, <1>4, <1>6, <2>2, <2>3, <2>4 DEF TypeInv, TypeOK
<1>7. QED BY <1>5, <1>6 DEF EndLeaves

LEMMA AcquireKeepsTypeInv ==
  ASSUME TypeInv, NEW c \in Calls, NEW k, NEW b, AcquireLeaves(c, k, b)
  PROVE  TypeInv'
<1>1. /\ call \in [Calls -> CallState] /\ chain \in [Keys -> Seq(Calls)]
      /\ bucket \in [Keys -> Bucket] /\ grants \in [Keys -> Seq([by : Calls, at : Nat])]
      /\ call[c] \in CallState /\ k \in Keys /\ k = call[c].key /\ now \in Nat
      /\ bucket[k] \in Bucket /\ BucketInv(bucket[k], now)
  BY DEF AcquireLeaves, TypeInv, TypeOK, CallState, BucketsFilled
<1>2. b \in Bucket /\ BucketInv(b, now) /\ b.lastRefillMs = now
  BY <1>1, RefillBucket DEF AcquireLeaves
<1>3. /\ call[c].phase \in {"queued", "pacing"}
      /\ chain[k] # <<>> /\ c = Head(chain[k]) /\ chain[k] \in Seq(Calls)
      /\ UNCHANGED <<now, breaker, applied, died>>
  BY <1>1 DEF AcquireLeaves
<1>4. TokenMs \in Nat
  BY GovernorAssumption
(* Whatever the turn does, a waiter of the same key is not served.         *)
<1>5. ASSUME NEW q \in CallState, call' = [call EXCEPT ![c] = q], q.key = k,
             NEW b2 \in Bucket, BucketInv(b2, now), bucket' = [bucket EXCEPT ![k] = b2],
             \/ /\ q.phase = "inflight" /\ chain' = [chain EXCEPT ![k] = Tail(@)]
                /\ grants' = [grants EXCEPT ![k] = Append(@, [by |-> c, at |-> now])]
             \/ /\ q.phase = "pacing" /\ chain' = chain /\ grants' = grants
                /\ b2.credit + (q.wakeAt - b2.lastRefillMs) >= TokenMs
      PROVE  TypeInv'
  <2>1. /\ call' \in [Calls -> CallState] /\ call'[c] = q
        /\ \A d \in Calls \ {c} : call'[d] = call[d]
    BY <1>1, <1>5
  <2>2. /\ bucket' \in [Keys -> Bucket] /\ bucket'[k] = b2
        /\ \A j \in Keys \ {k} : bucket'[j] = bucket[j]
    BY <1>1, <1>5
  <2>3. chain' \in [Keys -> Seq(Calls)] /\ \A j \in Keys \ {k} : chain'[j] = chain[j]
    <3>1. Tail(chain[k]) \in Seq(Calls)
      BY <1>3
    <3>2. QED BY <3>1, <1>1, <1>5
  <2>4. grants' \in [Keys -> Seq([by : Calls, at : Nat])]
    <3>1. [by |-> c, at |-> now] \in [by : Calls, at : Nat]
      BY <1>1
    <3>2. \A S, s, x : s \in Seq(S) /\ x \in S => Append(s, x) \in Seq(S)
      OBVIOUS
    <3>3. Append(grants[k], [by |-> c, at |-> now]) \in Seq([by : Calls, at : Nat])
      <4>1. grants[k] \in Seq([by : Calls, at : Nat])
        BY <1>1
      <4>2. QED BY <3>1, <3>2, <4>1, Zenon
    <3>4. QED BY <3>3, <1>1, <1>5
  <2>5. TypeOK'
    BY <1>3, <2>1, <2>2, <2>3, <2>4 DEF TypeInv, TypeOK
  (* c is the head of its chain, so no other call of the key is pacing.    *)
  <2>6. ASSUME NEW d \in Calls \ {c}, call[d].phase = "pacing"
        PROVE  call[d].key \in Keys \ {k}
    <3>1. call[d].key \in Keys
      BY <1>1, <2>6 DEF CallState
    <3>2. d = Head(chain[call[d].key])
      BY <2>6 DEF TypeInv, AcquiresSerialised
    <3>3. QED BY <3>1, <3>2, <1>3
  <2>7. AcquiresSerialised'
    <3> SUFFICES ASSUME NEW d \in Calls, call'[d].phase \in {"queued", "pacing"}
                 PROVE  LET queue == chain'[call'[d].key] IN
                        /\ d \in {queue[i] : i \in DOMAIN queue}
                        /\ call'[d].phase = "pacing" => d = Head(queue)
      BY DEF AcquiresSerialised
    <3>1. CASE d = c
      <4>1. q.phase = "pacing" /\ chain'[k] = chain[k]
        BY <1>5, <2>1, <3>1
      <4>2. c = chain[k][1] /\ 1 \in DOMAIN chain[k]
        BY <1>3
      <4>3. QED BY <4>1, <4>2, <1>3, <1>5, <2>1, <3>1
    <3>2. CASE d # c
      <4>1. call'[d] = call[d] /\ call[d].key \in Keys /\ chain[call[d].key] \in Seq(Calls)
        BY <1>1, <2>1, <3>2 DEF CallState
      <4>2. PICK i \in DOMAIN chain[call[d].key] : chain[call[d].key][i] = d
        BY <4>1 DEF TypeInv, AcquiresSerialised
      <4>3. call[d].phase = "pacing" => d = Head(chain[call[d].key])
        BY <4>1 DEF TypeInv, AcquiresSerialised
      <4>4. CASE chain'[call[d].key] = chain[call[d].key]
        BY <4>1, <4>2, <4>3, <4>4
      <4>5. CASE chain'[call[d].key] # chain[call[d].key]
        <5>1. call[d].key = k /\ chain'[k] = Tail(chain[k]) /\ call[d].phase # "pacing"
          BY <4>1, <4>5, <1>1, <1>5, <2>3, <2>6, <3>2
        <5>2. i # 1
          BY <4>2, <5>1, <1>3, <3>2
        <5>3. i - 1 \in DOMAIN Tail(chain[k]) /\ Tail(chain[k])[i - 1] = d
          BY <4>2, <5>1, <5>2, <1>3
        <5>4. QED BY <4>1, <5>1, <5>3
      <4>6. QED BY <4>4, <4>5
    <3>3. QED BY <3>1, <3>2
  <2>8. RetriesLeft'
    BY <1>5, <2>1 DEF TypeInv, RetriesLeft
  <2>9. CreditArrives'
    <3> SUFFICES ASSUME NEW d \in Calls, call'[d].phase = "pacing"
                 PROVE  bucket'[call'[d].key].credit
                          + (call'[d].wakeAt - bucket'[call'[d].key].lastRefillMs) >= TokenMs
      BY DEF CreditArrives
    <3>1. CASE d = c
      BY <3>1, <1>5, <2>1, <2>2
    <3>2. CASE d # c
      BY <3>2, <2>1, <2>2, <2>6 DEF TypeInv, CreditArrives
    <3>3. QED BY <3>1, <3>2
  <2>10. BucketsFilled'
    BY <1>1, <1>3, <1>5, <2>2 DEF TypeInv, BucketsFilled
  <2>11. QED BY <2>5, <2>7, <2>8, <2>9, <2>10 DEF TypeInv
<1>6. CASE hasToken(b) /\ Send(c, k, b)
  <2>1. spend(b) \in Bucket /\ BucketInv(spend(b), now)
    <3>1. b.credit \in Nat /\ b.credit >= TokenMs /\ b.credit <= Capacity /\ Capacity \in Nat
      BY <1>2, <1>6, CapacityType DEF hasToken, Bucket, BucketInv
    <3>2. b.credit - TokenMs \in Nat /\ b.credit - TokenMs <= Capacity
      BY <3>1, <1>4
    <3>3. spend(b) \in Bucket
      BY <1>2, <3>2 DEF spend, Bucket
    <3>4. spend(b).credit = b.credit - TokenMs /\ spend(b).lastRefillMs = now
      BY <1>2 DEF spend, Bucket
    <3>5. QED BY <3>2, <3>3, <3>4, <1>1 DEF BucketInv
  <2>2. /\ inflight(call[c]) \in CallState /\ inflight(call[c]).key = k
        /\ inflight(call[c]).phase = "inflight"
    BY <1>1, InflightCall
  <2>3. /\ call' = [call EXCEPT ![c] = inflight(call[c])]
        /\ bucket' = [bucket EXCEPT ![k] = spend(b)]
        /\ chain' = [chain EXCEPT ![k] = Tail(@)]
        /\ grants' = [grants EXCEPT ![k] = Append(@, [by |-> c, at |-> now])]
    BY <1>1, <1>6 DEF Send
  <2>4. QED BY <1>5, <2>1, <2>2, <2>3
<1>7. ASSUME b.credit < TokenMs, bucket' = [bucket EXCEPT ![k] = b],
             call' = [call EXCEPT ![c].phase = "pacing", ![c].wakeAt = now + waitMs(b)],
             UNCHANGED <<chain, grants>>
      PROVE  TypeInv'
  <2> DEFINE q == [call[c] EXCEPT !.phase = "pacing", !.wakeAt = now + waitMs(b)]
  <2>1. now + waitMs(b) \in Nat /\ b.credit + (now + waitMs(b) - now) >= TokenMs
    BY <1>1, <1>2, <1>4, <1>7 DEF waitMs, Bucket
  <2>2. q \in CallState
    BY <1>1, <2>1 DEF CallState, Phases
  <2>3. q.phase = "pacing" /\ q.wakeAt = now + waitMs(b) /\ q.key = k
    BY <1>1 DEF CallState
  <2>4. call' = [call EXCEPT ![c] = q]
    BY <1>1, <1>7
  <2> HIDE DEF q
  <2>5. b.credit + (q.wakeAt - b.lastRefillMs) >= TokenMs
    <3>1. /\ b.credit \in Nat /\ q.wakeAt \in Nat /\ b.lastRefillMs = now
          /\ q.wakeAt = now + waitMs(b) /\ b.credit < TokenMs
      BY <1>2, <1>7, <2>1, <2>3 DEF Bucket
    <3>2. q.wakeAt = now + (TokenMs - b.credit)
      BY <3>1 DEF waitMs
    <3>3. QED BY <3>1, <3>2, <1>1, <1>4
  <2>6. QED BY <1>2, <1>5, <1>7, <2>2, <2>3, <2>4, <2>5
<1>8. QED BY <1>6, <1>7 DEF AcquireLeaves

LEMMA TickKeepsTypeInv ==
  ASSUME TypeInv, Tick \/ UNCHANGED vars
  PROVE  TypeInv'
<1>1. /\ now' = now + 1 \/ now' = now
      /\ UNCHANGED <<breaker, bucket, chain, call, applied, died, grants>>
  BY DEF Tick, vars
<1>2. now \in Nat /\ bucket \in [Keys -> Bucket]
  BY DEF TypeInv, TypeOK
<1>3. TypeOK'
  <2>1. now' \in Nat
    BY <1>1, <1>2
  <2>2. QED BY <1>1, <2>1 DEF TypeInv, TypeOK
<1>4. AcquiresSerialised' /\ RetriesLeft' /\ CreditArrives'
  BY <1>1 DEF TypeInv, AcquiresSerialised, RetriesLeft, CreditArrives
<1>5. BucketsFilled'
  BY <1>1, <1>2 DEF TypeInv, BucketsFilled, BucketInv, Bucket
<1>6. QED BY <1>3, <1>4, <1>5 DEF TypeInv

(* The three kinds of step, and the clock.                                 *)
LEMMA StepOutcome ==
  ASSUME TypeInv, [Next]_vars
  PROVE  \/ \E c \in Calls : \E q : AttemptLeaves(c, q)
         \/ \E c \in Calls : \E k, b : AcquireLeaves(c, k, b)
         \/ \E c \in Calls : EndLeaves(c)
         \/ Tick \/ UNCHANGED vars
  BY AttemptOutcome, AcquireOutcome, RespondOutcome, ThrownOutcome DEF Next, Step

LEMMA TypeInvStep == TypeInv /\ [Next]_vars => TypeInv'
  BY StepOutcome, AttemptKeepsTypeInv, AcquireKeepsTypeInv, EndKeepsTypeInv, TickKeepsTypeInv

LEMMA TypeInvariant == Spec => []TypeInv
  BY TypeInit, TypeInvStep, PTL DEF Spec

(* The state is always typed: in particular no bucket is ever overdrawn,   *)
(* no call retries more often than MaxRetries, and a pacing call is always *)
(* the head of its chain.                                                  *)
THEOREM TypeCorrect == Spec => [](TypeOK /\ AcquiresSerialised)
<1>1. TypeInv => TypeOK /\ AcquiresSerialised
  BY DEF TypeInv
<1>2. QED BY <1>1, TypeInvariant, PTL

-----------------------------------------------------------------------------
(***************************************************************************)
(* The breaker.  A key nobody was given up on has never counted a failure. *)
(***************************************************************************)
BreakerInv ==
  \A k \in Keys : EntryInv(breaker[k]) /\ (k \notin died => breaker[k].failures = 0)

LEMMA BreakerStep == TypeInv /\ BreakerInv /\ [Next]_vars => BreakerInv'
<1> SUFFICES ASSUME TypeInv, BreakerInv, [Next]_vars
             PROVE  BreakerInv'
  OBVIOUS
<1>1. breaker \in [Keys -> Entry] /\ now \in Nat /\ call \in [Calls -> CallState]
  BY DEF TypeInv, TypeOK
<1>2. ASSUME NEW c \in Calls, NEW q, AttemptLeaves(c, q)
      PROVE  BreakerInv'
  <2>1. died' = died /\ q.key \in Keys
    BY <1>2 DEF AttemptLeaves, CallState
  <2>2. breaker' = breaker \/ breaker' = [breaker EXCEPT ![q.key] = admitted(@, now)]
    BY <1>2 DEF AttemptLeaves
  <2>3. \A k \in Keys : breaker'[k] = breaker[k] \/ breaker'[k] = admitted(breaker[k], now)
    BY <2>1, <2>2, <1>1
  <2>4. QED BY <2>1, <2>3, <1>1, AdmittedEntry DEF BreakerInv
<1>3. ASSUME NEW c \in Calls, NEW k, NEW b, AcquireLeaves(c, k, b)
      PROVE  BreakerInv'
  BY <1>3 DEF AcquireLeaves, BreakerInv
<1>4. ASSUME NEW c \in Calls, EndLeaves(c)
      PROVE  BreakerInv'
  <2>1. call[c].key \in Keys
    BY <1>1 DEF CallState
  <2>2. ASSUME NEW result, Answered(c, result) PROVE BreakerInv'
    <3>1. died' = died /\ breaker' = [breaker EXCEPT ![call[c].key] = onSuccess(@)]
      BY <2>2 DEF Answered
    <3>2. \A k \in Keys : breaker'[k] = breaker[k] \/ breaker'[k] = onSuccess(breaker[k])
      BY <2>1, <3>1, <1>1
    <3>3. QED BY <3>1, <3>2, <1>1, OnSuccessEntry DEF BreakerInv
  <2>3. ASSUME NEW result, GaveUp(c, result) PROVE BreakerInv'
    <3>1. /\ died' = died \cup {call[c].key}
          /\ breaker' = [breaker EXCEPT ![call[c].key] = onFailure(@, now)]
      BY <2>3 DEF GaveUp
    <3>2. \A k \in Keys : \/ breaker'[k] = breaker[k]
                          \/ k \in died' /\ breaker'[k] = onFailure(breaker[k], now)
      BY <2>1, <3>1, <1>1
    <3>3. QED BY <3>1, <3>2, <1>1, OnFailureEntry DEF BreakerInv
  <2>4. ASSUME NEW wait, Backoff(c, wait) PROVE BreakerInv'
    BY <2>4 DEF Backoff, BreakerInv
  <2>5. QED BY <1>4, <2>2, <2>3, <2>4 DEF EndLeaves
<1>5. CASE Tick \/ UNCHANGED vars
  BY <1>5 DEF Tick, vars, BreakerInv
<1>6. QED BY <1>2, <1>3, <1>4, <1>5, StepOutcome

LEMMA BreakerInvariant == Spec => []BreakerInv
<1>1. Init => BreakerInv
  <2>1. freshEntry.failures = 0
    BY DEF freshEntry
  <2>2. QED BY <2>1, FreshEntry DEF Init, BreakerInv
<1>2. QED BY <1>1, BreakerStep, TypeInvariant, PTL DEF Spec

(* The breaker opens exactly at its threshold of consecutive failures,     *)
(* for any number of interleaved calls.                                    *)
THEOREM BreakerTripsExactlyAtThreshold == Spec => []TripsExactlyAtThreshold
<1>1. BreakerInv => TripsExactlyAtThreshold
  BY DEF BreakerInv, EntryInv, TripsExactlyAtThreshold
<1>2. QED BY <1>1, BreakerInvariant, PTL

(* No number of error statuses opens the breaker of a key that answers.    *)
THEOREM BreakerIgnoresErrors == Spec => []ErrorsNeverTrip
<1>1. BreakerInv => ErrorsNeverTrip
  BY BreakerAssumption DEF BreakerInv, EntryInv, ErrorsNeverTrip
<1>2. QED BY <1>1, BreakerInvariant, PTL

-----------------------------------------------------------------------------
(***************************************************************************)
(* Mutations.  Until a mutation is settled the server has not performed it *)
(* in any attempt but, possibly, the one that settles it.                  *)
(***************************************************************************)
MutationInv ==
  \A c \in Calls : mutation(c) =>
    /\ call[c].phase # "settled" => applied[c] = 0
    /\ call[c].result \in FailFast => applied[c] = 0
    /\ applied[c] <= 1

LEMMA MutationStep == TypeInv /\ MutationInv /\ [Next]_vars => MutationInv'
<1> SUFFICES ASSUME TypeInv, MutationInv, [Next]_vars
             PROVE  MutationInv'
  OBVIOUS
<1>1. call \in [Calls -> CallState] /\ applied \in [Calls -> Nat] /\ now \in Nat
  BY DEF TypeInv, TypeOK
(* All that a step can do to a call, as far as mutations are concerned.    *)
<1>2. ASSUME NEW c \in Calls, NEW q, call' = [call EXCEPT ![c] = q],
             q.method = call[c].method, call[c].phase # "settled",
             applied' = applied \/ applied' = [applied EXCEPT ![c] = @ + 1],
             mutation(c) /\ (q.phase # "settled" \/ q.result \in FailFast) => applied' = applied
      PROVE  MutationInv'
  <2> SUFFICES ASSUME NEW d \in Calls, mutation(d)'
               PROVE  /\ call'[d].phase # "settled" => applied'[d] = 0
                      /\ call'[d].result \in FailFast => applied'[d] = 0
                      /\ applied'[d] <= 1
    BY DEF MutationInv
  <2>1. CASE d # c
    <3>1. call'[d] = call[d] /\ applied'[d] = applied[d]
      BY <1>1, <1>2, <2>1
    <3>2. QED BY <3>1 DEF MutationInv, mutation
  <2>2. CASE d = c
    <3>1. call'[c] = q /\ mutation(c)
      BY <1>1, <1>2, <2>2 DEF mutation
    <3>2. applied[c] = 0
      BY <3>1, <1>2 DEF MutationInv
    <3>3. applied'[c] = 0 \/ applied'[c] = 1
      BY <1>1, <1>2, <3>2
    <3>4. q.phase # "settled" \/ q.result \in FailFast => applied'[c] = 0
      BY <1>2, <3>1, <3>2
    <3>5. QED BY <2>2, <3>1, <3>3, <3>4
  <2>3. QED BY <2>1, <2>2
<1>3. ASSUME NEW c \in Calls, NEW q, AttemptLeaves(c, q)
      PROVE  MutationInv'
  <2>1. /\ call' = [call EXCEPT ![c] = q] /\ q.method = call[c].method
        /\ call[c].phase # "settled" /\ applied' = applied
    BY <1>3 DEF AttemptLeaves
  <2>2. QED BY <1>2, <2>1
<1>4. ASSUME NEW c \in Calls, NEW k, NEW b, AcquireLeaves(c, k, b)
      PROVE  MutationInv'
  <2>1. call[c] \in CallState /\ call[c].phase # "settled" /\ applied' = applied
    BY <1>1, <1>4 DEF AcquireLeaves
  <2>2. inflight(call[c]).method = call[c].method
    BY <1>1, <2>1, InflightCall
  <2> DEFINE q == [call[c] EXCEPT !.phase = "pacing", !.wakeAt = now + waitMs(b)]
  <2>3. q.method = call[c].method
    BY <2>1 DEF CallState
  <2>4. call' = [call EXCEPT ![c] = inflight(call[c])] \/ call' = [call EXCEPT ![c] = q]
    BY <1>1, <1>4 DEF AcquireLeaves, Send
  <2> HIDE DEF q
  <2>5. QED BY <1>2, <2>1, <2>2, <2>3, <2>4
<1>5. ASSUME NEW c \in Calls, EndLeaves(c)
      PROVE  MutationInv'
  <2>1. /\ call[c] \in CallState /\ call[c].phase # "settled"
        /\ applied' = applied \/ applied' = [applied EXCEPT ![c] = @ + 1]
    BY <1>1, <1>5 DEF EndLeaves
  <2>2. ASSUME NEW result \in Results, Answered(c, result) \/ GaveUp(c, result),
               mutation(c) /\ result \in FailFast => applied' = applied
        PROVE  MutationInv'
    <3>1. /\ settled(call[c], result).method = call[c].method
          /\ settled(call[c], result).phase = "settled"
          /\ settled(call[c], result).result = result
      BY <2>1, SettledCall
    <3>2. call' = [call EXCEPT ![c] = settled(call[c], result)]
      BY <1>1, <2>2 DEF Answered, GaveUp
    <3>3. QED BY <1>2, <2>1, <2>2, <3>1, <3>2
  <2>3. ASSUME NEW wait \in Nat, Backoff(c, wait), mutation(c) => applied' = applied
        PROVE  MutationInv'
    <3> DEFINE q == [call[c] EXCEPT !.phase = "backoff", !.wakeAt = now + wait]
    <3>1. q.method = call[c].method /\ q.phase # "settled"
      BY <2>1 DEF CallState
    <3>2. call' = [call EXCEPT ![c] = q]
      BY <1>1, <2>3 DEF Backoff
    <3> HIDE DEF q
    <3>3. QED BY <1>2, <2>1, <2>3, <3>1, <3>2
  <2>4. QED BY <1>5, <2>2, <2>3 DEF EndLeaves
<1>6. CASE Tick \/ UNCHANGED vars
  BY <1>6 DEF Tick, vars, MutationInv, mutation
<1>7. QED BY <1>3, <1>4, <1>5, <1>6, StepOutcome

LEMMA MutationInvariant == Spec => []MutationInv
<1>1. Init => MutationInv
  <2> SUFFICES ASSUME Init PROVE MutationInv
    OBVIOUS
  <2>1. \A c \in Calls : applied[c] = 0
    BY DEF Init
  <2>2. QED BY <2>1 DEF MutationInv
<1>2. QED BY <1>1, MutationStep, TypeInvariant, PTL DEF Spec

(* A mutation is performed at most once however its attempts end.          *)
THEOREM MutationsAtMostOnce == Spec => []AtMostOnce
<1>1. MutationInv => AtMostOnce
  BY DEF MutationInv, AtMostOnce
<1>2. QED BY <1>1, MutationInvariant, PTL

(* A mutation that failed fast was not performed.                          *)
THEOREM FailedFastIsSafeToRepeat == Spec => []FailedFastMeansNotApplied
<1>1. MutationInv => FailedFastMeansNotApplied
  BY DEF MutationInv, FailedFastMeansNotApplied, FailFast
<1>2. QED BY <1>1, MutationInvariant, PTL

-----------------------------------------------------------------------------
(***************************************************************************)
(* Pacing.  The credit a key has left and the tokens taken since any past  *)
(* send fit in a burst and the credit earned since.                        *)
(***************************************************************************)
Bound(k) ==
  \A i \in DOMAIN grants[k] :
    /\ grants[k][i].at <= bucket[k].lastRefillMs
    /\ (Len(grants[k]) - i + 1) * TokenMs + bucket[k].credit
         <= Capacity + (bucket[k].lastRefillMs - grants[k][i].at)

Spaced(k) ==
  \A i, j \in DOMAIN grants[k] :
    i <= j => (j - i + 1 - Burst) * TokenMs <= grants[k][j].at - grants[k][i].at

PacingInv == \A k \in Keys : Bound(k) /\ Spaced(k)

LEMMA TokensAdd ==
  ASSUME NEW m \in Int
  PROVE  /\ (m + 1) * TokenMs = m * TokenMs + TokenMs
         /\ (m - Burst) * TokenMs = m * TokenMs - Capacity
         /\ m * TokenMs \in Int
  BY GovernorAssumption DEF Capacity

LEMMA PacingStep == TypeInv /\ PacingInv /\ [Next]_vars => PacingInv'
<1> SUFFICES ASSUME TypeInv, PacingInv, [Next]_vars
             PROVE  PacingInv'
  OBVIOUS
<1>1. /\ bucket \in [Keys -> Bucket] /\ now \in Nat /\ call \in [Calls -> CallState]
      /\ grants \in [Keys -> Seq([by : Calls, at : Nat])]
      /\ TokenMs \in Nat /\ Capacity \in Nat
  BY GovernorAssumption, CapacityType DEF TypeInv, TypeOK
<1>2. CASE UNCHANGED <<bucket, grants>>
  BY <1>2 DEF PacingInv, Bound, Spaced
<1>3. ASSUME NEW c \in Calls, NEW k, NEW b, AcquireLeaves(c, k, b)
      PROVE  PacingInv'
  <2>1. /\ k \in Keys /\ b \in Bucket /\ b.lastRefillMs = now
        /\ bucket[k].credit \in Nat /\ bucket[k].lastRefillMs \in Nat
        /\ b.credit \in Nat /\ b.credit <= Capacity
        /\ b.credit <= bucket[k].credit + (now - bucket[k].lastRefillMs)
        /\ bucket[k].lastRefillMs <= now
    <3>1. k \in Keys /\ bucket[k] \in Bucket /\ BucketInv(bucket[k], now)
      BY <1>1, <1>3 DEF AcquireLeaves, CallState, TypeInv, BucketsFilled
    <3>2. b = refill(bucket[k], now)
      BY <1>3 DEF AcquireLeaves
    <3>3. QED BY <1>1, <3>1, <3>2, RefillBucket DEF Bucket, BucketInv
  <2> DEFINE g == grants[k]
             n == Len(g)
  <2>2. /\ g \in Seq([by : Calls, at : Nat]) /\ n \in Nat /\ DOMAIN g = 1 .. n
        /\ \A i \in 1 .. n : g[i].at \in Nat
    <3>1. g \in Seq([by : Calls, at : Nat])
      BY <1>1, <2>1
    <3>2. n \in Nat /\ DOMAIN g = 1 .. n
      BY <3>1
    <3>3. \A i \in 1 .. n : g[i] \in [by : Calls, at : Nat]
      <4>1. \A S, q : q \in Seq(S) => \A i \in 1 .. Len(q) : q[i] \in S
        OBVIOUS
      <4>2. QED BY <3>1, <4>1, Zenon
    <3>4. QED BY <3>1, <3>2, <3>3
  <2>3. Bound(k) /\ Spaced(k)
    BY <2>1 DEF PacingInv
  (* The credit after the refill keeps the bound, now taken to this time.  *)
  <2>4. ASSUME NEW i \in 1 .. n
        PROVE  /\ g[i].at <= now
               /\ (n - i + 1) * TokenMs + b.credit <= Capacity + (now - g[i].at)
    <3>1. /\ g[i].at <= bucket[k].lastRefillMs
          /\ (n - i + 1) * TokenMs + bucket[k].credit
               <= Capacity + (bucket[k].lastRefillMs - g[i].at)
      BY <2>2, <2>3 DEF Bound
    <3> DEFINE x == (n - i + 1) * TokenMs
               at == g[i].at
               cr == bucket[k].credit
               lr == bucket[k].lastRefillMs
    <3>2. x \in Int /\ at \in Nat /\ cr \in Nat /\ lr \in Nat
      <4>1. n - i + 1 \in Int
        BY <2>2
      <4>2. QED BY <4>1, <2>1, <2>2, TokensAdd
    <3>3. at <= lr /\ x + cr <= Capacity + (lr - at)
      BY <3>1
    <3>4. lr <= now /\ b.credit <= cr + (now - lr) /\ b.credit \in Nat
      BY <2>1
    <3> HIDE DEF x, at, cr, lr
    <3>5. at <= now /\ x + b.credit <= Capacity + (now - at)
      BY <1>1, <3>2, <3>3, <3>4
    <3>6. QED BY <3>5 DEF x, at
  <2>5. CASE hasToken(b) /\ Send(c, k, b)
    <3> DEFINE new == [by |-> c, at |-> now]
    <3>1. /\ bucket'[k] = spend(b) /\ grants'[k] = Append(g, new)
          /\ \A j \in Keys \ {k} : bucket'[j] = bucket[j] /\ grants'[j] = grants[j]
      BY <1>1, <2>1, <2>5 DEF Send
    <3>2. /\ bucket'[k].lastRefillMs = now
          /\ bucket'[k].credit = b.credit - TokenMs
          /\ b.credit >= TokenMs
      BY <2>1, <2>5, <3>1 DEF spend, Bucket, hasToken
    <3>3. /\ Len(grants'[k]) = n + 1 /\ DOMAIN grants'[k] = 1 .. n + 1
          /\ grants'[k][n + 1].at = now
          /\ \A i \in 1 .. n : grants'[k][i] = g[i]
      <4>1. new \in [by : Calls, at : Nat] /\ new.at = now
        BY <1>1
      <4> HIDE DEF new
      <4>2. /\ Len(Append(g, new)) = n + 1 /\ DOMAIN Append(g, new) = 1 .. n + 1
            /\ Append(g, new)[n + 1] = new
            /\ \A i \in 1 .. n : Append(g, new)[i] = g[i]
        BY <2>2, <4>1
      <4>3. QED BY <3>1, <4>1, <4>2
    <3> HIDE DEF new, g, n
    <3>4. Bound(k)'
      <4> DEFINE len == Len(grants'[k])
                 cr == bucket'[k].credit
                 lr == bucket'[k].lastRefillMs
      <4>0. len = n + 1 /\ cr = b.credit - TokenMs /\ lr = now
        BY <3>2, <3>3
      <4> SUFFICES ASSUME NEW i \in 1 .. n + 1
                   PROVE  /\ grants'[k][i].at <= lr
                          /\ (len - i + 1) * TokenMs + cr <= Capacity + (lr - grants'[k][i].at)
        BY <3>3 DEF Bound
      <4> HIDE DEF len, cr, lr
      <4>1. CASE i = n + 1
        <5>1. len - i + 1 = 1
          BY <2>2, <4>0, <4>1
        <5>2. (len - i + 1) * TokenMs = TokenMs
          BY <5>1, <1>1
        <5>3. grants'[k][i].at = now
          BY <3>3, <4>1
        <5>4. QED BY <1>1, <2>1, <4>0, <5>2, <5>3
      <4>2. CASE i # n + 1
        <5>1. i \in 1 .. n /\ n - i + 1 \in Int /\ len - i + 1 = (n - i + 1) + 1
          BY <2>2, <4>0, <4>2
        <5> DEFINE x == (n - i + 1) * TokenMs
        <5>2. (len - i + 1) * TokenMs = x + TokenMs /\ x \in Int
          BY <5>1, TokensAdd
        <5>3. g[i].at \in Nat /\ grants'[k][i].at = g[i].at
          BY <2>2, <3>3, <5>1
        <5>4. g[i].at <= now /\ x + b.credit <= Capacity + (now - g[i].at)
          BY <2>4, <5>1
        <5> HIDE DEF x
        <5>5. QED BY <1>1, <2>1, <4>0, <5>2, <5>3, <5>4
      <4>3. QED BY <4>1, <4>2
    <3>5. Spaced(k)'
      <4> SUFFICES ASSUME NEW i \in 1 .. n + 1, NEW j \in 1 .. n + 1, i <= j
                   PROVE  (j - i + 1 - Burst) * TokenMs
                            <= grants'[k][j].at - grants'[k][i].at
        BY <3>3 DEF Spaced
      <4>1. CASE j # n + 1
        <5>1. i \in 1 .. n /\ j \in 1 .. n
          BY <2>2, <4>1
        <5>2. grants'[k][i] = g[i] /\ grants'[k][j] = g[j]
          BY <3>3, <5>1
        <5>3. (j - i + 1 - Burst) * TokenMs <= g[j].at - g[i].at
          BY <2>2, <2>3, <5>1 DEF Spaced, g
        <5>4. QED BY <5>2, <5>3
      <4>2. CASE j = n + 1
        <5> DEFINE len == Len(grants'[k])
                   x == (len - i + 1) * TokenMs
                   at == grants'[k][i].at
        <5>1. x + bucket'[k].credit <= Capacity + (bucket'[k].lastRefillMs - at)
          <6>1. i \in DOMAIN grants'[k]
            BY <3>3
          <6>2. QED BY <3>4, <6>1 DEF Bound
        <5>2. len = n + 1
          BY <3>3
        <5>3. (j - i + 1 - Burst) * TokenMs = x - Capacity /\ x \in Int
          <6> DEFINE m == len - i + 1
          <6>1. m \in Int /\ j - i + 1 = m
            BY <2>2, <4>2, <5>2
          <6>1b. j - i + 1 - Burst = m - Burst
            BY <6>1, <2>2, GovernorAssumption
          <6>2. m * TokenMs \in Int /\ (m - Burst) * TokenMs = m * TokenMs - Capacity
            BY <6>1, TokensAdd
          <6>3. x = m * TokenMs
            OBVIOUS
          <6> HIDE DEF m, x
          <6>4. (j - i + 1 - Burst) * TokenMs = (m - Burst) * TokenMs
            BY <6>1b, Zenon
          <6>5. QED BY <6>2, <6>3, <6>4
        <5>4. at \in Nat /\ grants'[k][j].at = now
          <6>1. i = n + 1 \/ i \in 1 .. n
            BY <2>2
          <6>2. QED BY <1>1, <2>2, <3>3, <4>2, <6>1
        <5>5. /\ bucket'[k].credit = b.credit - TokenMs /\ bucket'[k].lastRefillMs = now
              /\ b.credit \in Nat /\ b.credit >= TokenMs
          BY <2>1, <3>2
        <5> HIDE DEF x, at
        <5>6. x - Capacity <= now - at
          BY <1>1, <5>1, <5>3, <5>4, <5>5
        <5>7. (j - i + 1 - Burst) * TokenMs <= now - at
          BY <5>3, <5>6
        <5>8. QED BY <5>4, <5>7 DEF at
      <4>3. QED BY <4>1, <4>2
    <3>6. QED BY <3>1, <3>4, <3>5 DEF PacingInv, Bound, Spaced
  <2>6. CASE bucket' = [bucket EXCEPT ![k] = b] /\ grants' = grants
    <3>1. /\ bucket'[k] = b
          /\ \A j \in Keys \ {k} : bucket'[j] = bucket[j]
      BY <1>1, <2>1, <2>6
    <3>2. Bound(k)' /\ Spaced(k)'
      BY <2>1, <2>2, <2>3, <2>4, <2>6, <3>1 DEF Bound, Spaced
    <3>3. QED BY <2>6, <3>1, <3>2 DEF PacingInv, Bound, Spaced
  <2>7. QED BY <1>3, <2>5, <2>6 DEF AcquireLeaves
<1>4. QED BY <1>2, <1>3, StepOutcome DEF AttemptLeaves, EndLeaves, Tick, vars

LEMMA PacingInvariant == Spec => []PacingInv
<1>1. Init => PacingInv
  BY DEF Init, PacingInv, Bound, Spaced
<1>2. QED BY <1>1, PacingStep, TypeInvariant, PTL DEF Spec

(* The aggregate rate of a key never exceeds the configured one.           *)
THEOREM RateNeverExceeded == Spec => []PacingRespected
<1>1. PacingInv => PacingRespected
  BY DEF PacingInv, Spaced, PacingRespected
<1>2. QED BY <1>1, PacingInvariant, PTL

-----------------------------------------------------------------------------
(***************************************************************************)
(* The refinement.  Every send but the first is paid for by a retry.       *)
(***************************************************************************)
SendsInv ==
  \A c \in Calls :
    call[c].sends <= call[c].retriesUsed
                       + (IF call[c].phase \in {"idle", "queued", "pacing"} THEN 0 ELSE 1)

(* A step of one call, in terms of the contract.                           *)
CallStep(c, q) ==
  /\ call' = [call EXCEPT ![c] = q]
  /\ q.method = call[c].method
  /\ call[c].phase # "settled"
  /\ q.sends <= q.retriesUsed + (IF q.phase \in {"idle", "queued", "pacing"} THEN 0 ELSE 1)
  /\ \/ /\ call[c].phase # "inflight"
        /\ applied' = applied
        /\ \/ q.phase \in {"queued", "pacing", "settled"} /\ q.sends = call[c].sends
           \/ /\ q.phase = "inflight" /\ q.sends = call[c].sends + 1
              /\ call[c].sends <= MaxRetries
     \/ /\ call[c].phase = "inflight"
        /\ applied' = applied \/ applied' = [applied EXCEPT ![c] = @ + 1]
        /\ q.phase \in {"backoff", "settled"} /\ q.sends = call[c].sends

LEMMA EveryStepIsACallStep ==
  ASSUME TypeInv, SendsInv, [Next]_vars
  PROVE  \/ \E c \in Calls : \E q : CallStep(c, q)
         \/ UNCHANGED <<call, applied>>
<1>1. call \in [Calls -> CallState] /\ now \in Nat /\ MaxRetries \in Nat
  BY SendAssumption DEF TypeInv, TypeOK
<1>2. ASSUME NEW c \in Calls
      PROVE  /\ call[c] \in CallState /\ call[c].sends \in Nat
             /\ call[c].retriesUsed \in Nat /\ call[c].retriesUsed <= MaxRetries
  BY <1>1 DEF CallState
<1>3. ASSUME NEW c \in Calls, NEW q, AttemptLeaves(c, q)
      PROVE  CallStep(c, q)
  <2>1. /\ call' = [call EXCEPT ![c] = q] /\ q.method = call[c].method
        /\ call[c].phase \in {"idle", "backoff"} /\ applied' = applied
        /\ \/ q.phase \in {"queued", "settled"} /\ q.sends = call[c].sends
           \/ q.phase = "inflight" /\ q.sends = call[c].sends + 1
    BY <1>3 DEF AttemptLeaves
  <2>2. /\ q \in CallState
        /\ q.retriesUsed = call[c].retriesUsed
                             + (IF call[c].phase = "backoff" THEN 1 ELSE 0)
    BY <1>3 DEF AttemptLeaves
  <2>3. call[c].sends <= q.retriesUsed /\ q.retriesUsed \in Nat /\ q.retriesUsed <= MaxRetries
    <3>1. q.retriesUsed \in 0 .. MaxRetries
      BY <2>2 DEF CallState
    <3>2. QED BY <1>1, <1>2, <2>1, <2>2, <3>1 DEF SendsInv
  <2>4. QED BY <1>1, <1>2, <2>1, <2>3 DEF CallStep
<1>4. ASSUME NEW c \in Calls, NEW k, NEW b, AcquireLeaves(c, k, b)
      PROVE  \E q : CallStep(c, q)
  <2>1. /\ call[c].phase \in {"queued", "pacing"} /\ applied' = applied
        /\ call[c].sends <= call[c].retriesUsed
    <3>1. call[c].phase \in {"queued", "pacing"} /\ applied' = applied
      BY <1>4 DEF AcquireLeaves
    <3>2. QED BY <1>2, <3>1 DEF SendsInv
  <2>2. ASSUME Send(c, k, b) PROVE CallStep(c, inflight(call[c]))
    <3>1. call' = [call EXCEPT ![c] = inflight(call[c])]
      BY <1>1, <2>2 DEF Send
    <3>2. /\ inflight(call[c]).phase = "inflight"
          /\ inflight(call[c]).method = call[c].method
          /\ inflight(call[c]).sends = call[c].sends + 1
          /\ inflight(call[c]).retriesUsed = call[c].retriesUsed
      BY <1>1, <1>2, InflightCall
    <3>3. QED BY <1>1, <1>2, <2>1, <3>1, <3>2 DEF CallStep
  <2> DEFINE q == [call[c] EXCEPT !.phase = "pacing", !.wakeAt = now + waitMs(b)]
  <2>3. /\ q.phase = "pacing" /\ q.method = call[c].method
        /\ q.sends = call[c].sends /\ q.retriesUsed = call[c].retriesUsed
    BY <1>2 DEF CallState
  <2>4. ASSUME call' = [call EXCEPT ![c].phase = "pacing", ![c].wakeAt = now + waitMs(b)]
        PROVE  call' = [call EXCEPT ![c] = q]
    BY <1>1, <2>4
  <2> HIDE DEF q
  <2>5. ASSUME call' = [call EXCEPT ![c] = q]
        PROVE  CallStep(c, q)
    BY <1>2, <2>1, <2>3, <2>5 DEF CallStep
  <2>6. QED BY <1>4, <2>2, <2>4, <2>5 DEF AcquireLeaves
<1>5. ASSUME NEW c \in Calls, EndLeaves(c)
      PROVE  \E q : CallStep(c, q)
  <2>1. /\ call[c].phase = "inflight"
        /\ applied' = applied \/ applied' = [applied EXCEPT ![c] = @ + 1]
        /\ call[c].sends <= call[c].retriesUsed + 1
    BY <1>5 DEF EndLeaves, SendsInv
  <2>2. ASSUME NEW result \in Results, Answered(c, result) \/ GaveUp(c, result)
        PROVE  CallStep(c, settled(call[c], result))
    <3>1. call' = [call EXCEPT ![c] = settled(call[c], result)]
      BY <1>1, <2>2 DEF Answered, GaveUp
    <3>2. /\ settled(call[c], result).phase = "settled"
          /\ settled(call[c], result).method = call[c].method
          /\ settled(call[c], result).sends = call[c].sends
          /\ settled(call[c], result).retriesUsed = call[c].retriesUsed
      BY <1>2, SettledCall
    <3>3. QED BY <1>2, <2>1, <3>1, <3>2 DEF CallStep
  <2>3. ASSUME NEW wait \in Nat, Backoff(c, wait)
        PROVE  CallStep(c, [call[c] EXCEPT !.phase = "backoff", !.wakeAt = now + wait])
    <3> DEFINE q == [call[c] EXCEPT !.phase = "backoff", !.wakeAt = now + wait]
    <3>1. /\ q.phase = "backoff" /\ q.method = call[c].method
          /\ q.sends = call[c].sends /\ q.retriesUsed = call[c].retriesUsed
      BY <1>2 DEF CallState
    <3>2. call' = [call EXCEPT ![c] = q]
      BY <1>1, <2>3 DEF Backoff
    <3> HIDE DEF q
    <3>3. CallStep(c, q)
      BY <1>2, <2>1, <3>1, <3>2 DEF CallStep
    <3>4. QED BY <3>3 DEF q
  <2>4. QED BY <1>5, <2>2, <2>3 DEF EndLeaves
<1>6. QED BY <1>3, <1>4, <1>5, StepOutcome DEF Tick, vars

LEMMA SendsStep == TypeInv /\ SendsInv /\ [Next]_vars => SendsInv'
<1> SUFFICES ASSUME TypeInv, SendsInv, [Next]_vars
             PROVE  SendsInv'
  OBVIOUS
<1>1. ASSUME NEW c \in Calls, NEW q, CallStep(c, q)
      PROVE  SendsInv'
  <2>1. call \in [Calls -> CallState]
    BY DEF TypeInv, TypeOK
  <2>2. call'[c] = q /\ \A d \in Calls \ {c} : call'[d] = call[d]
    BY <1>1, <2>1 DEF CallStep
  <2>3. q.sends <= q.retriesUsed + (IF q.phase \in {"idle", "queued", "pacing"} THEN 0 ELSE 1)
    BY <1>1 DEF CallStep
  <2>4. QED BY <2>2, <2>3 DEF SendsInv
<1>2. CASE UNCHANGED <<call, applied>>
  BY <1>2 DEF SendsInv
<1>3. QED BY <1>1, <1>2, EveryStepIsACallStep

LEMMA SendsInvariant == Spec => []SendsInv
<1>1. Init => SendsInv
  <2> SUFFICES ASSUME Init PROVE SendsInv
    OBVIOUS
  <2>1. \A c \in Calls : call[c].sends = 0 /\ call[c].retriesUsed = 0
    BY DEF Init
  <2>2. QED BY <2>1 DEF SendsInv
<1>2. QED BY <1>1, SendsStep, TypeInvariant, PTL DEF Spec

LEMMA ContractInit == Init => Contract!Init
<1> SUFFICES ASSUME Init PROVE Contract!Init
  OBVIOUS
<1>1. \A c \in Calls : call[c].sends = 0 /\ call[c].phase = "idle"
  BY DEF Init
<1>2. applied = [c \in Calls |-> 0]
  BY DEF Init
<1>3. QED BY <1>1, <1>2 DEF Contract!Init

LEMMA ContractStep ==
  TypeInv /\ SendsInv /\ MutationInv /\ [Next]_vars => [Contract!Next]_Contract!vars
<1> SUFFICES ASSUME TypeInv, SendsInv, MutationInv, [Next]_vars
             PROVE  [Contract!Next]_Contract!vars
  OBVIOUS
<1> DEFINE safe == [c \in Calls |-> ~mutation(c)]
           sends == [c \in Calls |-> call[c].sends]
           awaiting == [c \in Calls |-> call[c].phase = "inflight"]
           done == [c \in Calls |-> call[c].phase = "settled"]
<1>1. call \in [Calls -> CallState] /\ applied \in [Calls -> Nat]
  BY DEF TypeInv, TypeOK
<1>2. ASSUME NEW c \in Calls, NEW q, CallStep(c, q)
      PROVE  [Contract!Next]_Contract!vars
  <2>1. call'[c] = q /\ \A d \in Calls \ {c} : call'[d] = call[d]
    BY <1>1, <1>2 DEF CallStep
  <2>2. safe' = safe
    BY <1>2, <2>1 DEF CallStep, mutation
  <2>3. sends' = [sends EXCEPT ![c] = q.sends]
    BY <2>1
  <2>4. awaiting' = [awaiting EXCEPT ![c] = (q.phase = "inflight")]
    BY <2>1
  <2>5. done' = [done EXCEPT ![c] = (q.phase = "settled")]
    BY <2>1
  <2>6. /\ done[c] = FALSE /\ safe[c] = ~mutation(c) /\ sends[c] = call[c].sends
        /\ awaiting[c] = (call[c].phase = "inflight")
    BY <1>2 DEF CallStep
  <2>7. mutation(c) => applied[c] = 0
    BY <1>2 DEF CallStep, MutationInv
  <2>8. CASE call[c].phase # "inflight" /\ q.phase = "inflight"
    <3>1. /\ q.sends = call[c].sends + 1 /\ call[c].sends <= MaxRetries /\ applied' = applied
      BY <1>2, <2>8 DEF CallStep
    <3>2. done' = done /\ awaiting' = [awaiting EXCEPT ![c] = TRUE]
      BY <2>4, <2>5, <2>6, <2>8
    <3>3. sends' = [sends EXCEPT ![c] = @ + 1]
      BY <2>3, <2>6, <3>1
    <3>4. Contract!SendOut(c)
      BY <2>2, <2>6, <2>7, <2>8, <3>1, <3>2, <3>3 DEF Contract!SendOut
    <3>5. QED BY <3>4 DEF Contract!Next
  <2>9. CASE call[c].phase # "inflight" /\ q.phase # "inflight"
    <3>1. /\ q.sends = call[c].sends /\ applied' = applied
      BY <1>2, <2>9 DEF CallStep
    <3>2. sends' = sends /\ awaiting' = awaiting
      BY <2>3, <2>4, <2>6, <2>9, <3>1
    <3>3. CASE q.phase = "settled"
      <4>1. done' = [done EXCEPT ![c] = TRUE]
        BY <2>5, <3>3
      <4>2. Contract!Refuse(c)
        BY <2>2, <2>6, <2>9, <3>1, <3>2, <4>1 DEF Contract!Refuse
      <4>3. QED BY <4>2 DEF Contract!Next
    <3>4. CASE q.phase # "settled"
      <4>1. done' = done
        BY <2>5, <2>6, <3>4
      <4>2. QED BY <2>2, <3>1, <3>2, <4>1 DEF Contract!vars
    <3>5. QED BY <3>3, <3>4
  <2>10. CASE call[c].phase = "inflight"
    <3>1. /\ q.sends = call[c].sends /\ q.phase # "inflight"
          /\ applied' = applied \/ applied' = [applied EXCEPT ![c] = @ + 1]
      BY <1>2, <2>10 DEF CallStep
    <3>2. sends' = sends /\ awaiting' = [awaiting EXCEPT ![c] = FALSE]
      BY <2>3, <2>4, <2>6, <3>1
    <3>3. done' = done \/ done' = [done EXCEPT ![c] = TRUE]
      BY <2>5, <2>6
    <3>4. Contract!AttemptEnds(c)
      BY <2>2, <2>6, <2>10, <3>1, <3>2, <3>3 DEF Contract!AttemptEnds
    <3>5. QED BY <3>4 DEF Contract!Next
  <2>11. QED BY <2>8, <2>9, <2>10
<1>3. CASE UNCHANGED <<call, applied>>
  BY <1>3 DEF Contract!vars, mutation
<1>4. QED BY <1>2, <1>3, EveryStepIsACallStep

(* The session keeps the contract of its requests: at most 1 + MaxRetries  *)
(* sends, one at a time, a resend only of what is safe to repeat or was    *)
(* not performed, and silence once the call has settled.                   *)
THEOREM SessionImplementsContract == Spec => ImplementsContract
  BY ContractInit, ContractStep, TypeInvariant, SendsInvariant, MutationInvariant, PTL
     DEF Spec, ImplementsContract, Contract!Spec
=============================================================================
