-------------------------- MODULE ODataClientProofs -------------------------
(***************************************************************************)
(* What TLAPS proves of the client's requests and their token provider,    *)
(* for any number of requests, any lifetimes of tokens, any revocations    *)
(* and any failures of the token endpoint.                                 *)
(***************************************************************************)
EXTENDS ODataClient, FiniteSetTheorems, TLAPS

(***************************************************************************)
(* Numbers that are free, and the arithmetic of the refresh margin.        *)
(***************************************************************************)
LEMMA FreeNumber ==
  ASSUME NEW S, IsFiniteSet(S)
  PROVE  unused(S) \in Nat \ {0} /\ unused(S) \notin S
<1> DEFINE n == Cardinality(S)
<1>1. n \in Nat
  BY FS_CardinalityType
<1>2. \E i \in 1 .. n + 1 : i \notin S
  <2> SUFFICES ASSUME 1 .. n + 1 \subseteq S PROVE FALSE
    OBVIOUS
  <2>1. Cardinality(1 .. n + 1) <= n
    BY FS_Subset
  <2>2. Cardinality(1 .. n + 1) = n + 1
    BY <1>1, FS_Interval
  <2>3. QED BY <1>1, <2>1, <2>2
<1>3. unused(S) \in 1 .. n + 1 /\ unused(S) \notin S
  BY <1>2 DEF unused
<1>4. QED BY <1>1, <1>3

LEMMA MarginIsNat == refreshMargin \in Nat
<1>1. /\ DefaultTtl \in Nat /\ RefreshNum \in Nat /\ RefreshDen \in Nat \ {0}
      /\ RefreshNum <= RefreshDen
  BY ClientAssumption
<1> DEFINE x == DefaultTtl * RefreshNum
           y == DefaultTtl * RefreshDen
<1>2. x \in Nat /\ y \in Nat /\ x <= y
  BY <1>1
<1>3. x \div RefreshDen \in Nat /\ RefreshDen * (x \div RefreshDen) <= x
  BY <1>1, <1>2
<1>4. RefreshDen * (x \div RefreshDen) <= RefreshDen * DefaultTtl
  BY <1>1, <1>2, <1>3
<1>5. x \div RefreshDen <= DefaultTtl
  BY <1>1, <1>3, <1>4
<1>6. QED BY <1>1, <1>3, <1>5 DEF refreshMargin

LEMMA WaitsAreNat ==
  /\ \A n : backoffWaits(n) \subseteq Nat
  /\ \A failure, n : retryWaits(failure, Unstated, n) \subseteq Nat
<1>1. \A n : backoffWaits(n) \subseteq Nat
  BY DEF backoffWaits
<1>2. QED BY <1>1, PolicyAssumption DEF retryWaits

LEMMA TtlIsInt ==
  ASSUME NEW ttl \in Ttls
  PROVE  ttlOf(ttl) \in Int
  BY ClientAssumption DEF ttlOf

(***************************************************************************)
(* The records of the requests.                                            *)
(***************************************************************************)
SameCall(new, q) ==
  new.method = q.method /\ new.retriesUsed = q.retriesUsed

LEMMA SettledRequest ==
  ASSUME NEW q \in Request, NEW result \in {"response", "fatal-auth", "exhausted"}
  PROVE  /\ settled(q, result) \in Request /\ SameCall(settled(q, result), q)
         /\ settled(q, result).phase = "settled"
         /\ settled(q, result).result = result
  BY DEF settled, Request, NoFetch, SameCall

LEMMA BackoffRequest ==
  ASSUME NEW q \in Request, NEW wait \in Nat
  PROVE  /\ backoff(q, wait) \in Request /\ SameCall(backoff(q, wait), q)
         /\ backoff(q, wait).phase = "backoff"
         /\ backoff(q, wait).result = q.result
  BY DEF backoff, Request, NoFetch, SameCall

(* A throw is only tried again when it is safe to repeat the request.      *)
LEMMA ThrownRequest ==
  ASSUME NEW q \in Request, NEW kind \in {"network", "timeout"}, NEW wait \in Nat
  PROVE  /\ thrown(q, kind, wait) \in Request /\ SameCall(thrown(q, kind, wait), q)
         /\ \/ /\ thrown(q, kind, wait).phase = "backoff"
               /\ thrown(q, kind, wait).result = q.result
               /\ q.retriesUsed < MaxRetries /\ q.method \in IDEMPOTENT_METHODS
            \/ /\ thrown(q, kind, wait).phase = "settled"
               /\ thrown(q, kind, wait).result = "exhausted"
<1>1. CASE canRetry(q, classifyThrown(kind))
  <2>1. q.retriesUsed < MaxRetries /\ q.method \in IDEMPOTENT_METHODS
    BY <1>1 DEF canRetry, shouldRetry, classifyThrown, NOT_PROCESSED_STATUSES, NoStatus
  <2>2. QED BY <1>1, <2>1, BackoffRequest DEF thrown
<1>2. CASE ~canRetry(q, classifyThrown(kind))
  BY <1>2, SettledRequest DEF thrown
<1>3. QED BY <1>1, <1>2

LEMMA TokenRequest ==
  ASSUME NEW q \in Request, NEW id \in Nat, NEW wait \in Nat, q.phase \in {"token", "reauth"}
  PROVE  /\ withToken(q, id, wait) \in Request /\ SameCall(withToken(q, id, wait), q)
         /\ \/ /\ withToken(q, id, wait).phase = "backoff"
               /\ withToken(q, id, wait).result = q.result
               /\ q.retriesUsed < MaxRetries /\ q.method \in IDEMPOTENT_METHODS
            \/ /\ withToken(q, id, wait).phase = "settled"
               /\ withToken(q, id, wait).result = "exhausted"
            \/ /\ withToken(q, id, wait).phase = "send" /\ q.phase = "token"
               /\ withToken(q, id, wait).result = q.result
               /\ withToken(q, id, wait).token = id
            \/ /\ withToken(q, id, wait).phase = "resend" /\ q.phase = "reauth"
               /\ withToken(q, id, wait).result = q.result
               /\ withToken(q, id, wait).token = id
            \/ /\ withToken(q, id, wait).phase = "settled"
               /\ withToken(q, id, wait).result = "fatal-auth"
               /\ q.phase = "reauth" /\ id = q.token
<1>1. CASE q.aborted
  <2>1. withToken(q, id, wait) = thrown(q, "timeout", wait)
    BY <1>1 DEF withToken
  <2>2. QED BY <2>1, ThrownRequest
<1>2. CASE ~q.aborted /\ q.phase = "token"
  <2> DEFINE new == [q EXCEPT !.phase = "send", !.token = id, !.fetch = NoFetch]
  <2>1. withToken(q, id, wait) = new
    BY <1>2 DEF withToken
  <2>2. new \in Request /\ SameCall(new, q) /\ new.phase = "send" /\ new.token = id /\ new.result = q.result
    BY DEF Request, NoFetch, SameCall
  <2>3. QED BY <1>2, <2>1, <2>2
<1>3. CASE ~q.aborted /\ q.phase = "reauth" /\ id # q.token
  <2> DEFINE new == [q EXCEPT !.phase = "resend", !.token = id, !.fetch = NoFetch]
  <2>1. withToken(q, id, wait) = new
    BY <1>3 DEF withToken
  <2>2. new \in Request /\ SameCall(new, q) /\ new.phase = "resend" /\ new.token = id /\ new.result = q.result
    BY DEF Request, NoFetch, SameCall
  <2>3. QED BY <1>3, <2>1, <2>2
<1>4. CASE ~q.aborted /\ q.phase = "reauth" /\ id = q.token
  <2>1. withToken(q, id, wait) = settled(q, "fatal-auth")
    BY <1>4 DEF withToken
  <2>2. QED BY <1>4, <2>1, SettledRequest
<1>5. QED BY <1>1, <1>2, <1>3, <1>4

-----------------------------------------------------------------------------
(***************************************************************************)
(* The inductive invariant, part by part.                                  *)
(***************************************************************************)
waiting(r) == req[r].phase \in {"token", "reauth"}

(* Whoever waits waits for the one token request that is in flight.        *)
WaitersJoin == \A r \in Requests : waiting(r) => pending # NoFetch

RetriesLeft ==
  \A r \in Requests : req[r].phase = "backoff" => req[r].retriesUsed < MaxRetries

(* No token is handed out under number 0, which stands for none.           *)
NamesAreNotZero == 0 \notin valid /\ (current.accessToken = 0 => current = NoToken)

TypeInv == TypeOK /\ OneRefreshAtATime /\ WaitersJoin /\ RetriesLeft /\ NamesAreNotZero

(* What a token that the server rejects says of the revocations so far:    *)
(* the current one, and that of a first fetch, was revoked; that of a      *)
(* second fetch was handed out after another one had been revoked.         *)
RevocationsSeen ==
  /\ current # NoToken /\ current.accessToken \notin valid => revoked >= 1
  /\ \A r \in Requests :
       /\ req[r].phase = "send" /\ req[r].token \notin valid => revoked >= 1
       /\ req[r].phase \in {"reauth", "resend"} => revoked >= 1
       /\ req[r].phase = "resend" /\ req[r].token \notin valid => revoked >= 2

RevocationInv == RevocationsSeen /\ RevocationIsSurvived

(* Once performed, a mutation has settled.                                 *)
PerformedIsOver ==
  \A r \in Requests :
    req[r].method \notin IDEMPOTENT_METHODS /\ applied[r] # 0 => req[r].phase = "settled"

MutationInv == AtMostOnce /\ PerformedIsOver

-----------------------------------------------------------------------------
(***************************************************************************)
(* What one step of a request does to its record.                          *)
(***************************************************************************)
becomes(r, new) ==
  /\ new \in Request /\ req' = [req EXCEPT ![r] = new]
  /\ new.method = req[r].method
  /\ UNCHANGED <<client, current, valid, revoked, refused, reissued>>

Sends(r, new) ==
  /\ req[r].phase \in {"idle", "backoff"} /\ ~needsFetch(FALSE)
  /\ new.phase = "send" /\ new.token = current.accessToken /\ new.result = req[r].result
  /\ UNCHANGED <<pending, fetches, applied>>

AsksForToken(r, new) ==
  /\ \/ req[r].phase \in {"idle", "backoff"} /\ new.phase = "token"
     \/ req[r].phase = "send" /\ req[r].token \notin valid /\ new.phase = "reauth"
  /\ new.fetch = awaited /\ new.result = req[r].result
  /\ refresh /\ UNCHANGED applied

IsRejected(r, new) ==
  /\ req[r].phase = "resend" /\ req[r].token \notin valid
  /\ new.phase = "settled" /\ new.result = "fatal-auth"
  /\ UNCHANGED <<pending, fetches, applied>>

Ends(r, new) ==
  /\ req[r].phase \in {"send", "resend"}
  /\ new.phase = "settled" /\ new.result \in {"response", "exhausted"}
  /\ Performed(r, TRUE)
  /\ UNCHANGED <<pending, fetches>>

BacksOff(r, new) ==
  /\ req[r].phase \in {"send", "resend"}
  /\ new.phase = "backoff" /\ new.retriesUsed < MaxRetries /\ new.result = req[r].result
  /\ Performed(r, req[r].method \in IDEMPOTENT_METHODS)
  /\ UNCHANGED <<pending, fetches>>

IsAborted(r, new) ==
  /\ waiting(r)
  /\ new.phase = req[r].phase /\ new.fetch = req[r].fetch
  /\ new.token = req[r].token /\ new.result = req[r].result
  /\ UNCHANGED <<pending, fetches, applied>>

Moves(r) ==
  \E new \in Request :
    /\ becomes(r, new)
    /\ \/ Sends(r, new) \/ AsksForToken(r, new) \/ IsRejected(r, new)
       \/ Ends(r, new) \/ BacksOff(r, new) \/ IsAborted(r, new)

LEMMA AttemptMoves ==
  ASSUME TypeInv, NEW r \in Requests, NEW q \in Request,
         req[r].phase \in {"idle", "backoff"},
         q.method = req[r].method, q.result = req[r].result, Attempt(r, q),
         UNCHANGED <<client, current, valid, revoked, refused, reissued, applied>>
  PROVE  Moves(r)
<1> DEFINE armed == [q EXCEPT !.timer = TimeoutMs, !.aborted = FALSE]
<1>1. armed \in Request /\ armed.method = q.method /\ armed.result = q.result
  <2>1. TimeoutMs \in Nat
    BY ClientAssumption
  <2>2. QED BY <2>1 DEF Request
<1>2. CASE ~needsFetch(FALSE)
  <2> DEFINE new == [armed EXCEPT !.phase = "send", !.token = current.accessToken]
  <2>1. /\ new \in Request /\ new.method = q.method /\ new.result = q.result
        /\ new.phase = "send" /\ new.token = current.accessToken
    BY <1>1 DEF Request, TypeInv, TypeOK
  <2>2. req' = [req EXCEPT ![r] = new] /\ UNCHANGED <<pending, fetches>>
    BY <1>2 DEF Attempt
  <2>3. QED BY <1>2, <2>1, <2>2 DEF Moves, becomes, Sends
<1>3. CASE needsFetch(FALSE)
  <2> DEFINE new == [armed EXCEPT !.phase = "token", !.fetch = awaited]
  <2>1. req' = [req EXCEPT ![r] = new] /\ refresh
    BY <1>3 DEF Attempt
  <2>2. awaited \in Nat
    <3>1. joinable => awaited \in Nat
      BY DEF awaited, TypeInv, TypeOK
    <3>2. ~joinable => fetches = {}
      BY DEF joinable, TypeInv, OneRefreshAtATime
    <3>3. ~joinable => awaited \in Nat
      BY <3>2, FS_EmptySet, FreeNumber DEF awaited
    <3>4. QED BY <3>1, <3>3
  <2>3. /\ new \in Request /\ new.method = q.method /\ new.result = q.result
        /\ new.phase = "token" /\ new.fetch = awaited
    BY <1>1, <2>2 DEF Request
  <2>4. QED BY <2>1, <2>3 DEF Moves, becomes, AsksForToken
<1>4. QED BY <1>2, <1>3

LEMMA AwaitedIsOne ==
  ASSUME TypeInv
  PROVE  awaited \in Nat \ {NoFetch} /\ fetches \subseteq {awaited}
<1>1. CASE joinable
  BY <1>1 DEF awaited, joinable, TypeInv, TypeOK, OneRefreshAtATime, NoFetch
<1>2. CASE ~joinable
  <2>1. fetches = {}
    BY <1>2 DEF joinable, TypeInv, OneRefreshAtATime
  <2>2. QED BY <1>2, <2>1, FS_EmptySet, FreeNumber DEF awaited, NoFetch
<1>3. QED BY <1>1, <1>2

LEMMA ThrownMoves ==
  ASSUME TypeInv, NEW r \in Requests, NEW kind \in {"network", "timeout"}, Thrown(r, kind)
  PROVE  Moves(r)
<1>1. PICK wait \in backoffWaits(req[r].retriesUsed) :
        req' = [req EXCEPT ![r] = thrown(req[r], kind, wait)]
  BY DEF Thrown
<1>2. req[r] \in Request /\ wait \in Nat
  BY <1>1, WaitsAreNat DEF TypeInv, TypeOK
<1> DEFINE new == thrown(req[r], kind, wait)
<1>3. becomes(r, new)
  BY <1>1, <1>2, ThrownRequest DEF becomes, SameCall, Thrown
<1>4. /\ req[r].phase \in {"send", "resend"} /\ UNCHANGED <<pending, fetches>>
      /\ Performed(r, TRUE)
  BY DEF Thrown, Performed
<1>5. CASE new.phase = "backoff"
  <2>1. BacksOff(r, new)
    BY <1>2, <1>4, <1>5, ThrownRequest DEF BacksOff, SameCall, Performed
  <2>2. QED BY <1>3, <2>1 DEF Moves, becomes
<1>6. CASE new.phase # "backoff"
  <2>1. Ends(r, new)
    BY <1>2, <1>4, <1>6, ThrownRequest DEF Ends
  <2>2. QED BY <1>3, <2>1 DEF Moves, becomes
<1>7. QED BY <1>5, <1>6

LEMMA AuthorisedMoves ==
  ASSUME TypeInv, NEW r \in Requests, Authorised(r)
  PROVE  Moves(r)
<1>1. PICK status \in Statuses : HandleResponse(r, status) /\ Performed(r, ~unprocessed(status))
  BY DEF Authorised
<1>2. /\ req[r] \in Request /\ req[r].phase \in {"send", "resend"}
      /\ UNCHANGED <<client, current, pending, fetches, valid, revoked, refused, reissued>>
  BY DEF Authorised, TypeInv, TypeOK
<1>3. CASE req' = [req EXCEPT ![r] = settled(@, "response")]
  <2> DEFINE new == settled(req[r], "response")
  <2>1. becomes(r, new) /\ Ends(r, new)
    BY <1>1, <1>2, <1>3, SettledRequest DEF becomes, SameCall, Ends, Performed
  <2>2. QED BY <2>1 DEF Moves, becomes
<1>4. CASE /\ canRetry(req[r], classifyStatus(status))
           /\ \E wait \in retryWaits(classifyStatus(status), Unstated, req[r].retriesUsed) :
                req' = [req EXCEPT ![r] = backoff(@, wait)]
  <2>1. PICK wait \in Nat : req' = [req EXCEPT ![r] = backoff(req[r], wait)]
    BY <1>4, WaitsAreNat
  <2> DEFINE new == backoff(req[r], wait)
  <2>2. new \in Request /\ SameCall(new, req[r]) /\ new.phase = "backoff" /\ new.result = req[r].result
    BY <1>2, BackoffRequest
  <2>3. /\ req[r].retriesUsed < MaxRetries
        /\ req[r].method \notin IDEMPOTENT_METHODS => unprocessed(status)
    BY <1>4 DEF canRetry, shouldRetry, classifyStatus, NOT_PROCESSED_STATUSES, unprocessed
  <2>4. Performed(r, req[r].method \in IDEMPOTENT_METHODS)
    BY <1>1, <2>3 DEF Performed
  <2> HIDE DEF new
  <2>5. becomes(r, new) /\ BacksOff(r, new)
    BY <1>2, <2>1, <2>2, <2>3, <2>4 DEF becomes, SameCall, BacksOff, new
  <2>6. QED BY <2>2, <2>5 DEF Moves
<1>5. QED BY <1>1, <1>3, <1>4 DEF HandleResponse

LEMMA StepMoves ==
  ASSUME TypeInv, NEW r \in Requests, Step(r)
  PROVE  Moves(r)
<1>1. req[r] \in Request
  BY DEF TypeInv, TypeOK
<1>2. CASE Issue(r)
  BY <1>1, <1>2, AttemptMoves DEF Issue
<1>3. CASE Retry(r)
  <2> DEFINE q == [req[r] EXCEPT !.retriesUsed = @ + 1]
  <2>1. req[r].phase = "backoff" /\ req[r].retriesUsed < MaxRetries
    BY <1>3 DEF Retry, TypeInv, RetriesLeft
  <2>2. q \in Request /\ q.method = req[r].method /\ q.result = req[r].result
    <3>1. req[r].retriesUsed + 1 \in 0 .. MaxRetries
      BY <1>1, <2>1, ClientAssumption DEF Request
    <3>2. QED BY <1>1, <3>1 DEF Request
  <2>3. QED BY <1>3, <2>1, <2>2, AttemptMoves DEF Retry
<1>4. CASE Reauthenticate(r)
  <2> DEFINE new == [req[r] EXCEPT !.phase = "reauth", !.fetch = awaited]
  <2>1. /\ new \in Request /\ new.method = req[r].method /\ new.result = req[r].result
        /\ new.phase = "reauth" /\ new.fetch = awaited
    BY <1>1, AwaitedIsOne DEF Request
  <2>2. req' = [req EXCEPT ![r] = new]
    BY <1>1, <1>4 DEF Reauthenticate, Request, TypeInv, TypeOK
  <2>3. becomes(r, new) /\ AsksForToken(r, new)
    BY <1>4, <2>1, <2>2 DEF Reauthenticate, becomes, AsksForToken
  <2>4. QED BY <2>1, <2>3 DEF Moves
<1>5. CASE RejectedAgain(r)
  <2> DEFINE new == settled(req[r], "fatal-auth")
  <2>1. becomes(r, new) /\ IsRejected(r, new)
    BY <1>1, <1>5, SettledRequest DEF RejectedAgain, becomes, SameCall, IsRejected
  <2>2. QED BY <2>1 DEF Moves, becomes
<1>6. CASE Abort(r) /\ waiting(r)
  <2> DEFINE new == [req[r] EXCEPT !.aborted = TRUE]
  <2>1. /\ new \in Request /\ new.method = req[r].method /\ new.result = req[r].result
        /\ new.phase = req[r].phase /\ new.fetch = req[r].fetch /\ new.token = req[r].token
    BY <1>1 DEF Request
  <2>2. /\ req' = [req EXCEPT ![r] = new]
        /\ UNCHANGED <<client, current, pending, fetches, valid, revoked, refused, reissued, applied>>
    BY <1>6 DEF Abort, Thrown, waiting
  <2>3. becomes(r, new) /\ IsAborted(r, new)
    BY <1>6, <2>1, <2>2 DEF becomes, IsAborted
  <2>4. QED BY <2>1, <2>3 DEF Moves
<1>7. CASE Abort(r) /\ ~waiting(r)
  BY <1>7, ThrownMoves DEF Abort, waiting
<1>8. QED BY <1>2, <1>3, <1>4, <1>5, <1>6, <1>7, AuthorisedMoves, ThrownMoves DEF Step, Drop

(***************************************************************************)
(* The answer to a token request, for all who wait for it.                 *)
(***************************************************************************)
LEMMA AllWait ==
  ASSUME TypeInv, NEW f \in fetches
  PROVE  f = pending /\ fetches = {f} /\ \A r \in Requests : r \in waiters(f) <=> waiting(r)
BY DEF TypeInv, OneRefreshAtATime, waiters, waiting

LEMMA HeldIsFinite == IsFiniteSet(held) /\ \A r \in Requests : req[r].token \in held
<1> DEFINE T == {req[r].token : r \in Requests}
           g == [r \in Requests |-> req[r].token]
<1>1. g \in Surjection(Requests, T)
  BY DEF Surjection
<1>2. IsFiniteSet(T)
  BY <1>1, FS_Surjection, ClientAssumption
<1>3. held = T \cup {current.accessToken}
  BY DEF held
<1>4. QED BY <1>2, <1>3, FS_AddElement DEF held

TokenComes(id) ==
  /\ id \in (valid \cap {current.accessToken}) \cup {unused(held)}
  /\ reissued' = (reissued \/ id = current.accessToken)
  /\ valid' = (valid \cap held) \cup {id}
  /\ current'.accessToken = id
  /\ current' \in [accessToken : Nat, expiresIn : Int]
  /\ id \in Nat \ {0}
  /\ pending' = NoFetch /\ fetches' = {} /\ client' = "ready"
  /\ req' \in [Requests -> Request]
  /\ \A r \in Requests :
       \/ ~waiting(r) /\ req'[r] = req[r]
       \/ waiting(r) /\ \E wait \in Nat : req'[r] = withToken(req[r], id, wait)
  /\ UNCHANGED <<revoked, refused, applied>>

LEMMA AnswerOutcome ==
  ASSUME TypeInv, NEW f \in fetches, TokenAnswer(f)
  PROVE  \E id \in Nat : TokenComes(id)
<1>1. PICK id \in (valid \cap {current.accessToken}) \cup {unused(held)}, ttl \in Ttls :
        /\ reissued' = (reissued \/ id = current.accessToken)
        /\ valid' = (valid \cap held) \cup {id}
        /\ current' = [accessToken |-> id, expiresIn |-> ttlOf(ttl)]
        /\ \E wait \in {w \in [waiters(f) -> 0 .. MaxBackoffMs] :
                          \A r \in waiters(f) : w[r] \in backoffWaits(req[r].retriesUsed)} :
             req' = [r \in Requests |->
                       IF r \in waiters(f) THEN withToken(req[r], id, wait[r]) ELSE req[r]]
  BY DEF TokenAnswer, Resume
<1>2. unused(held) \in Nat \ {0}
  BY HeldIsFinite, FreeNumber
<1>3. id \in Nat
  BY <1>1, <1>2 DEF TypeInv, TypeOK
<1>4. id # 0
  <2>1. CASE id = unused(held)
    BY <1>2, <2>1
  <2>2. CASE id \in valid /\ id = current.accessToken
    BY <2>2 DEF TypeInv, NamesAreNotZero
  <2>3. QED BY <1>1, <2>1, <2>2
<1>5. ttlOf(ttl) \in Int
  BY TtlIsInt
<1>6. PICK wait \in [waiters(f) -> Nat] :
        req' = [r \in Requests |->
                  IF r \in waiters(f) THEN withToken(req[r], id, wait[r]) ELSE req[r]]
  BY <1>1, WaitsAreNat
<1>7. \A r \in Requests :
        \/ ~waiting(r) /\ req'[r] = req[r]
        \/ waiting(r) /\ \E w \in Nat : req'[r] = withToken(req[r], id, w)
  BY <1>6, AllWait
<1>8. req' \in [Requests -> Request]
  <2>1. \A r \in Requests : req[r] \in Request
    BY DEF TypeInv, TypeOK
  <2>2. ASSUME NEW r \in Requests PROVE req'[r] \in Request
    BY <1>3, <1>7, <2>1, TokenRequest DEF waiting
  <2>3. QED BY <1>6, <2>2
<1>9. pending' = NoFetch /\ fetches' = {} /\ client' = "ready" /\ UNCHANGED <<revoked, refused, applied>>
  BY AllWait DEF TokenAnswer
<1>10. TokenComes(id)
  BY <1>1, <1>3, <1>4, <1>5, <1>7, <1>8, <1>9 DEF TokenComes
<1>11. QED BY <1>3, <1>10

TokenIsRefused ==
  /\ req' \in [Requests -> Request]
  /\ \A r \in Requests :
       \/ ~waiting(r) /\ req'[r] = req[r]
       \/ waiting(r) /\ \E wait \in Nat, kind \in {"network", "timeout"} :
                          req'[r] = thrown(req[r], kind, wait)
  /\ pending' = NoFetch /\ fetches' = {} /\ refused' \in Nat
  /\ client' \in {"creating", "ready", "failed"}
  /\ UNCHANGED <<current, valid, revoked, reissued, applied>>

LEMMA FailureOutcome ==
  ASSUME TypeInv, NEW f \in fetches, TokenFails(f)
  PROVE  TokenIsRefused
<1>1. PICK wait \in {w \in [waiters(f) -> 0 .. MaxBackoffMs] :
                       \A r \in waiters(f) : w[r] \in backoffWaits(req[r].retriesUsed)} :
        req' = [r \in Requests |->
                  IF r \in waiters(f)
                    THEN thrown(req[r], IF req[r].aborted THEN "timeout" ELSE "network", wait[r])
                    ELSE req[r]]
  BY DEF TokenFails, Resume
<1>2. wait \in [waiters(f) -> Nat]
  BY <1>1, WaitsAreNat
<1>3. \A r \in Requests :
        \/ ~waiting(r) /\ req'[r] = req[r]
        \/ waiting(r) /\ \E w \in Nat, kind \in {"network", "timeout"} :
                           req'[r] = thrown(req[r], kind, w)
  BY <1>1, <1>2, AllWait
<1>4. req' \in [Requests -> Request]
  <2>1. \A r \in Requests : req[r] \in Request
    BY DEF TypeInv, TypeOK
  <2>2. ASSUME NEW r \in Requests PROVE req'[r] \in Request
    BY <1>3, <2>1, ThrownRequest
  <2>3. QED BY <1>1, <2>2
<1>5. /\ pending' = NoFetch /\ fetches' = {} /\ refused' \in Nat
      /\ client' \in {"creating", "ready", "failed"}
      /\ UNCHANGED <<current, valid, revoked, reissued, applied>>
  <2>1. fetches \ {f} = {}
    BY AllWait
  <2>2. client \in {"creating", "ready", "failed"} /\ refused \in Nat
    BY DEF TypeInv, TypeOK
  <2>3. refused' \in Nat /\ client' \in {"creating", "ready", "failed"}
    <3>1. refused' = refused + 1 /\ client' = IF client = "creating" THEN "failed" ELSE client
      BY DEF TokenFails
    <3>2. QED BY <2>2, <3>1
  <2>4. QED BY <2>1, <2>3 DEF TokenFails
<1>6. QED BY <1>3, <1>4, <1>5 DEF TokenIsRefused

(***************************************************************************)
(* Every step is one of these.                                             *)
(***************************************************************************)
LEMMA NextMoves ==
  ASSUME TypeInv, [Next]_vars
  PROVE  \/ Tick \/ Revoke \/ UNCHANGED vars
         \/ \E r \in Requests : Moves(r)
         \/ \E id \in Nat : TokenComes(id)
         \/ TokenIsRefused
  BY StepMoves, AnswerOutcome, FailureOutcome DEF Next, Endpoint

LEMMA TickOutcome ==
  ASSUME TypeInv, Tick
  PROVE  /\ current' \in [accessToken : Nat, expiresIn : Int]
         /\ current'.accessToken = current.accessToken
         /\ current = NoToken => current' = NoToken
         /\ req' \in [Requests -> Request]
         /\ \A r \in Requests :
              /\ req'[r].phase = req[r].phase /\ req'[r].method = req[r].method
              /\ req'[r].token = req[r].token /\ req'[r].fetch = req[r].fetch
              /\ req'[r].retriesUsed = req[r].retriesUsed /\ req'[r].result = req[r].result
         /\ UNCHANGED <<client, pending, fetches, valid, revoked, refused, reissued, applied>>
<1>1. /\ \A n \in Nat : less(n) \in Nat
      /\ \A n \in Int : less(n) \in Int
  BY DEF less
<1>2. current' = [current EXCEPT !.expiresIn = less(current.expiresIn)]
      /\ current \in [accessToken : Nat, expiresIn : Int]
  BY DEF Tick, TypeInv, TypeOK
<1>3. /\ current' \in [accessToken : Nat, expiresIn : Int]
      /\ current'.accessToken = current.accessToken
  BY <1>1, <1>2
<1>4. current = NoToken => current' = NoToken
  BY <1>2 DEF NoToken, less
<1>5. ASSUME NEW r \in Requests
      PROVE  /\ req'[r] \in Request
             /\ req'[r].phase = req[r].phase /\ req'[r].method = req[r].method
             /\ req'[r].token = req[r].token /\ req'[r].fetch = req[r].fetch
             /\ req'[r].retriesUsed = req[r].retriesUsed /\ req'[r].result = req[r].result
  <2>1. req[r] \in Request /\ req'[r] = [req[r] EXCEPT !.timer = less(req[r].timer)]
    BY DEF Tick, TypeInv, TypeOK
  <2>2. less(req[r].timer) \in Nat
    BY <1>1, <2>1 DEF Request
  <2>3. QED BY <2>1, <2>2 DEF Request
<1>6. req' \in [Requests -> Request]
  BY <1>5 DEF Tick
<1>7. QED BY <1>3, <1>4, <1>5, <1>6 DEF Tick

-----------------------------------------------------------------------------
LEMMA TypeInit == Init => TypeInv
<1> SUFFICES ASSUME Init PROVE TypeInv
  OBVIOUS
<1>1. PICK m \in [Requests -> UNION {Methods[r] : r \in Requests}] :
        req = [r \in Requests |->
                 [phase |-> "idle", method |-> m[r], token |-> 0, fetch |-> NoFetch,
                  aborted |-> FALSE, timer |-> 0, retriesUsed |-> 0, result |-> "none"]]
  BY DEF Init
<1>2. 0 \in 0 .. MaxRetries
  BY ClientAssumption
<1>3. ASSUME NEW r \in Requests PROVE req[r] \in Request /\ req[r].phase = "idle"
  BY <1>1, <1>2 DEF Request, NoFetch
<1>4. /\ client = "creating" /\ current = NoToken /\ pending = 1 /\ fetches = {1} /\ valid = {}
      /\ revoked = 0 /\ refused = 0 /\ reissued = FALSE /\ applied = [r \in Requests |-> 0]
  BY DEF Init
<1>5. req \in [Requests -> Request]
  BY <1>1, <1>3
<1>6. TypeOK
  <2>1. current \in [accessToken : Nat, expiresIn : Int] /\ reissued \in BOOLEAN
    <3>1. 0 \in Nat /\ 0 \in Int
      OBVIOUS
    <3>2. QED BY <1>4, <3>1 DEF NoToken
  <2>2. applied \in [Requests -> Nat]
    BY <1>4
  <2>3. pending \in Nat /\ fetches \subseteq Nat /\ valid \subseteq Nat /\ revoked \in Nat /\ refused \in Nat
    BY <1>4
  <2>4. client \in {"creating", "ready", "failed"}
    BY <1>4
  <2>5. QED BY <1>5, <2>1, <2>2, <2>3, <2>4 DEF TypeOK
<1>7. OneRefreshAtATime /\ WaitersJoin /\ RetriesLeft /\ NamesAreNotZero
  BY <1>3, <1>4 DEF OneRefreshAtATime, WaitersJoin, waiting, RetriesLeft, NamesAreNotZero, NoFetch
<1>8. QED BY <1>6, <1>7 DEF TypeInv

LEMMA MovesKeepTypeInv ==
  ASSUME TypeInv, NEW r \in Requests, Moves(r)
  PROVE  TypeInv'
<1>1. PICK new \in Request :
        /\ becomes(r, new)
        /\ \/ Sends(r, new) \/ AsksForToken(r, new) \/ IsRejected(r, new)
           \/ Ends(r, new) \/ BacksOff(r, new) \/ IsAborted(r, new)
  BY DEF Moves
<1>2. /\ req \in [Requests -> Request] /\ applied \in [Requests -> Nat]
      /\ \A x \in Requests : req'[x] = IF x = r THEN new ELSE req[x]
      /\ req' \in [Requests -> Request]
      /\ UNCHANGED <<client, current, valid, revoked, refused, reissued>>
  BY <1>1 DEF becomes, TypeInv, TypeOK
<1>3. applied' \in [Requests -> Nat]
  <2>1. UNCHANGED applied \/ applied' = [applied EXCEPT ![r] = @ + 1]
    BY <1>1 DEF Sends, AsksForToken, IsRejected, Ends, BacksOff, IsAborted, Performed
  <2>2. QED BY <1>2, <2>1
<1>4. \/ UNCHANGED <<pending, fetches>> /\ (new.phase \in {"token", "reauth"} => waiting(r) /\ new.fetch = req[r].fetch)
      \/ refresh /\ new.fetch = awaited
  BY <1>1 DEF Sends, AsksForToken, IsRejected, Ends, BacksOff, IsAborted
<1>5. pending' \in Nat /\ fetches' \subseteq Nat
  BY <1>4, AwaitedIsOne DEF refresh, TypeInv, TypeOK
<1>6. OneRefreshAtATime' /\ WaitersJoin'
  <2>1. CASE UNCHANGED <<pending, fetches>> /\ (new.phase \in {"token", "reauth"} => waiting(r) /\ new.fetch = req[r].fetch)
    BY <1>2, <2>1 DEF TypeInv, OneRefreshAtATime, WaitersJoin, waiting
  <2>2. CASE refresh /\ new.fetch = awaited
    <3>1. pending' = awaited /\ fetches' = {awaited} /\ awaited # NoFetch
      <4>1. joinable => fetches = {awaited}
        BY DEF joinable, awaited, TypeInv, OneRefreshAtATime
      <4>2. QED BY <2>2, <4>1, AwaitedIsOne DEF refresh
    <3>2. \A x \in Requests : waiting(x) => pending = awaited /\ req[x].fetch = awaited
      BY DEF TypeInv, WaitersJoin, OneRefreshAtATime, awaited, joinable, waiting
    <3>3. QED BY <1>2, <2>2, <3>1, <3>2 DEF OneRefreshAtATime, WaitersJoin, waiting
  <2>3. QED BY <1>4, <2>1, <2>2
<1>7. RetriesLeft'
  BY <1>1, <1>2 DEF TypeInv, RetriesLeft, Sends, AsksForToken, IsRejected, Ends, BacksOff, IsAborted, waiting
<1>8. TypeOK' /\ NamesAreNotZero'
  BY <1>2, <1>3, <1>5 DEF TypeInv, TypeOK, NamesAreNotZero
<1>9. QED BY <1>6, <1>7, <1>8 DEF TypeInv

LEMMA TypeInvStep == TypeInv /\ [Next]_vars => TypeInv'
<1> SUFFICES ASSUME TypeInv, [Next]_vars PROVE TypeInv'
  OBVIOUS
<1>1. CASE Tick
  BY <1>1, TickOutcome
     DEF TypeInv, TypeOK, OneRefreshAtATime, WaitersJoin, waiting, RetriesLeft, NamesAreNotZero
<1>2. CASE Revoke
  <2>1. /\ valid' \subseteq valid /\ revoked' = revoked + 1
        /\ UNCHANGED <<client, current, pending, fetches, refused, reissued, req, applied>>
    BY <1>2 DEF Revoke
  <2>2. QED BY <2>1 DEF TypeInv, TypeOK, OneRefreshAtATime, WaitersJoin, waiting, RetriesLeft, NamesAreNotZero
<1>3. ASSUME NEW id \in Nat, TokenComes(id)
      PROVE  TypeInv'
  <2>1. ASSUME NEW r \in Requests
        PROVE  ~waiting(r)' /\ (req'[r].phase = "backoff" => req'[r].retriesUsed < MaxRetries)
    <3>1. req[r] \in Request
      BY DEF TypeInv, TypeOK
    <3>2. CASE ~waiting(r)
      BY <1>3, <3>2 DEF TokenComes, waiting, TypeInv, RetriesLeft
    <3>3. CASE waiting(r)
      BY <1>3, <3>1, <3>3, TokenRequest DEF TokenComes, waiting, SameCall
    <3>4. QED BY <3>2, <3>3
  <2>2. TypeOK'
    <3>1. valid' \subseteq Nat /\ reissued' \in BOOLEAN
      BY <1>3 DEF TokenComes, TypeInv, TypeOK
    <3>2. QED BY <1>3, <3>1 DEF TokenComes, TypeInv, TypeOK, NoFetch
  <2>3. OneRefreshAtATime' /\ WaitersJoin' /\ RetriesLeft'
    BY <1>3, <2>1 DEF TokenComes, OneRefreshAtATime, WaitersJoin, RetriesLeft, waiting
  <2>4. NamesAreNotZero'
    BY <1>3 DEF TokenComes, NamesAreNotZero, TypeInv
  <2>5. QED BY <2>2, <2>3, <2>4 DEF TypeInv
<1>4. CASE TokenIsRefused
  <2>1. ASSUME NEW r \in Requests
        PROVE  ~waiting(r)' /\ (req'[r].phase = "backoff" => req'[r].retriesUsed < MaxRetries)
    <3>1. req[r] \in Request
      BY DEF TypeInv, TypeOK
    <3>2. CASE ~waiting(r)
      BY <1>4, <3>2 DEF TokenIsRefused, waiting, TypeInv, RetriesLeft
    <3>3. CASE waiting(r)
      <4>1. PICK wait \in Nat, kind \in {"network", "timeout"} : req'[r] = thrown(req[r], kind, wait)
        BY <1>4, <3>3 DEF TokenIsRefused
      <4>2. QED BY <3>1, <4>1, ThrownRequest DEF waiting, SameCall
    <3>4. QED BY <3>2, <3>3
  <2>2. TypeOK'
    BY <1>4 DEF TokenIsRefused, TypeInv, TypeOK, NoFetch
  <2>3. OneRefreshAtATime' /\ WaitersJoin' /\ RetriesLeft'
    BY <1>4, <2>1 DEF TokenIsRefused, OneRefreshAtATime, WaitersJoin, RetriesLeft, waiting
  <2>4. NamesAreNotZero'
    BY <1>4 DEF TokenIsRefused, NamesAreNotZero, TypeInv
  <2>5. QED BY <2>2, <2>3, <2>4 DEF TypeInv
<1>5. CASE UNCHANGED vars
  BY <1>5 DEF vars, TypeInv, TypeOK, OneRefreshAtATime, WaitersJoin, waiting, RetriesLeft, NamesAreNotZero
<1>6. QED BY <1>1, <1>2, <1>3, <1>4, <1>5, NextMoves, MovesKeepTypeInv

LEMMA TypeInvariant == Spec => []TypeInv
  BY TypeInit, TypeInvStep, PTL DEF Spec

(* The client keeps its types, and however many requests find the token    *)
(* stale or rejected at once, one token request is in flight and all who   *)
(* wait, wait for it (auth.ts 68-72).                                      *)
THEOREM ClientTypeCorrect == Spec => [](TypeOK /\ OneRefreshAtATime)
<1>1. TypeInv => TypeOK /\ OneRefreshAtATime
  BY DEF TypeInv
<1>2. QED BY <1>1, TypeInvariant, PTL

(***************************************************************************)
(* Tokens that expired.                                                    *)
(***************************************************************************)
LeavesFresh(r) ==
  /\ req'[r].token = current'.accessToken
  /\ \/ current'.expiresIn > 0
     \/ req[r].phase = "token" /\ req[r].fetch \in fetches \ fetches'

LEMMA SendsStep ==
  ASSUME TypeInv, [Next]_vars, NEW r \in Requests,
         req[r].phase # "send", req'[r].phase = "send"
  PROVE  LeavesFresh(r)
<1>1. CASE Tick \/ Revoke \/ UNCHANGED vars
  BY <1>1, TickOutcome DEF Revoke, vars
<1>2. ASSUME NEW x \in Requests, Moves(x)
      PROVE  LeavesFresh(r)
  <2>1. PICK new \in Request :
          /\ becomes(x, new)
          /\ \/ Sends(x, new) \/ AsksForToken(x, new) \/ IsRejected(x, new)
             \/ Ends(x, new) \/ BacksOff(x, new) \/ IsAborted(x, new)
    BY <1>2 DEF Moves
  <2>2. req' = [req EXCEPT ![x] = new] /\ UNCHANGED current /\ req \in [Requests -> Request]
    BY <2>1 DEF becomes, TypeInv, TypeOK
  <2>3. x = r /\ new.phase = "send" /\ req'[r] = new
    BY <2>2
  <2>4. Sends(r, new)
    BY <2>1, <2>3 DEF AsksForToken, IsRejected, Ends, BacksOff, IsAborted
  <2>5. ~(current.expiresIn <= refreshMargin) /\ current.expiresIn \in Int
    BY <2>4 DEF Sends, needsFetch, TypeInv, TypeOK
  <2>6. current.expiresIn > 0
    BY <2>5, MarginIsNat
  <2>7. QED BY <2>2, <2>3, <2>4, <2>6 DEF Sends, LeavesFresh
<1>3. ASSUME NEW id \in Nat, TokenComes(id)
      PROVE  LeavesFresh(r)
  <2>1. waiting(r)
    BY <1>3 DEF TokenComes
  <2>2. PICK wait \in Nat : req'[r] = withToken(req[r], id, wait)
    BY <1>3, <2>1 DEF TokenComes
  <2>3. req[r] \in Request
    BY DEF TypeInv, TypeOK
  <2>4. req'[r].token = id /\ req[r].phase = "token"
    BY <2>1, <2>2, <2>3, TokenRequest DEF waiting
  <2>5. req[r].fetch \in fetches
    BY <2>4 DEF TypeInv, OneRefreshAtATime, WaitersJoin, waiting
  <2>6. QED BY <1>3, <2>4, <2>5 DEF TokenComes, LeavesFresh
<1>4. CASE TokenIsRefused
  <2>1. waiting(r)
    BY <1>4 DEF TokenIsRefused
  <2>2. PICK wait \in Nat, kind \in {"network", "timeout"} : req'[r] = thrown(req[r], kind, wait)
    BY <1>4, <2>1 DEF TokenIsRefused
  <2>3. req[r] \in Request
    BY DEF TypeInv, TypeOK
  <2>4. QED BY <2>2, <2>3, ThrownRequest
<1>5. QED BY <1>1, <1>2, <1>3, <1>4, NextMoves

(* No request leaves with a cached token that the client knows to be       *)
(* expired, whatever lifetimes the endpoint states, zero and negative ones *)
(* included: an expired token goes out only with the requests that waited  *)
(* for the very answer that brought it (auth.ts 63, 85, 101-116).          *)
THEOREM ExpiredIsNeverSent == Spec => NeverSendsExpired
<1>1. TypeInv /\ [Next]_vars =>
        [\A r \in Requests :
           req[r].phase # "send" /\ req'[r].phase = "send" =>
             /\ req'[r].token = current'.accessToken
             /\ \/ current'.expiresIn > 0
                \/ req[r].phase = "token" /\ req[r].fetch \in fetches \ fetches']_vars
  BY SendsStep DEF LeavesFresh
<1>2. QED BY <1>1, TypeInvariant, PTL DEF Spec, NeverSendsExpired

(***************************************************************************)
(* Revocations.                                                            *)
(***************************************************************************)
LEMMA MovesKeepRevocation ==
  ASSUME TypeInv, RevocationInv, NEW r \in Requests, Moves(r)
  PROVE  RevocationInv'
<1>1. PICK new \in Request :
        /\ becomes(r, new)
        /\ \/ Sends(r, new) \/ AsksForToken(r, new) \/ IsRejected(r, new)
           \/ Ends(r, new) \/ BacksOff(r, new) \/ IsAborted(r, new)
  BY DEF Moves
<1>2. /\ \A x \in Requests : req'[x] = IF x = r THEN new ELSE req[x]
      /\ UNCHANGED <<current, valid, revoked, reissued>>
  BY <1>1 DEF becomes, TypeInv, TypeOK
<1>3. /\ new.phase = "send" /\ new.token \notin valid => revoked >= 1
      /\ new.phase \in {"reauth", "resend"} => revoked >= 1
      /\ new.phase = "resend" /\ new.token \notin valid => revoked >= 2
  <2>1. CASE Sends(r, new)
    BY <2>1 DEF Sends, needsFetch, RevocationInv, RevocationsSeen
  <2>2. CASE ~Sends(r, new)
    BY <1>1, <2>2 DEF AsksForToken, IsRejected, Ends, BacksOff, IsAborted, RevocationInv, RevocationsSeen, waiting
  <2>3. QED BY <2>1, <2>2
<1>4. new.result = "fatal-auth" => reissued \/ revoked >= 2
  BY <1>1 DEF Sends, AsksForToken, IsRejected, Ends, BacksOff, IsAborted,
              RevocationInv, RevocationsSeen, RevocationIsSurvived
<1>5. QED BY <1>2, <1>3, <1>4 DEF RevocationInv, RevocationsSeen, RevocationIsSurvived

LEMMA RevocationStep == TypeInv /\ RevocationInv /\ [Next]_vars => RevocationInv'
<1> SUFFICES ASSUME TypeInv, RevocationInv, [Next]_vars PROVE RevocationInv'
  OBVIOUS
<1>1. CASE Tick
  BY <1>1, TickOutcome DEF RevocationInv, RevocationsSeen, RevocationIsSurvived
<1>2. CASE Revoke
  <2>1. /\ \E id \in valid : valid' = valid \ {id}
        /\ revoked' = revoked + 1 /\ revoked \in Nat
        /\ UNCHANGED <<current, reissued, req>>
    BY <1>2 DEF Revoke, TypeInv, TypeOK
  <2>2. QED BY <2>1 DEF RevocationInv, RevocationsSeen, RevocationIsSurvived
<1>3. ASSUME NEW id \in Nat, TokenComes(id)
      PROVE  RevocationInv'
  <2>1. /\ id \in valid' /\ UNCHANGED revoked /\ reissued' = (reissued \/ id = current.accessToken)
        /\ valid \cap held \subseteq valid' /\ current'.accessToken = id
    BY <1>3 DEF TokenComes
  <2>2. \A x \in Requests : req[x].token \in held /\ (req[x].token \in valid => req[x].token \in valid')
    BY <2>1, HeldIsFinite
  <2>3. ASSUME NEW r \in Requests
        PROVE  /\ req'[r].phase = "send" /\ req'[r].token \notin valid' => revoked >= 1
               /\ req'[r].phase \in {"reauth", "resend"} => revoked >= 1
               /\ req'[r].phase = "resend" /\ req'[r].token \notin valid' => revoked >= 2
               /\ req'[r].result = "fatal-auth" => reissued' \/ revoked >= 2
    <3>1. /\ req[r].phase = "send" /\ req[r].token \notin valid => revoked >= 1
          /\ req[r].phase \in {"reauth", "resend"} => revoked >= 1
          /\ req[r].phase = "resend" /\ req[r].token \notin valid => revoked >= 2
          /\ req[r].result = "fatal-auth" => reissued \/ revoked >= 2
          /\ req[r] \in Request
      BY DEF RevocationInv, RevocationsSeen, RevocationIsSurvived, TypeInv, TypeOK
    <3>2. CASE ~waiting(r)
      <4>1. req'[r] = req[r]
        BY <1>3, <3>2 DEF TokenComes
      <4>2. QED BY <2>1, <2>2, <3>1, <4>1
    <3>3. CASE waiting(r)
      <4>1. PICK wait \in Nat : req'[r] = withToken(req[r], id, wait)
        BY <1>3, <3>3 DEF TokenComes
      <4>2. req[r].phase = "reauth" /\ id = req[r].token => id = current.accessToken
        <5>1. unused(held) # req[r].token
          BY HeldIsFinite, FreeNumber
        <5>2. QED BY <1>3, <5>1 DEF TokenComes
      <4>3. \/ req'[r].phase \in {"backoff", "settled"} /\ req'[r].result \in {req[r].result, "exhausted"}
            \/ req'[r].phase = "send" /\ req'[r].token = id /\ req'[r].result = req[r].result
            \/ /\ req'[r].phase = "resend" /\ req[r].phase = "reauth"
               /\ req'[r].token = id /\ req'[r].result = req[r].result
            \/ req'[r].phase = "settled" /\ req[r].phase = "reauth" /\ id = req[r].token
        BY <3>1, <3>3, <4>1, TokenRequest DEF waiting
      <4>4. QED BY <2>1, <3>1, <4>2, <4>3
    <3>4. QED BY <3>2, <3>3
  <2>4. QED BY <2>1, <2>3 DEF RevocationInv, RevocationsSeen, RevocationIsSurvived
<1>4. CASE TokenIsRefused
  <2>1. ASSUME NEW r \in Requests
        PROVE  \/ req'[r] = req[r]
               \/ req'[r].phase \in {"backoff", "settled"} /\ req'[r].result \in {req[r].result, "exhausted"}
    <3>1. req[r] \in Request
      BY DEF TypeInv, TypeOK
    <3>2. QED BY <1>4, <3>1, ThrownRequest DEF TokenIsRefused
  <2>2. UNCHANGED <<current, valid, revoked, reissued>>
    BY <1>4 DEF TokenIsRefused
  <2>3. QED BY <2>1, <2>2 DEF RevocationInv, RevocationsSeen, RevocationIsSurvived
<1>5. CASE UNCHANGED vars
  BY <1>5 DEF vars, RevocationInv, RevocationsSeen, RevocationIsSurvived
<1>6. QED BY <1>1, <1>2, <1>3, <1>4, <1>5, NextMoves, MovesKeepRevocation

(* One revocation never costs a request: a fatal 401 means two of them, or *)
(* an endpoint that handed out the rejected token again (client.ts 57-59). *)
THEOREM RevocationCostsNothing == Spec => []RevocationIsSurvived
<1>1. Init => RevocationInv
  BY DEF Init, RevocationInv, RevocationsSeen, RevocationIsSurvived
<1>2. Spec => []RevocationInv
  BY <1>1, RevocationStep, TypeInvariant, PTL DEF Spec
<1>3. RevocationInv => RevocationIsSurvived
  BY DEF RevocationInv
<1>4. QED BY <1>2, <1>3, PTL

(***************************************************************************)
(* Mutations.                                                              *)
(***************************************************************************)
LEMMA MutationStep == TypeInv /\ MutationInv /\ [Next]_vars => MutationInv'
<1> SUFFICES ASSUME TypeInv, MutationInv, [Next]_vars, NEW r \in Requests,
                    req'[r].method \notin IDEMPOTENT_METHODS
             PROVE  applied'[r] <= 1 /\ (applied'[r] # 0 => req'[r].phase = "settled")
  BY DEF MutationInv, AtMostOnce, PerformedIsOver
<1>1. /\ req \in [Requests -> Request] /\ applied \in [Requests -> Nat]
      /\ req[r].method \notin IDEMPOTENT_METHODS =>
           applied[r] <= 1 /\ (applied[r] # 0 => req[r].phase = "settled")
  BY DEF TypeInv, TypeOK, MutationInv, AtMostOnce, PerformedIsOver
<1>2. CASE Tick \/ Revoke \/ UNCHANGED vars
  BY <1>1, <1>2, TickOutcome DEF Revoke, vars
<1>3. ASSUME NEW x \in Requests, Moves(x)
      PROVE  applied'[r] <= 1 /\ (applied'[r] # 0 => req'[r].phase = "settled")
  <2>1. PICK new \in Request :
          /\ becomes(x, new)
          /\ \/ Sends(x, new) \/ AsksForToken(x, new) \/ IsRejected(x, new)
             \/ Ends(x, new) \/ BacksOff(x, new) \/ IsAborted(x, new)
    BY <1>3 DEF Moves
  <2>2. req' = [req EXCEPT ![x] = new] /\ new.method = req[x].method
    BY <2>1 DEF becomes
  <2>3. applied' = applied \/ applied' = [applied EXCEPT ![x] = @ + 1]
    BY <2>1 DEF Sends, AsksForToken, IsRejected, Ends, BacksOff, IsAborted, Performed
  <2>4. CASE x # r
    BY <1>1, <2>2, <2>3, <2>4
  <2>5. CASE x = r
    <3>1. req[r].phase # "settled" /\ applied[r] = 0 /\ req'[r] = new
      BY <1>1, <2>1, <2>2, <2>5
         DEF Sends, AsksForToken, IsRejected, Ends, BacksOff, IsAborted, waiting
    <3>2. CASE Ends(x, new)
      BY <1>1, <2>3, <2>5, <3>1, <3>2 DEF Ends
    <3>3. CASE ~Ends(x, new)
      <4>1. applied' = applied
        BY <2>1, <2>2, <2>5, <3>1, <3>3
           DEF Sends, AsksForToken, IsRejected, BacksOff, IsAborted, Performed
      <4>2. QED BY <3>1, <4>1
    <3>4. QED BY <3>2, <3>3
  <2>6. QED BY <2>4, <2>5
<1>4. ASSUME UNCHANGED applied, waiting(r) => SameCall(req'[r], req[r]), ~waiting(r) => req'[r] = req[r]
      PROVE  applied'[r] <= 1 /\ (applied'[r] # 0 => req'[r].phase = "settled")
  BY <1>1, <1>4 DEF SameCall, waiting
<1>5. ASSUME NEW id \in Nat, TokenComes(id)
      PROVE  applied'[r] <= 1 /\ (applied'[r] # 0 => req'[r].phase = "settled")
  <2>1. ASSUME waiting(r)
        PROVE  SameCall(req'[r], req[r])
    <3>1. PICK wait \in Nat : req'[r] = withToken(req[r], id, wait)
      BY <1>5, <2>1 DEF TokenComes
    <3>2. req[r] \in Request /\ req[r].phase \in {"token", "reauth"}
      BY <1>1, <2>1 DEF waiting
    <3>3. SameCall(withToken(req[r], id, wait), req[r])
      BY <3>2, TokenRequest
    <3>4. QED BY <3>1, <3>3
  <2>2. QED BY <1>4, <1>5, <2>1 DEF TokenComes
<1>6. CASE TokenIsRefused
  <2>1. ASSUME waiting(r)
        PROVE  SameCall(req'[r], req[r])
    <3>1. PICK wait \in Nat, kind \in {"network", "timeout"} : req'[r] = thrown(req[r], kind, wait)
      BY <1>6, <2>1 DEF TokenIsRefused
    <3>2. SameCall(thrown(req[r], kind, wait), req[r])
      BY <1>1, ThrownRequest
    <3>3. QED BY <3>1, <3>2
  <2>2. QED BY <1>4, <1>6, <2>1 DEF TokenIsRefused
<1>7. QED BY <1>2, <1>3, <1>5, <1>6, NextMoves

(* A mutation is performed at most once, through retries and through the   *)
(* second fetch after a 401.                                               *)
THEOREM ClientMutatesOnce == Spec => []AtMostOnce
<1>1. Init => MutationInv
  BY DEF Init, MutationInv, AtMostOnce, PerformedIsOver
<1>2. Spec => []MutationInv
  BY <1>1, MutationStep, TypeInvariant, PTL DEF Spec
<1>3. MutationInv => AtMostOnce
  BY DEF MutationInv
<1>4. QED BY <1>2, <1>3, PTL
=============================================================================
