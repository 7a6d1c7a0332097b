----------------------------- MODULE ODataClient ----------------------------
(***************************************************************************)
(* The requests of one OData client (reso-client/src/http/client.ts) and   *)
(* the token provider they share (http/auth.ts): cached tokens, proactive  *)
(* and forced refresh, de-duplication of refreshes, and the one-shot       *)
(* re-authentication after a 401.                                          *)
(*                                                                         *)
(* The send that request() hands to resilientSend is modelled here step by *)
(* step; around it are the attempts, the timer and the retry decision of   *)
(* resilientSend.  Its breaker, governor and deadline are those of         *)
(* ResilientSend and stay out of this module.                              *)
(*                                                                         *)
(* Time is kept as what is left of each timer and of the token's life, so  *)
(* that the clock itself needs no bound.  Token requests and tokens are    *)
(* numbered, and a number nobody remembers any more is used again.         *)
(***************************************************************************)
EXTENDS Integers, FiniteSets, RetryPolicy

CONSTANTS
  Requests,      \* the requests of the run
  Methods,       \* for each request, the HTTP methods it may have
  Statuses,      \* what the server answers to an authorised request
  Ttls,          \* the expires_in values of token responses, or NotStated
  NotStated,     \* the response states no expires_in
  DefaultTtl,    \* auth.defaultExpiresIn
  RefreshNum, RefreshDen,  \* REFRESH_THRESHOLD = RefreshNum / RefreshDen
  MaxRetries,    \* config.backoff.maxRetries
  TimeoutMs,     \* config.timeoutMs
  MaxFaults      \* bound on revocations and refused token requests together

ASSUME ClientAssumption ==
  /\ IsFiniteSet(Requests)
  /\ Statuses \subseteq Nat \ {NoStatus, 401}
  /\ NotStated \notin Int /\ Ttls \subseteq Int \cup {NotStated}
  /\ DefaultTtl \in Nat \ {0}
  /\ RefreshNum \in Nat /\ RefreshDen \in Nat \ {0} /\ RefreshNum <= RefreshDen
  /\ MaxRetries \in Nat /\ TimeoutMs \in Nat \ {0}
  /\ MaxFaults \in Nat

VARIABLES
  client,    \* createClient: "creating" until the token cache is warm
  current,   \* ref.current, or NoToken
  pending,   \* ref.pending: the token request it stands for, or NoFetch
  fetches,   \* the token requests the endpoint has not answered yet
  valid,     \* the tokens the server accepts
  revoked,   \* how many tokens it has revoked
  refused,   \* how many token requests failed
  reissued,  \* history: a token request was answered with a known token
  req,       \* the control state of each request
  applied    \* how often the server has performed each request

vars == <<client, current, pending, fetches, valid, revoked, refused, reissued,
          req, applied>>

NoToken == [accessToken |-> 0, expiresIn |-> 0]   \* expiresIn is expiresAt - Date.now()
NoFetch == 0

unused(numbers) == CHOOSE n \in 1 .. Cardinality(numbers) + 1 : n \notin numbers

Request ==
  [phase : {"idle", "token", "send", "reauth", "resend", "backoff", "settled"},
   method : UNION {Methods[r] : r \in Requests},
   token : Nat,            \* the token of the attempt's first fetch
   fetch : Nat,            \* the token request it awaits
   aborted : BOOLEAN,      \* the attempt's AbortSignal has fired
   timer : Nat,            \* what is left until it fires, or of the backoff
   retriesUsed : 0 .. MaxRetries,
   result : {"none", "response", "fatal-auth", "exhausted"}]

-----------------------------------------------------------------------------
(***************************************************************************)
(* The token provider.                                                     *)
(***************************************************************************)
(* Any number the response states is taken, zero and less included.       *)
ttlOf(stated) == IF stated = NotStated THEN DefaultTtl ELSE stated

(* refreshAt lies RefreshDen - RefreshNum parts of the default lifetime    *)
(* before the expiry, whatever lifetime the current token was given.       *)
refreshMargin == DefaultTtl - (DefaultTtl * RefreshNum) \div RefreshDen

(* Faulty: the current token is used for as long as there is one.          *)
FaultyNeedsFetch(forceRefresh) == forceRefresh \/ current = NoToken

needsFetch(forceRefresh) ==
  \/ forceRefresh
  \/ current = NoToken
  \/ current.expiresIn <= refreshMargin

joinable == pending # NoFetch

(* refresh(): join the pending request or send one.  awaited is the token  *)
(* request whose answer the caller waits for.                              *)
awaited == IF joinable THEN pending ELSE unused(fetches)

refresh ==
  /\ pending' = awaited
  /\ fetches' = IF joinable THEN fetches ELSE fetches \cup {awaited}

-----------------------------------------------------------------------------
(***************************************************************************)
(* One attempt, as changes to a request's record.                          *)
(***************************************************************************)
settled(q, result) ==
  [q EXCEPT !.phase = "settled", !.result = result, !.timer = 0, !.fetch = NoFetch,
            !.token = 0, !.aborted = FALSE]

backoff(q, wait) ==
  [q EXCEPT !.phase = "backoff", !.timer = wait, !.fetch = NoFetch,
            !.token = 0, !.aborted = FALSE]

(* Faulty: one retry too many.                                             *)
FaultyCanRetry(q, failure) ==
  shouldRetry(failure, q.method) /\ statusAllowsRetry(failure) /\ q.retriesUsed <= MaxRetries

canRetry(q, failure) ==
  shouldRetry(failure, q.method) /\ statusAllowsRetry(failure) /\ q.retriesUsed < MaxRetries

thrown(q, kind, wait) ==
  IF canRetry(q, classifyThrown(kind)) THEN backoff(q, wait) ELSE settled(q, "exhausted")

(* The token request q waits for was answered with token id: the fetch     *)
(* goes out, unless its signal fired meanwhile or a refresh brought back   *)
(* the very token that was rejected, when the 401 itself is the response.  *)
withToken(q, id, wait) ==
  CASE q.aborted -> thrown(q, "timeout", wait)
    [] ~q.aborted /\ q.phase = "token" ->
         [q EXCEPT !.phase = "send", !.token = id, !.fetch = NoFetch]
    [] ~q.aborted /\ q.phase = "reauth" /\ id # q.token ->
         [q EXCEPT !.phase = "resend", !.token = id, !.fetch = NoFetch]
    [] OTHER -> settled(q, "fatal-auth")

Init ==
  /\ client = "creating"
  /\ current = NoToken
  /\ pending = 1 /\ fetches = {1}
  /\ valid = {} /\ revoked = 0 /\ refused = 0
  /\ reissued = FALSE
  /\ \E m \in [Requests -> UNION {Methods[r] : r \in Requests}] :
       /\ \A r \in Requests : m[r] \in Methods[r]
       /\ req = [r \in Requests |->
                  [phase |-> "idle", method |-> m[r], token |-> 0, fetch |-> NoFetch,
                   aborted |-> FALSE, timer |-> 0, retriesUsed |-> 0, result |-> "none"]]
  /\ applied = [r \in Requests |-> 0]

Attempt(r, q) ==
  LET armed == [q EXCEPT !.timer = TimeoutMs, !.aborted = FALSE] IN
  \/ /\ ~needsFetch(FALSE)
     /\ req' = [req EXCEPT ![r] = [armed EXCEPT !.phase = "send",
                                                !.token = current.accessToken]]
     /\ UNCHANGED <<pending, fetches>>
  \/ /\ needsFetch(FALSE)
     /\ req' = [req EXCEPT ![r] = [armed EXCEPT !.phase = "token", !.fetch = awaited]]
     /\ refresh

Issue(r) ==
  /\ client = "ready"
  /\ req[r].phase = "idle"
  /\ Attempt(r, req[r])
  /\ UNCHANGED <<client, current, valid, revoked, refused, reissued, applied>>

Retry(r) ==
  /\ req[r].phase = "backoff"
  /\ req[r].timer = 0
  /\ Attempt(r, [req[r] EXCEPT !.retriesUsed = @ + 1])
  /\ UNCHANGED <<client, current, valid, revoked, refused, reissued, applied>>

-----------------------------------------------------------------------------
(***************************************************************************)
(* The token endpoint (external) and the continuations of refresh().       *)
(***************************************************************************)
waiters(f) == {r \in Requests : req[r].phase \in {"token", "reauth"} /\ req[r].fetch = f}

Resume(f, change(_, _)) ==
  \E wait \in {w \in [waiters(f) -> 0 .. MaxBackoffMs] :
               \A r \in waiters(f) : w[r] \in backoffWaits(req[r].retriesUsed)} :
    req' = [r \in Requests |->
              IF r \in waiters(f) THEN change(req[r], wait[r]) ELSE req[r]]

held == {current.accessToken} \cup {req[r].token : r \in Requests}

(* The endpoint issues a new token, or the current one again.              *)
TokenAnswer(f) ==
  /\ f \in fetches
  /\ \E id \in (valid \cap {current.accessToken}) \cup {unused(held)}, ttl \in Ttls :
       /\ reissued' = (reissued \/ id = current.accessToken)
       /\ valid' = (valid \cap held) \cup {id}
       /\ current' = [accessToken |-> id, expiresIn |-> ttlOf(ttl)]
       /\ Resume(f, LAMBDA q, wait : withToken(q, id, wait))
  /\ pending' = NoFetch
  /\ fetches' = fetches \ {f}
  /\ client' = "ready"
  /\ UNCHANGED <<revoked, refused, applied>>

(* Faulty: the failure leaves ref.pending as it is.                        *)
FaultyTokenFails(f) ==
  /\ f \in fetches
  /\ revoked + refused < MaxFaults
  /\ refused' = refused + 1
  /\ Resume(f, LAMBDA q, wait : thrown(q, IF q.aborted THEN "timeout" ELSE "network", wait))
  /\ fetches' = fetches \ {f}
  /\ client' = IF client = "creating" THEN "failed" ELSE client
  /\ UNCHANGED <<current, pending, valid, revoked, reissued, applied>>

(* It refuses, answers badly or drops: every waiter's send throws, and     *)
(* classifyThrown calls that a network failure.  A client whose first      *)
(* token request fails is never created.                                   *)
TokenFails(f) ==
  /\ f \in fetches
  /\ revoked + refused < MaxFaults
  /\ refused' = refused + 1
  /\ Resume(f, LAMBDA q, wait : thrown(q, IF q.aborted THEN "timeout" ELSE "network", wait))
  /\ pending' = NoFetch
  /\ fetches' = fetches \ {f}
  /\ client' = IF client = "creating" THEN "failed" ELSE client
  /\ UNCHANGED <<current, valid, revoked, reissued, applied>>

(***************************************************************************)
(* The OData server (external) and what send() does with its answer.       *)
(***************************************************************************)
Revoke ==
  /\ revoked + refused < MaxFaults
  /\ \E id \in valid : valid' = valid \ {id}
  /\ revoked' = revoked + 1
  /\ UNCHANGED <<client, current, pending, fetches, refused,
                 reissued, req, applied>>

Performed(r, may) ==
  \/ UNCHANGED applied
  \/ may /\ applied' = [applied EXCEPT ![r] = @ + 1]

unprocessed(status) == status \in {429, 503}

HandleResponse(r, status) ==
  LET failure == classifyStatus(status) IN
  \/ /\ ~isError(status) \/ ~canRetry(req[r], failure)
     /\ req' = [req EXCEPT ![r] = settled(@, "response")]
  \/ /\ isError(status) /\ canRetry(req[r], failure)
     /\ \E wait \in retryWaits(failure, Unstated, req[r].retriesUsed) :
          req' = [req EXCEPT ![r] = backoff(@, wait)]

Authorised(r) ==
  /\ req[r].phase \in {"send", "resend"}
  /\ req[r].token \in valid
  /\ \E status \in Statuses :
       /\ HandleResponse(r, status)
       /\ Performed(r, ~unprocessed(status))
  /\ UNCHANGED <<client, current, pending, fetches, valid, revoked,
                 refused, reissued>>

(* Faulty: the refresh after a 401 is not forced.                          *)
FaultyReauthenticate(r) ==
  /\ req[r].phase = "send"
  /\ req[r].token \notin valid
  /\ IF needsFetch(FALSE)
       THEN /\ req' = [req EXCEPT ![r].phase = "reauth", ![r].fetch = awaited]
            /\ refresh
       ELSE /\ req' = [req EXCEPT ![r] = withToken([@ EXCEPT !.phase = "reauth"],
                                                  current.accessToken, 0)]
            /\ UNCHANGED <<pending, fetches>>
  /\ UNCHANGED <<client, current, valid, revoked, refused, reissued, applied>>

(* A 401 to the first fetch of an attempt forces a refresh ...             *)
Reauthenticate(r) ==
  /\ req[r].phase = "send"
  /\ req[r].token \notin valid
  /\ req' = [req EXCEPT ![r].phase = "reauth", ![r].fetch = awaited]
  /\ refresh
  /\ UNCHANGED <<client, current, valid, revoked, refused, reissued, applied>>

(* ... a 401 to the second is the response, and fatal.                     *)
RejectedAgain(r) ==
  /\ req[r].phase = "resend"
  /\ req[r].token \notin valid
  /\ req' = [req EXCEPT ![r] = settled(@, "fatal-auth")]
  /\ UNCHANGED <<client, current, pending, fetches, valid, revoked,
                 refused, reissued, applied>>

Thrown(r, kind) ==
  /\ req[r].phase \in {"send", "resend"}
  /\ \E wait \in backoffWaits(req[r].retriesUsed) :
       req' = [req EXCEPT ![r] = thrown(@, kind, wait)]
  /\ Performed(r, req[r].token \in valid)
  /\ UNCHANGED <<client, current, pending, fetches, valid, revoked,
                 refused, reissued>>

Drop(r) == Thrown(r, "network")

(* The attempt's timer fires.  It rejects a fetch to the server, but the   *)
(* token request is not given the signal: there it is noticed afterwards.  *)
Abort(r) ==
  /\ req[r].timer = 0
  /\ \/ Thrown(r, "timeout")
     \/ /\ req[r].phase \in {"token", "reauth"} /\ ~req[r].aborted
        /\ req' = [req EXCEPT ![r].aborted = TRUE]
        /\ UNCHANGED <<client, current, pending, fetches, valid,
                       revoked, refused, reissued, applied>>

less(n) == IF n <= 0 THEN n ELSE n - 1

Tick ==
  /\ current' = [current EXCEPT !.expiresIn = less(@)]
  /\ req' = [r \in Requests |-> [req[r] EXCEPT !.timer = less(@)]]
  /\ UNCHANGED <<client, pending, fetches, valid, revoked, refused, reissued, applied>>

-----------------------------------------------------------------------------
Endpoint(f) == TokenAnswer(f) \/ TokenFails(f)

Step(r) == \/ Issue(r) \/ Retry(r) \/ Authorised(r)
           \/ Reauthenticate(r) \/ RejectedAgain(r) \/ Drop(r) \/ Abort(r)

Next ==
  \/ Tick \/ Revoke
  \/ \E r \in Requests : Step(r)
  \/ \E f \in fetches : Endpoint(f)

Spec == Init /\ [][Next]_vars

(* Timers are served and time passes; nothing makes the server answer.     *)
TimerFairness ==
  /\ WF_vars(Tick)
  /\ \A r \in Requests : WF_vars(Retry(r)) /\ WF_vars(Abort(r))

TimerFairSpec == Spec /\ TimerFairness

-----------------------------------------------------------------------------
(***************************************************************************)
(* Properties.                                                             *)
(***************************************************************************)
(* The state has its type.                                                 *)
TypeOK ==
  /\ client \in {"creating", "ready", "failed"}
  /\ current \in [accessToken : Nat, expiresIn : Int]
  /\ pending \in Nat /\ fetches \subseteq Nat /\ valid \subseteq Nat
  /\ revoked \in Nat /\ refused \in Nat /\ reissued \in BOOLEAN
  /\ req \in [Requests -> Request]
  /\ applied \in [Requests -> Nat]

(* However many callers need a token at once, and whether they found it    *)
(* stale or saw it rejected, one token request is in flight at a time, and *)
(* nobody waits for another one (auth.ts 68-72).                           *)
OneRefreshAtATime ==
  /\ fetches = IF pending = NoFetch THEN {} ELSE {pending}
  /\ \A r \in Requests : req[r].phase \in {"token", "reauth"} => req[r].fetch = pending

(* No request leaves with a cached token that the client knows to be       *)
(* expired, also when the token ran out while the request backed off, or   *)
(* when its lifetime was zero or less.  Only a request that waited for a   *)
(* token request takes what it brings, whatever its life (auth.ts 104).    *)
NeverSendsExpired ==
  [][\A r \in Requests :
       req[r].phase # "send" /\ req'[r].phase = "send" =>
         /\ req'[r].token = current'.accessToken
         /\ \/ current'.expiresIn > 0
            \/ req[r].phase = "token" /\ req[r].fetch \in fetches \ fetches']_vars

(* The revocation of one token is invisible to the callers: each request   *)
(* that meets it re-authenticates and goes on (client.ts 57-59).  For a    *)
(* fatal 401 the server must have revoked twice, or the endpoint must have *)
(* handed the same token out again.                                        *)
RevocationIsSurvived ==
  \A r \in Requests : req[r].result = "fatal-auth" => reissued \/ revoked >= 2

(* Neither the retries nor the second fetch after a 401 repeat a mutation  *)
(* that was performed.                                                     *)
AtMostOnce ==
  \A r \in Requests : req[r].method \notin IDEMPOTENT_METHODS => applied[r] <= 1

(* Nothing but an endpoint that never answers a token request keeps a      *)
(* request from settling: not the server, not a refresh that others share  *)
(* and that was aborted, refused or over when the request came to join it. *)
unanswered(r) == req[r].phase \in {"token", "reauth"} /\ req[r].fetch \in fetches

OnlyTheEndpointHangs ==
  \A r \in Requests :
    []<>~unanswered(r) => (req[r].phase # "idle" ~> req[r].phase = "settled")

(* Every request settles, also when the token endpoint hangs as any server *)
(* may: timeout.ts 4-8 promises that such a server does not hang the run.  *)
EveryRequestSettles ==
  \A r \in Requests : req[r].phase # "idle" ~> req[r].phase = "settled"
=============================================================================
