----------------------------- MODULE RetryPolicy ----------------------------
(***************************************************************************)
(* How the client SDK classifies the end of one attempt and decides        *)
(* whether, and after how long, to try again: errors.ts, backoff.ts and    *)
(* retry-after.ts of reso-client/src/http/resilience.                      *)
(*                                                                         *)
(* Time is counted in clock units of which Second make a second; the code  *)
(* has Second = 1000.                                                      *)
(***************************************************************************)
EXTENDS Integers

CONSTANTS
  Second,              \* clock units in one second
  BaseMs,              \* BackoffConfig.baseMs
  MaxBackoffMs,        \* BackoffConfig.maxMs
  DefaultRetryWaitMs,  \* config.defaultRetryWaitMs
  RetryableStatuses,   \* config.retryableStatuses, or Unrestricted
  Unrestricted         \* stands for the undefined allowlist

ASSUME PolicyAssumption ==
  /\ Second \in Nat \ {0}
  /\ BaseMs \in Nat
  /\ MaxBackoffMs \in Nat
  /\ DefaultRetryWaitMs \in Nat
  /\ RetryableStatuses # Unrestricted => RetryableStatuses \subseteq Nat

NoStatus == 0   \* classification.status is undefined: no response came back

Failure == [kind : {"terminal-4xx", "throttle-429", "transient-5xx",
                    "network", "timeout", "fatal-auth"},
            status : Nat]

isError(status) == status >= 400

(* classifyStatus, for a status >= 400; the earlier line wins, as in the   *)
(* code: 501 is terminal although it is a 5xx, 401 is fatal, 403 is not.   *)
classifyStatus(status) ==
  [kind |-> CASE status = 429 -> "throttle-429"
              [] status = 401 -> "fatal-auth"
              [] status >= 500 /\ status # 501 -> "transient-5xx"
              [] OTHER -> "terminal-4xx",
   status |-> status]

(* classifyThrown: our own abort is a timeout, any other throw a network   *)
(* failure; neither carries a status.                                      *)
classifyThrown(kind) == [kind |-> kind, status |-> NoStatus]

retryable(failure) ==
  failure.kind \in {"throttle-429", "transient-5xx", "network", "timeout"}

IDEMPOTENT_METHODS == {"GET", "HEAD", "PUT", "DELETE", "OPTIONS"}

(* Faulty: a 500 is taken for a promise that nothing was done.             *)
FaultyNotProcessed == {429, 500, 503}

NOT_PROCESSED_STATUSES == {429, 503}

(* Faulty: whatever is retryable is retried, whatever the method.          *)
FaultyShouldRetry(failure, method) == retryable(failure)

shouldRetry(failure, method) ==
  /\ retryable(failure)
  /\ method \in IDEMPOTENT_METHODS \/ failure.status \in NOT_PROCESSED_STATUSES

statusAllowsRetry(failure) ==
  RetryableStatuses # Unrestricted => failure.status \in RetryableStatuses

(* A Retry-After header: absent or unparseable, delay-seconds, or a date.  *)
NoHeader == [form |-> "none", value |-> 0]

(* parseRetryAfterMs(header, now), with -1 for its null.                   *)
Unstated == -1

parseRetryAfterMs(header, now) ==
  CASE header.form = "seconds" -> header.value * Second
    [] header.form = "date" -> IF header.value > now THEN header.value - now ELSE 0
    [] OTHER -> Unstated

(* The waits backoffMs(attempt) may draw: full jitter, rounded down, below *)
(* min(maxMs, baseMs * 2^attempt).                                         *)
backoffCeiling(attempt) ==
  LET grown == BaseMs * 2^attempt
  IN  IF grown < MaxBackoffMs THEN grown ELSE MaxBackoffMs

backoffWaits(attempt) == {0} \cup 0 .. backoffCeiling(attempt) - 1

(* The waits before retrying a response: the stated one, else the long     *)
(* default for a throttle and the jittered backoff for a transient error.  *)
retryWaits(failure, stated, attempt) ==
  IF stated # Unstated THEN {stated}
  ELSE IF failure.kind = "throttle-429" THEN {DefaultRetryWaitMs}
  ELSE backoffWaits(attempt)
=============================================================================
