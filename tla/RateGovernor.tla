---------------------------- MODULE RateGovernor ----------------------------
(***************************************************************************)
(* The token bucket of the client SDK                                      *)
(* (reso-client/src/http/resilience/rate-governor.ts).                     *)
(*                                                                         *)
(* The code counts fractional tokens at ratePerSec tokens a second.  Here  *)
(* a bucket counts credit in milliseconds of accrual: one token is TokenMs *)
(* = 1000 / ratePerSec of credit, so the arithmetic is exact.  TokenMs = 0 *)
(* stands for ratePerSec = 0, the disabled governor.  The serialisation    *)
(* through bucket.tail belongs to the callers and is modelled by the       *)
(* queues of ResilientSend.                                                *)
(***************************************************************************)
EXTENDS Integers

CONSTANTS
  TokenMs,   \* milliseconds that earn one token, 0 when pacing is disabled
  Burst      \* GovernorConfig.burst, the bucket's capacity in tokens

ASSUME GovernorAssumption ==
  /\ TokenMs \in Nat
  /\ Burst \in Nat \ {0}

Capacity == Burst * TokenMs

Bucket == [credit : Nat, lastRefillMs : Nat]

(* bucketFor creates a full bucket on first use; a bucket that is full     *)
(* from the start is refilled to the same credit, so creation is eager.    *)
freshBucket == [credit |-> Capacity, lastRefillMs |-> 0]

(* Faulty: the refill forgets the bucket's capacity.                       *)
FaultyRefill(b, now) ==
  [credit |-> b.credit + (now - b.lastRefillMs), lastRefillMs |-> now]

refill(b, now) ==
  LET earned == b.credit + (now - b.lastRefillMs)
  IN  [credit |-> IF earned < Capacity THEN earned ELSE Capacity,
       lastRefillMs |-> now]

hasToken(b) == b.credit >= TokenMs

(* Faulty: the wait is rounded down by one.                                *)
FaultyWaitMs(b) == TokenMs - b.credit - 1

waitMs(b) == TokenMs - b.credit

spend(b) == [b EXCEPT !.credit = @ - TokenMs]
=============================================================================
