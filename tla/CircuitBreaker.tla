--------------------------- MODULE CircuitBreaker ---------------------------
(***************************************************************************)
(* The per-key circuit breaker of the client SDK                           *)
(* (reso-client/src/http/resilience/circuit-breaker.ts).                   *)
(*                                                                         *)
(* The code keeps a Map from key to Entry.  Each method reads or replaces  *)
(* one entry synchronously, so a method is an operator from the entry it   *)
(* finds (and the clock it reads) to the entry it leaves.                  *)
(***************************************************************************)
EXTENDS Integers

CONSTANTS
  Threshold,   \* BreakerConfig.threshold
  CooldownMs   \* BreakerConfig.cooldownMs

ASSUME BreakerAssumption ==
  /\ Threshold \in Nat \ {0}
  /\ CooldownMs \in Nat

BreakerState == {"closed", "open", "half-open"}

Entry == [failures : Nat, state : BreakerState, openedAtMs : Nat]

freshEntry == [failures |-> 0, state |-> "closed", openedAtMs |-> 0]

cooledDown(e, now) == now - e.openedAtMs >= CooldownMs

(* The value canProceed returns ...                                        *)
canProceed(e, now) == e.state = "open" => cooledDown(e, now)

(* ... and the entry it leaves: an open breaker whose cooldown has elapsed *)
(* becomes half-open; a half-open one admits every later caller as it is.  *)
admitted(e, now) ==
  IF e.state = "open" /\ cooledDown(e, now)
    THEN [e EXCEPT !.state = "half-open"]
    ELSE e

(* Faulty: a success clears the count but does not close the breaker.      *)
FaultyOnSuccess(e) == [e EXCEPT !.failures = 0]

onSuccess(e) == [e EXCEPT !.failures = 0, !.state = "closed"]

onFailure(e, now) ==
  IF e.state = "half-open" \/ e.failures + 1 >= Threshold
    THEN [failures |-> e.failures + 1, state |-> "open", openedAtMs |-> now]
    ELSE [e EXCEPT !.failures = @ + 1]
=============================================================================
