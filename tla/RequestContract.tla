--------------------------- MODULE RequestContract --------------------------
(***************************************************************************)
(* What the client SDK promises of each logical request, whatever pacing,  *)
(* timeouts, retries and circuit breaking do in between: it goes out at    *)
(* most 1 + MaxRetries times, one attempt at a time; it goes out again     *)
(* only if repeating it is safe or the server has not performed it; and    *)
(* once it is settled nothing of it is sent any more.                      *)
(***************************************************************************)
EXTENDS Naturals

CONSTANTS Calls, MaxRetries

VARIABLES
  safeToRepeat,  \* whether the method is idempotent, fixed from the start
  sends,         \* how often each call was sent
  awaiting,      \* whether its latest attempt is still unanswered
  applied,       \* how often the server performed it
  done           \* whether its caller has the outcome

vars == <<safeToRepeat, sends, awaiting, applied, done>>

Init ==
  /\ safeToRepeat \in [Calls -> BOOLEAN]
  /\ sends = [c \in Calls |-> 0]
  /\ awaiting = [c \in Calls |-> FALSE]
  /\ applied = [c \in Calls |-> 0]
  /\ done = [c \in Calls |-> FALSE]

SendOut(c) ==
  /\ ~done[c] /\ ~awaiting[c]
  /\ sends[c] <= MaxRetries
  /\ safeToRepeat[c] \/ applied[c] = 0
  /\ sends' = [sends EXCEPT ![c] = @ + 1]
  /\ awaiting' = [awaiting EXCEPT ![c] = TRUE]
  /\ UNCHANGED <<safeToRepeat, applied, done>>

(* The attempt ends, performed or not; the call ends with it or goes on.   *)
AttemptEnds(c) ==
  /\ ~done[c] /\ awaiting[c]
  /\ awaiting' = [awaiting EXCEPT ![c] = FALSE]
  /\ \/ applied' = applied
     \/ applied' = [applied EXCEPT ![c] = @ + 1]
  /\ \/ done' = done
     \/ done' = [done EXCEPT ![c] = TRUE]
  /\ UNCHANGED <<safeToRepeat, sends>>

(* Between attempts the call may be refused.                               *)
Refuse(c) ==
  /\ ~done[c] /\ ~awaiting[c]
  /\ done' = [done EXCEPT ![c] = TRUE]
  /\ UNCHANGED <<safeToRepeat, sends, awaiting, applied>>

Next == \E c \in Calls : SendOut(c) \/ AttemptEnds(c) \/ Refuse(c)

Spec == Init /\ [][Next]_vars
=============================================================================
