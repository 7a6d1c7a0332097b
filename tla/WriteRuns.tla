------------------------------ MODULE WriteRuns -------------------------------
(***************************************************************************)
(* The runs that write to a provider's server, and what they owe it.       *)
(***************************************************************************)
EXTENDS AddEdit, Canary

Next == AddEditNext \/ (CanaryNext /\ UNCHANGED pretended)

Spec == Init /\ [][Next]_vars

-----------------------------------------------------------------------------
(* Every variable has its type, and a record is cleaned up once at most.   *)
TypeOK ==
  /\ run \in Runs
  /\ phase \in {"checking", "act", "follow", "cleaning", "look", "gone", "done"}
  /\ \A k \in Keys : record[k] \in {"theirs", "made", "updated", "absent"}
  /\ Range(created) \subseteq Keys /\ removed \subseteq Range(created)
  /\ Range(remaining) \subseteq Range(created) /\ made \subseteq Keys
  /\ passed \cap failed = {}
  /\ report.removed \cup report.notRemoved \cup report.left \subseteq Keys
  /\ high \in -1 .. newest /\ polls \in 0 .. MaxPolls

(* What a run may touch: the records its payloads name, or it made.        *)
ours ==
  made \cup (IF addEdit THEN {run.createKey, run.updateKey, run.deleteId} ELSE {})

(* A provider's own records are left alone, whatever fails: no write goes  *)
(* to the collection's URL, and the clean-up removes nothing the run did   *)
(* not create (test-runner.ts, refused and cleanUp).                       *)
OthersAreLeftAlone == \A k \in Theirs \ ours : record[k] = "theirs"

(* A report accounts for every record the run created and was told of: it  *)
(* is gone, or the report names it as left or as not removed (cleanUp and  *)
(* describeCleanup).  It is wrong of a record only where the clean-up's    *)
(* own delete was answered with a success and removed nothing: that answer *)
(* is not checked by a read, and the record is reported as removed.        *)
MadeIsAccountedFor ==
  addEdit /\ report.outcome = "reported"
    => \A k \in told :
         \/ record[k] = "absent"
         \/ k \in report.left \cup report.notRemoved
         \/ k \in report.removed \cap pretended

(* What passes against the feed is of this run.  A canary that passes its  *)
(* three scenarios had each of its changes in the feed, whatever was       *)
(* announced late, lost or read in error in between; and incremental sync  *)
(* passes a full run only for an event that came after the run began to    *)
(* write, on a feed that was not empty too (fetchBaseline's comment).      *)
PassedMeansAnnounced ==
  /\ Range(canaryScenarios) \subseteq passed
       => \A name \in Range(canaryScenarios) : \E e \in events : e.by = name
  /\ canary /\ run.mode = "full" /\ "sync" \in passed => \E e \in events : e.by # "old"

(* A scenario fails only when something went wrong outside the runner: a   *)
(* server that does what it is asked, answers as it should and announces   *)
(* in time fails none.                                                     *)
FailureIsTheProviders == failed # {} => blame

(* Claimed by test-runner.ts:110-112, and not so: a run that ends early    *)
(* "never leaves on the provider's server what a run that finishes would   *)
(* have removed".                                                          *)
EarlyEndLeavesNothing ==
  addEdit /\ report.outcome = "threw" /\ "delete" \in run.actions
    => \A k \in told : record[k] = "absent" \/ k \in report.notRemoved

=============================================================================
