------------------------------ MODULE WriteServer -----------------------------
(***************************************************************************)
(* What the two certification runs that write to a provider's server share *)
(* (AddEdit.tla, Canary.tla): the state of a run and the server it writes  *)
(* to.                                                                     *)
(*                                                                         *)
(* The server is free in what it answers, but honest when it is read: a    *)
(* GET shows the record as it is, and the feed holds events of changes     *)
(* that were made.  Every request may fail to come back, performed or not. *)
(***************************************************************************)
EXTENDS Integers, FiniteSets, FiniteSetsExt, Sequences, SequencesExt

CONSTANTS
  Runs,          \* the configurations of a run: see Run
  Fresh,         \* the keys the server gives to new records, no more of them than these
  Theirs,        \* the records the provider had before
  Missing,       \* a key that names no record
  None,          \* no key
  MaxPolls,      \* pollTimeoutMs / pollIntervalMs
  MaxOthers      \* bounds the events of other clients

Keys == Fresh \cup Theirs \cup {Missing}

AnyOf(S) == CHOOSE x \in S : TRUE

Actions == {"create", "update", "delete"}
Formats == {"representation", "minimal"}

(* What a run is given: its actions, their formats, and the keys that the  *)
(* payloads name.  An EntityEvent run has a mode and nothing else.         *)
Run ==
  [kind : {"add-edit"}, actions : SUBSET Actions, formats : [{"create", "update"} -> SUBSET Formats],
   createKey : Keys \cup {None}, updateKey : Keys \cup {None},
   deleteId : Keys \cup {None}, deleteFailsId : {Missing, None}]
  \cup [kind : {"entity-event"}, mode : {"full", "observe"}]

ASSUME KeysAreApart ==
  /\ IsFiniteSet(Keys) /\ Fresh \cap Theirs = {}
  /\ Missing \notin Fresh \cup Theirs /\ None \notin Keys
  /\ MaxPolls \in Nat /\ MaxOthers \in Nat
  /\ Runs \subseteq Run

VARIABLES
  run,       \* the configuration
  phase,     \* where the run is: see each action
  todo,      \* the scenarios still to run
  step,      \* the scenario under way: its record, what it saw so far, the last sequence
  created,   \* the keys that creates were told, in order
  removed,   \* those of them that the delete test removed
  remaining, \* those the clean-up has still to delete
  passed,    \* the scenarios that passed
  failed,    \* and those that failed
  report,    \* [outcome, removed, notRemoved, left]
  high,      \* the baseline of incremental sync; -1 when it was refused
  polls,     \* how often the feed was polled
  record,    \* the server: by key, the state of its record
  events,    \* its feed: the record, the sequence, and (as history) what caused it
  owed,      \* changes it has still to announce
  others,    \* how often another client wrote
  made,      \* history: the keys under which this run's creates made records
  told,      \* history: those of them an answer named
  pretended, \* history: the records a clean-up's delete was said to have removed, and did not
  blame      \* history: the server, or the network, did something wrong

runner == <<run, phase, todo, step, created, removed, remaining, passed, failed, report,
            high, polls>>
server == <<record, events, owed, others>>
history == <<made, told, pretended, blame>>
vars == <<runner, server, history>>

Idle == [key |-> None, good |-> FALSE, seq |-> 0]

NoReport == [outcome |-> "none", removed |-> {}, notRemoved |-> {}, left |-> {}]

OldEvents(t) == {[key |-> t, seq |-> i, by |-> "old"] : i \in {1, 2}}

Init ==
  /\ run \in Runs
  /\ phase = "checking" /\ todo = <<>> /\ step = Idle
  /\ created = <<>> /\ removed = {} /\ remaining = <<>>
  /\ passed = {} /\ failed = {} /\ report = NoReport
  /\ high = 0 /\ polls = 0
  /\ record = [k \in Keys |-> IF k \in Theirs THEN "theirs" ELSE "absent"]
  /\ events \in {{}} \cup {OldEvents(t) : t \in Theirs} /\ owed = {} /\ others = 0
  /\ made = {} /\ told = {} /\ pretended = {} /\ blame = FALSE

-----------------------------------------------------------------------------
(***************************************************************************)
(* The server.  A write is performed or not and answered or not; one that  *)
(* is answered with a success names its record in a Location header, in    *)
(* another way, or not at all.                                             *)
(***************************************************************************)
Fates == {"done", "ignored", "refused", "lost", "lostAfter"}
Forms == {"located", "named", "nameless"}

performs(fate) == fate \in {"done", "lostAfter"}
succeeds(fate) == fate \in {"done", "ignored"}
isLost(fate) == fate \in {"lost", "lostAfter"}

(* A write without a key goes to the URL of the whole collection.          *)
addressed(k) == IF k = None THEN {x \in Keys : record[x] # "absent"} ELSE {k}

Performs(fate, keys, value) ==
  record' = [k \in Keys |-> IF performs(fate) /\ k \in keys THEN value ELSE record[k]]

(* The key of a new record: the payload's, or one nobody has used.         *)
newKey ==
  IF run.kind = "add-edit" /\ run.createKey # None THEN run.createKey
  ELSE CHOOSE k \in Fresh : k \notin made \cup Range(created)

(* Fresh bounds the records that are made under keys of the server.        *)
keysLeft == ~(Fresh \subseteq made \cup Range(created))

Blames(wrong) == blame' = (blame \/ wrong)

(* What goes unchanged when a run does nothing to the feed.                *)
NoFeed == UNCHANGED <<run, high, polls, events, owed, others>>

=============================================================================
