-------------------------------- MODULE Canary --------------------------------
(***************************************************************************)
(* The EntityEvent certification run                                       *)
(* (reso-certification/src/entity-event/test-runner.ts): a canary record   *)
(* is created, updated and deleted, the feed read after each, and then new *)
(* events are looked for; in observe mode they are only waited for.        *)
(*                                                                         *)
(* The server announces a change at once, later or never; other clients    *)
(* write too.                                                              *)
(***************************************************************************)
EXTENDS WriteServer

canary == run.kind = "entity-event"

canaryScenarios == <<"create", "update", "delete">>

latestOf(k) == Max({e.seq : e \in {f \in events : f.key = k}} \cup {0})
newest == Max({e.seq : e \in events} \cup {0})
since(seq) == {e \in events : e.seq > seq}

Announces(k, by) == events' = events \cup {[key |-> k, seq |-> newest + 1, by |-> by]}

(* A request of this runner throws: it ends with no report, and nothing    *)
(* removes the canary record.                                              *)
Throws ==
  /\ phase' = "done"
  /\ report' = [NoReport EXCEPT !.outcome = "threw"]
  /\ UNCHANGED <<todo, step, passed, failed>>

Scored(name, ok) ==
  /\ passed' = IF ok THEN passed \cup {name} ELSE passed
  /\ failed' = IF ok THEN failed ELSE failed \cup {name}

Quiet == UNCHANGED <<run, created, removed, remaining>>

(* The newest sequence, read just before anything is written or polled.    *)
fetchBaseline(answer) == IF answer = "read" THEN newest ELSE -1

Baseline ==
  /\ canary /\ phase = "checking"
  /\ \E answer \in {"read", "error", "lost"} :
       /\ Blames(answer # "read")
       /\ \/ /\ answer = "lost" /\ Throws
             /\ UNCHANGED high
          \/ /\ answer # "lost"
             /\ high' = fetchBaseline(answer)
             /\ phase' = "act"
             /\ todo' = IF run.mode = "full" THEN Append(canaryScenarios, "sync")
                        ELSE <<"sync">>
             /\ UNCHANGED <<step, passed, failed, report>>
  /\ Quiet /\ UNCHANGED <<polls, server, made, told>>

(* A write the server performs is announced now, announced later or never. *)
Changed(k, by, fate, timing) ==
  /\ IF performs(fate) /\ timing = "now" THEN Announces(k, by) ELSE UNCHANGED events
  /\ owed' = owed \cup {x \in {[key |-> k, by |-> by]} : performs(fate) /\ timing = "later"}
  /\ UNCHANGED others

Timings == {"now", "later", "never"}

(* The key of the new record: from the body; a body without the key field  *)
(* reads as the text "undefined", which names no record, and only an       *)
(* answer without a body leaves the Location to name it.                   *)
createdKey(k, form) ==
  CASE form \in {"named", "located"} -> k
    [] form = "keyless" -> Missing
    [] OTHER -> None

CanaryCreate ==
  /\ canary /\ phase = "act" /\ Head(todo) = "create" /\ keysLeft
  /\ \E fate \in Fates, form \in Forms \cup {"keyless"}, timing \in Timings :
       LET k == newKey
           key == IF succeeds(fate) THEN createdKey(k, form) ELSE None
       IN  /\ Performs(fate, {k}, "made")
           /\ Changed(k, "create", fate, timing)
           /\ made' = made \cup {x \in {k} : performs(fate)}
           /\ told' = told \cup (made' \cap {key})
           /\ Blames(fate # "done" \/ key # k)
           /\ \/ isLost(fate) /\ Throws
              \/ /\ ~isLost(fate) /\ key = None
                 /\ Scored("create", FALSE)
                 /\ todo' = <<"sync">>
                 /\ UNCHANGED <<phase, step, report>>
              \/ /\ ~isLost(fate) /\ key # None
                 /\ phase' = "look"
                 /\ step' = [key |-> key, good |-> TRUE, seq |-> 0]
                 /\ UNCHANGED <<todo, passed, failed, report>>
  /\ Quiet /\ UNCHANGED <<high, polls>>

CanaryChange ==
  /\ canary /\ phase = "act" /\ Head(todo) \in {"update", "delete"}
  /\ \E fate \in Fates, timing \in Timings :
       LET name == Head(todo) IN
       /\ Performs(fate, {step.key}, IF name = "update" THEN "updated" ELSE "absent")
       /\ Changed(step.key, name, fate, timing)
       /\ Blames(fate # "done")
       /\ \/ isLost(fate) /\ Throws
          \/ /\ ~isLost(fate)
             /\ phase' = "look"
             /\ step' = [step EXCEPT !.good = succeeds(fate)]
             /\ UNCHANGED <<todo, passed, failed, report>>
  /\ Quiet /\ UNCHANGED <<high, polls, made, told>>

(* Mutant: the event that was there already will do.                       *)
FaultyAnnounced(seq) == seq > 0 /\ seq >= step.seq

(* The feed is read for the newest event of the record.  One newer than    *)
(* what the scenario before it saw is this scenario's.                     *)
announced(seq) == seq > step.seq

Look ==
  /\ canary /\ phase = "look"
  /\ \E answer \in {"read", "error", "lost"} :
       LET name == Head(todo)
           seq == IF answer = "read" THEN latestOf(step.key) ELSE 0
           good == step.good /\ announced(seq)
       IN  /\ Blames(answer # "read" \/ ~\E e \in events : e.by = name)
           /\ \/ answer = "lost" /\ Throws
              \/ /\ answer # "lost"
                 /\ step' = [step EXCEPT !.good = good, !.seq = IF seq > 0 THEN seq ELSE @]
                 /\ IF name = "delete"
                    THEN phase' = "gone" /\ UNCHANGED <<todo, passed, failed>>
                    ELSE phase' = "act" /\ todo' = Tail(todo) /\ Scored(name, good)
                 /\ UNCHANGED report
  /\ Quiet /\ UNCHANGED <<high, polls, server, made, told>>

(* A deleted record has to answer 404.                                     *)
Gone ==
  /\ canary /\ phase = "gone"
  /\ \E answer \in {"read", "error", "lost"} :
       /\ Blames(answer # "read")
       /\ \/ answer = "lost" /\ Throws
          \/ /\ answer # "lost"
             /\ Scored("delete", step.good /\ answer = "read" /\ record[step.key] = "absent")
             /\ phase' = "act" /\ todo' = Tail(todo)
             /\ UNCHANGED <<step, report>>
  /\ Quiet /\ UNCHANGED <<high, polls, server, made, told>>

-----------------------------------------------------------------------------
(* Incremental sync ends the run.  Its baseline refused, it fails; in full *)
(* mode one read has to find something newer; in observe mode reads repeat *)
(* until one does or the time is up, and finding nothing is a warning.     *)
SyncEnds(ok) ==
  /\ Scored("sync", ok)
  /\ phase' = "done"
  /\ report' = [NoReport EXCEPT !.outcome = "reported"]
  /\ todo' = <<>>
  /\ UNCHANGED step

Syncing == canary /\ phase = "act" /\ Head(todo) = "sync"

SyncRefused ==
  /\ Syncing /\ high = -1
  /\ SyncEnds(FALSE)
  /\ Quiet /\ UNCHANGED <<high, polls, server, history>>

SyncFull ==
  /\ Syncing /\ high >= 0 /\ run.mode = "full"
  /\ \E answer \in {"read", "error", "lost"} :
       LET found == answer = "read" /\ since(high) # {} IN
       /\ Blames(~found)
       /\ IF answer = "lost" THEN Throws ELSE SyncEnds(found)
  /\ Quiet /\ UNCHANGED <<high, polls, server, made, told>>

Poll ==
  /\ Syncing /\ high >= 0 /\ run.mode = "observe" /\ polls < MaxPolls
  /\ polls' = polls + 1
  /\ \E answer \in {"read", "error", "lost"} :
       /\ Blames(answer # "read")
       /\ CASE answer = "lost" -> Throws
            [] answer = "read" /\ since(high) # {} -> SyncEnds(TRUE)
            [] OTHER -> UNCHANGED <<phase, report, todo, step, passed, failed>>
  /\ Quiet /\ UNCHANGED <<high, server, made, told>>

TimeIsUp ==
  /\ Syncing /\ high >= 0 /\ run.mode = "observe" /\ polls = MaxPolls
  /\ SyncEnds(TRUE)
  /\ Quiet /\ UNCHANGED <<high, polls, server, history>>

-----------------------------------------------------------------------------
(* The server on its own: a change announced late, and another client.     *)
Announce ==
  /\ canary /\ phase # "done"
  /\ \E o \in owed :
       /\ Announces(o.key, o.by)
       /\ owed' = owed \ {o}
  /\ UNCHANGED <<runner, record, others, history>>

OtherWrite ==
  /\ canary /\ phase # "done" /\ others < MaxOthers
  /\ others' = others + 1
  /\ \E k \in Theirs : Announces(k, IF phase = "checking" THEN "old" ELSE "other")
  /\ UNCHANGED <<runner, record, owed, history>>

CanaryNext ==
  \/ Baseline \/ CanaryCreate \/ CanaryChange \/ Look \/ Gone
  \/ SyncRefused \/ SyncFull \/ Poll \/ TimeIsUp \/ Announce \/ OtherWrite

=============================================================================
