-------------------------------- MODULE AddEdit -------------------------------
(***************************************************************************)
(* The Add/Edit certification run (reso-certification/src/add-edit): the   *)
(* plan, its scenarios in order, and the clean-up of what they created.    *)
(***************************************************************************)
EXTENDS WriteServer

(***************************************************************************)
(* The plan of an Add/Edit run (add-edit/plan.ts, run-checks.ts).          *)
(***************************************************************************)
creates == <<"create-succeeds-representation", "create-succeeds-minimal", "create-fails">>
updates == <<"update-succeeds-representation", "update-succeeds-minimal", "update-fails">>
deletes == <<"delete-succeeds", "delete-fails">>

(* Mutant: the actions run in another order than create, update, delete.   *)
FaultyScenariosFor(r) ==
  (IF "delete" \in r.actions THEN deletes ELSE <<>>)
    \o (IF "create" \in r.actions THEN creates ELSE <<>>)

scenariosFor(r) ==
  LET chosen(names, formats) ==
        (IF "representation" \in formats THEN <<names[1]>> ELSE <<>>)
          \o (IF "minimal" \in formats THEN <<names[2]>> ELSE <<>>) \o <<names[3]>>
  IN  (IF "create" \in r.actions THEN chosen(creates, r.formats["create"]) ELSE <<>>)
        \o (IF "update" \in r.actions THEN chosen(updates, r.formats["update"]) ELSE <<>>)
        \o (IF "delete" \in r.actions THEN deletes ELSE <<>>)

(* Actions are required, and formats of exactly the creates and updates    *)
(* among them.                                                             *)
planProblems(r) ==
  r.actions = {} \/ \E a \in {"create", "update"} : (a \in r.actions) # (r.formats[a] # {})

(* Without a create test, payloads have to name their records.             *)
providedPayloadProblems(r) ==
  LET nothingMade == "create" \notin r.actions
  IN  \/ "update" \in r.actions /\ nothingMade /\ r.updateKey = None
      \/ "delete" \in r.actions /\ nothingMade /\ r.deleteId = None
      \/ "delete" \in r.actions /\ r.deleteFailsId = None

addEdit == run.kind = "add-edit"

(* The run is refused before it writes anything, or planned.               *)
Check ==
  /\ addEdit /\ phase = "checking"
  /\ IF planProblems(run) \/ providedPayloadProblems(run)
     THEN /\ phase' = "done"
          /\ report' = [NoReport EXCEPT !.outcome = "refused"]
          /\ UNCHANGED todo
     ELSE /\ phase' = "act"
          /\ todo' = scenariosFor(run)
          /\ UNCHANGED report
  /\ NoFeed /\ UNCHANGED <<step, created, removed, remaining, passed, failed, record, history>>

-----------------------------------------------------------------------------
(***************************************************************************)
(* Leaving the scenarios: to the clean-up, if delete is tested and there   *)
(* is something to remove.                                                 *)
(***************************************************************************)
without(keys, gone) ==
  LET kept == {i \in DOMAIN keys : keys[i] \notin gone}
      order == CHOOSE s \in [1..Cardinality(kept) -> kept] :
                 Range(s) = kept /\ \A i, j \in DOMAIN s : i < j => s[i] < s[j]
  IN  [i \in DOMAIN order |-> keys[order[i]]]

Leave(keys, gone, stopped) ==
  LET left == without(keys, gone)
      summary == [NoReport EXCEPT !.removed = gone]
  IN  IF "delete" \in run.actions /\ left # <<>>
      THEN /\ phase' = "cleaning"
           /\ remaining' = left
           /\ report' = [summary EXCEPT !.outcome = IF stopped THEN "stopping" ELSE "none"]
      ELSE /\ phase' = "done"
           /\ report' = [summary EXCEPT !.outcome = IF stopped THEN "threw" ELSE "reported",
                                      !.left = Range(left)]
           /\ UNCHANGED remaining

(* A request of a scenario threw: the run stops there.  What the scenario  *)
(* would have returned, the key of its record among it, is gone.           *)
Stop ==
  /\ step' = Idle
  /\ Leave(created, removed, TRUE)
  /\ UNCHANGED <<todo, created, removed, passed, failed>>

Settle(ok, keys, gone) ==
  LET name == Head(todo) IN
  /\ passed' = IF ok THEN passed \cup {name} ELSE passed
  /\ failed' = IF ok THEN failed ELSE failed \cup {name}
  /\ created' = created \o keys
  /\ removed' = removed \cup gone
  /\ todo' = Tail(todo)
  /\ IF Len(todo) = 1 THEN step' = Idle /\ Leave(created', removed', FALSE)
     ELSE phase' = "act" /\ step' = Idle /\ UNCHANGED <<remaining, report>>

(* POST.  Only a success that carries a Location is read back.             *)
CreateScenario ==
  /\ addEdit /\ phase = "act" /\ Head(todo) \in Range(creates) /\ keysLeft
  /\ \E fate \in Fates, form \in Forms, good \in BOOLEAN :
       LET k == newKey
           fails == Head(todo) = "create-fails"
           named == IF succeeds(fate) /\ form # "nameless" THEN <<k>> ELSE <<>>
       IN  /\ Performs(fate, {k}, "made")
           /\ made' = made \cup {x \in {k} : performs(fate) /\ record[x] = "absent"}
           /\ told' = told \cup (made' \cap Range(named))
           /\ Blames(IF fails THEN fate # "refused" \/ ~good
                     ELSE fate # "done" \/ form # "located" \/ ~good)
           /\ \/ isLost(fate) /\ Stop
              \/ /\ succeeds(fate) /\ form = "located" /\ ~fails
                 /\ phase' = "follow"
                 /\ step' = [Idle EXCEPT !.key = k, !.good = good]
                 /\ UNCHANGED <<todo, created, removed, remaining, passed, failed, report>>
              \/ /\ ~isLost(fate) /\ (fails \/ fate = "refused" \/ form # "located")
                 /\ Settle(fails /\ fate = "refused" /\ good, named, {})
  /\ NoFeed

(* The record a payload names, else one a create made: the first for an    *)
(* update, the last for a delete.  A delete that should fail takes none.   *)
target(name) ==
  CASE name \in Range(updates) ->
         (IF run.updateKey # None THEN run.updateKey
          ELSE IF created # <<>> THEN Head(created) ELSE None)
    [] name = "delete-succeeds" ->
         (IF run.deleteId # None THEN run.deleteId
          ELSE IF created # <<>> THEN Last(created) ELSE None)
    [] OTHER -> run.deleteFailsId

(* Mutant: a write that names no record is sent.                           *)
FaultyRefused(name) == FALSE

refused(name) == target(name) = None

NoRecord ==
  /\ addEdit /\ phase = "act" /\ Head(todo) \notin Range(creates)
  /\ refused(Head(todo))
  /\ Settle(FALSE, <<>>, {})
  /\ NoFeed /\ UNCHANGED <<record, made, told, blame>>

UpdateScenario ==
  /\ addEdit /\ phase = "act" /\ Head(todo) \in Range(updates)
  /\ ~refused(Head(todo))
  /\ \E fate \in Fates, form \in Forms \ {"nameless"}, good \in BOOLEAN :
       LET k == target(Head(todo))
           fails == Head(todo) = "update-fails"
       IN  /\ Performs(fate, addressed(k), "updated")
           /\ made' = made \cup {x \in addressed(k) : performs(fate) /\ record[x] = "absent"}
           /\ told' = told \cup (made' \cap Range(created))
           /\ Blames(IF fails THEN fate # "refused" \/ ~good
                     ELSE fate # "done" \/ form # "located" \/ ~good)
           /\ \/ isLost(fate) /\ Stop
              \/ /\ succeeds(fate) /\ form = "located" /\ ~fails
                 /\ phase' = "follow"
                 /\ step' = [Idle EXCEPT !.key = k, !.good = good]
                 /\ UNCHANGED <<todo, created, removed, remaining, passed, failed, report>>
              \/ /\ ~isLost(fate) /\ (fails \/ fate = "refused" \/ form # "located")
                 /\ Settle(fails /\ fate = "refused" /\ good, <<>>, {})
  /\ NoFeed

(* DELETE; one that should succeed is followed by a GET.                   *)
DeleteScenario ==
  /\ addEdit /\ phase = "act" /\ Head(todo) \in Range(deletes)
  /\ ~refused(Head(todo))
  /\ \E fate \in Fates, good \in BOOLEAN :
       LET k == target(Head(todo))
           fails == Head(todo) = "delete-fails"
       IN  /\ Performs(fate, addressed(k), "absent")
           /\ Blames(IF fails THEN fate # "refused" \/ ~good ELSE fate # "done" \/ ~good)
           /\ \/ isLost(fate) /\ Stop
              \/ /\ ~isLost(fate) /\ ~fails
                 /\ phase' = "follow"
                 /\ step' = [Idle EXCEPT !.key = k, !.good = succeeds(fate) /\ good]
                 /\ UNCHANGED <<todo, created, removed, remaining, passed, failed, report>>
              \/ /\ ~isLost(fate) /\ fails
                 /\ Settle(fate = "refused" /\ good, <<>>, {})
  /\ NoFeed /\ UNCHANGED <<made, told>>

(* Mutant: any record that was asked to go is taken for one of the run's own, gone. *)
FaultyRemovedKey(seen) == {step.key}

(* A record of the run's own, seen to be gone, needs no clean-up.          *)
removedKey(seen) == IF run.deleteId = None /\ seen THEN {step.key} ELSE {}

(* The follow-up GET: of a create or update at its Location, of a delete.  *)
FollowUp ==
  /\ addEdit /\ phase = "follow"
  /\ \E answer \in {"read", "error", "lost"} :
       LET name == Head(todo)
           now == IF step.key = None THEN "absent" ELSE record[step.key]
           seen == answer = "read" /\
                     now = (CASE name \in Range(creates) -> "made"
                              [] name \in Range(updates) -> "updated"
                              [] OTHER -> "absent")
           keys == IF name \in Range(creates) THEN <<step.key>> ELSE <<>>
           gone == IF name = "delete-succeeds" THEN removedKey(seen) ELSE {}
       IN  /\ Blames(answer # "read")
           /\ IF answer = "lost" THEN Stop ELSE Settle(step.good /\ seen, keys, gone)
  /\ NoFeed /\ UNCHANGED <<record, made, told>>

(* The clean-up deletes what is left, one record after another.  Any       *)
(* success, and a 404, is taken for removed, and nobody reads back; a      *)
(* request that throws ends it.                                            *)
CleanUp ==
  /\ addEdit /\ phase = "cleaning"
  /\ \E fate \in Fates :
       LET k == Head(remaining)
           gone == succeeds(fate) \/ (fate = "refused" /\ record[k] = "absent")
           noted == IF gone THEN [report EXCEPT !.removed = @ \cup {k}]
                    ELSE [report EXCEPT !.notRemoved = @ \cup {k}]
       IN  /\ Performs(fate, {k}, "absent")
           /\ pretended' = pretended \cup {x \in {k} : fate = "ignored"}
           /\ Blames(~gone \/ fate = "ignored")
           /\ remaining' = Tail(remaining)
           /\ IF isLost(fate)
              THEN phase' = "done" /\ report' = [NoReport EXCEPT !.outcome = "unfinished"]
              ELSE IF Len(remaining) > 1 THEN report' = noted /\ UNCHANGED phase
              ELSE /\ phase' = "done"
                   /\ report' = [noted EXCEPT !.outcome =
                                   IF @ = "stopping" THEN "threw" ELSE "reported"]
  /\ NoFeed /\ UNCHANGED <<todo, step, created, removed, passed, failed, made, told>>

AddEditNext ==
  \/ /\ Check \/ CreateScenario \/ NoRecord \/ UpdateScenario \/ DeleteScenario \/ FollowUp
     /\ UNCHANGED pretended
  \/ CleanUp

=============================================================================
