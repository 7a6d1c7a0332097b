--------------------------- MODULE CoreScenarios ----------------------------
(***************************************************************************)
(* The Web API Core test of one resource (sdk/core.ts, sampleAndTest, and  *)
(* web-api-core/test-runner.ts, runCoreResourceScenarios): whether the     *)
(* resource is tested at all, the sample that is read page by page, the    *)
(* scenarios with their ladders of fields, the Lookup Resource and what    *)
(* depends on it, the run's deadline, and the verdict.                     *)
(*                                                                         *)
(* The server is free in every answer: it may be right, return nothing,    *)
(* ignore the filter, reject the request, fail to answer, or answer after  *)
(* the run's deadline.                                                     *)
(***************************************************************************)
EXTENDS CoreRules

CONSTANTS
  Environments,  \* what the run meets: see Environment
  SampleTop,     \* SAMPLE_TOP
  PageSize,      \* records on a page of the server
  MaxPages       \* MAX_SAMPLE_PAGES

ASSUME SampleBounds == SampleTop \in Nat \ {0} /\ PageSize \in Nat \ {0} /\ MaxPages \in Nat \ {0}

Presence == {"present", "absent", "indeterminate"}

(* The resource and its data, the version under test and the server's      *)
(* OData version, the field an override names, the values /Lookup          *)
(* publishes, and whether full coverage is demanded.                       *)
Environment ==
  [rep : Reps, table : Seq([Fields -> SUBSET Values]), version : {"2.0.0", "2.1.0"},
   odata : {"4.0", "4.01"}, kind : {"required", "known", "unknown"}, hasKey : BOOLEAN,
   served : Presence, declared : Presence, named : Fields \cup {"none"},
   published : SUBSET Values, fullCoverage : BOOLEAN]

VARIABLES
  env,           \* the environment, fixed
  phase,         \* "deciding", "sampling", "testing" or "done"
  sample,        \* [records, pages, stop]: the sample and why it ended
  todo,          \* scenarios not yet recorded
  walk,          \* the scenario under way: attempts left and what they met
  lookupFailed,  \* lookup-resource-validation failed in this run
  last,          \* the last result, with the query and the answers behind it
  tally,         \* [failed, untested]: what the recorded results add up to
  verdict        \* the outcome of the run

vars == <<env, phase, sample, todo, walk, lookupFailed, last, tally, verdict>>

Answers == {"right", "nothing", "unfiltered", "rejected", "lost"}

Outcomes == {"none", "passed", "warned", "failed", "skipped", "errored"}

NoQuery == [op |-> "none", field |-> "none", vals |-> {}, derived |-> FALSE]

Idle == [busy |-> FALSE, attempts |-> <<>>, accepted |-> FALSE, rejected |-> FALSE,
         query |-> NoQuery, answers |-> {}]

NoResult == [op |-> "none", outcome |-> "none", query |-> NoQuery, answer |-> "none",
             answers |-> {}]

Init ==
  /\ env \in Environments
  /\ phase = "deciding"
  /\ sample = [records |-> <<>>, pages |-> 0, stop |-> "none"]
  /\ todo = <<>>
  /\ walk = Idle
  /\ lookupFailed = FALSE
  /\ last = NoResult
  /\ tally = [failed |-> FALSE, untested |-> FALSE]
  /\ verdict = "none"

complete == sample.stop = "exhausted"

(* Mutant: the run ends without a status.                                  *)
FaultyFinish(failed, untested, coverageFailed) ==
  /\ phase' = "done"
  /\ UNCHANGED verdict
  /\ tally' = [tally EXCEPT !.failed = failed, !.untested = untested]

Finish(failed, untested, coverageFailed) ==
  /\ phase' = "done"
  /\ verdict' = coreVerdict(failed, coverageFailed, untested)
  /\ tally' = [tally EXCEPT !.failed = failed, !.untested = untested]

-----------------------------------------------------------------------------
(***************************************************************************)
(* Before sampling: is the resource served?  A resource without a key      *)
(* fails before a request is made.                                         *)
(***************************************************************************)
Decide ==
  /\ phase = "deciding"
  /\ LET decision == resolveServingDecision(env.kind, env.version, env.served, env.declared)
         fails == decision = "fail" \/ (decision = "run" /\ ~env.hasKey)
     IN  IF decision = "run" /\ env.hasKey
         THEN phase' = "sampling" /\ UNCHANGED <<tally, verdict>>
         ELSE Finish(fails, FALSE, env.fullCoverage)
  /\ UNCHANGED <<env, sample, todo, walk, lookupFailed, last>>

(***************************************************************************)
(* sampleRecords.  The server serves its table in pages that link on.      *)
(***************************************************************************)
pageOf(n) ==
  LET from == n * PageSize + 1
      to == (n + 1) * PageSize
  IN  SubSeq(env.table, from, IF to < Len(env.table) THEN to ELSE Len(env.table))

(* Whether a page links on: not after the last record, and a server that   *)
(* honours $top has no reason to once the sample is full.                  *)
mayLinkOn(n) ==
  LET to == (n + 1) * PageSize
  IN  CASE to >= Len(env.table) -> {FALSE}
        [] to >= SampleTop -> {TRUE, FALSE}
        [] OTHER -> {TRUE}

(* A sample that has ended: no records decides the resource, others go to  *)
(* the scenarios.                                                          *)
Resolve(records, pages, stop) ==
  LET outcome == resolveNoRecordsOutcome(env.kind, env.version, records # <<>>)
      scenarios == scenariosForVersion(env.rep, env.version)
  IN  /\ sample' = [records |-> records, pages |-> pages, stop |-> stop]
      /\ \/ /\ outcome = "run" /\ scenarios # <<>>
            /\ phase' = "testing"
            /\ todo' = scenarios
            /\ UNCHANGED <<tally, verdict>>
         \/ /\ outcome = "run" /\ scenarios = <<>>
            /\ Finish(FALSE, FALSE, env.fullCoverage /\ ~hasData(env.rep, records, env.named))
            /\ UNCHANGED todo
         \/ /\ outcome # "run"
            /\ Finish(outcome = "fail", FALSE, env.fullCoverage)
            /\ UNCHANGED todo

(* Mutant: a page without a link is taken for the end of the resource.     *)
FaultySamplePage ==
  /\ phase = "sampling"
  /\ \E more \in mayLinkOn(sample.pages) :
     LET got == sample.records \o pageOf(sample.pages)
         kept == firstOf(got, SampleTop)
         pages == sample.pages + 1
     IN  IF more /\ Len(got) < SampleTop
         THEN IF pages >= MaxPages THEN Resolve(kept, pages, "page-cap")
              ELSE /\ sample' = [sample EXCEPT !.records = got, !.pages = pages]
                   /\ UNCHANGED <<phase, todo, tally, verdict>>
         ELSE Resolve(kept, pages, IF ~more THEN "exhausted" ELSE "reached-target")
  /\ UNCHANGED <<env, walk, lookupFailed, last>>

SamplePage ==
  /\ phase = "sampling"
  /\ \E more \in mayLinkOn(sample.pages) :
     LET got == sample.records \o pageOf(sample.pages)
         kept == firstOf(got, SampleTop)
         pages == sample.pages + 1
     IN  IF more /\ Len(got) < SampleTop
         THEN IF pages >= MaxPages THEN Resolve(kept, pages, "page-cap")
              ELSE /\ sample' = [sample EXCEPT !.records = got, !.pages = pages]
                   /\ UNCHANGED <<phase, todo, tally, verdict>>
         ELSE Resolve(kept, pages,
                      IF ~more /\ Len(kept) < SampleTop THEN "exhausted" ELSE "reached-target")
  /\ UNCHANGED <<env, walk, lookupFailed, last>>

(* A page that fails or that links on without records ends the sample.     *)
SampleStops ==
  /\ phase = "sampling"
  /\ \/ Resolve(sample.records, sample.pages + 1, "page-error")
     \/ /\ sample.pages > 0
        /\ Resolve(sample.records, sample.pages + 1, "empty-page")
     \/ /\ sample.pages > 0      \* the request of a later page is lost
        /\ Resolve(sample.records, sample.pages, "page-error")
  /\ UNCHANGED <<env, walk, lookupFailed, last>>

(* The request for the first page is lost: sampling throws, the resource   *)
(* is reported as skipped.                                                 *)
SampleLost ==
  /\ phase = "sampling"
  /\ sample.pages = 0
  /\ Finish(FALSE, FALSE, env.fullCoverage)
  /\ UNCHANGED <<env, sample, todo, walk, lookupFailed, last>>

SampleDeadline ==
  /\ phase = "sampling"
  /\ Finish(FALSE, TRUE, env.fullCoverage)
  /\ UNCHANGED <<env, sample, todo, walk, lookupFailed, last>>

-----------------------------------------------------------------------------
(***************************************************************************)
(* The scenarios.  A result is recorded, and with the last one the verdict *)
(* is reached.                                                             *)
(***************************************************************************)
reports(outcome) == outcome \in {"failed", "errored"}

Record(s, outcome, q, answer, answers) ==
  LET failed == tally.failed \/ reports(outcome)
      uncovered == env.fullCoverage /\ ~hasData(env.rep, sample.records, env.named)
  IN  /\ last' = [op |-> s.op, outcome |-> outcome, query |-> q, answer |-> answer,
                  answers |-> answers]
      /\ todo' = Tail(todo)
      /\ walk' = Idle
      /\ IF Len(todo) = 1 THEN Finish(failed, FALSE, uncovered)
         ELSE /\ tally' = [tally EXCEPT !.failed = failed]
              /\ UNCHANGED <<phase, verdict>>
      /\ UNCHANGED <<env, sample>>

(* in is asked of a server that says it speaks OData 4.01.                 *)
isInOperatorSkippedForVersion(s) == s.op = "in" /\ env.odata # "4.01"

(* What rests on the Lookup Resource is skipped when that failed.          *)
isCascadeSkipped(s) == lookupFailed /\ (Strings(env.rep) \/ s.op = "in")

Start ==
  /\ phase = "testing" /\ ~walk.busy
  /\ LET s == Head(todo)
         attempts == attemptsFor(env.rep, s, sample.records, env.named)
     IN  IF isCascadeSkipped(s) \/ isInOperatorSkippedForVersion(s) \/ attempts = <<>>
         THEN s.op # "lookup" /\ Record(s, "skipped", NoQuery, "none", {})
         ELSE /\ walk' = [Idle EXCEPT !.busy = TRUE, !.attempts = attempts]
              /\ UNCHANGED <<env, phase, sample, todo, last, tally, verdict>>
  /\ UNCHANGED lookupFailed

(***************************************************************************)
(* The answers of a server to a query.                                     *)
(***************************************************************************)
matching(q) ==
  SelectSeq(env.table, LAMBDA r : /\ hasValue(env.rep, r[q.field])
                                  /\ holds(env.rep, q, r[q.field], serverOrder(env.rep)))

inOrder(q) ==
  LET at == serverOrder(env.rep)
      key(r) == IF r[q.field] = {} THEN Low ELSE CHOOSE v \in r[q.field] : TRUE
  IN  IF q.op = "asc" THEN SortSeq(env.table, LAMBDA a, b : at[key(a)] < at[key(b)])
      ELSE SortSeq(env.table, LAMBDA a, b : at[key(a)] > at[key(b)])

rightAnswer(q) == IF q.op \in {"asc", "desc"} THEN inOrder(q) ELSE matching(q)

(* The records of an answer; ignoring $orderby gives the reverse order.    *)
rowsOf(q, answer) ==
  CASE answer = "right" -> rightAnswer(q)
    [] answer = "unfiltered" ->
         (IF q.op \in {"asc", "desc"} THEN Reverse(inOrder(q)) ELSE env.table)
    [] OTHER -> <<>>

(* executeStandardScenario on an answer of status 200: a determinate       *)
(* outcome, or "skipped" for another candidate to settle.                  *)
judge(s, q, rows) ==
  IF rows = <<>>
  THEN LET found == emptyVerdict(env.rep, s, q, Cardinality(ValuesOf(sample.records, q.field)),
                                 complete, nowFieldPastness(
                                   applyFieldOverrides(env.rep, sample.records, env.named),
                                   sample.records))
       IN  CASE found = "fail" -> "failed" [] found = "pass" -> "passed" [] OTHER -> "skipped"
  ELSE IF assertData(env.rep, q, rows) THEN "passed"
  ELSE IF isSingleEnumNe(env.rep, s) THEN "warned" ELSE "failed"

(* Mutant: nothing determinate is nothing to report.                       *)
FaultyLadderOutcome(rejected, accepted) == IF rejected /\ accepted THEN "failed" ELSE "skipped"

(* No candidate was determinate: a rejection that no acceptance vetoes is  *)
(* a gap of the operator.                                                  *)
ladderOutcome(rejected, accepted) == IF rejected /\ ~accepted THEN "failed" ELSE "skipped"

(* A timestamp scenario has one attempt, and an error of it is its result. *)
Try(answer) ==
  /\ phase = "testing" /\ walk.busy /\ walk.attempts # <<>>
  /\ LET s == Head(todo)
         q == Head(walk.attempts)
         answers == walk.answers \cup {answer}
         accepts == answer \in {"right", "nothing", "unfiltered"}
         outcome == judge(s, q, rowsOf(q, answer))
         accepted == walk.accepted \/ accepts
         rejected == walk.rejected \/ answer = "rejected"
         isLast == Len(walk.attempts) = 1
     IN  \/ /\ accepts /\ outcome # "skipped"
            /\ Record(s, outcome, q, answer, answers)
         \/ /\ ~accepts \/ outcome = "skipped"
            /\ env.rep = "datetime" /\ answer = "lost"
            /\ Record(s, "errored", q, answer, answers)
         \/ /\ ~accepts \/ outcome = "skipped"
            /\ ~(env.rep = "datetime" /\ answer = "lost")
            /\ isLast
            /\ Record(s, ladderOutcome(rejected, accepted), q, answer, answers)
         \/ /\ ~accepts \/ outcome = "skipped"
            /\ ~isLast
            /\ walk' = [walk EXCEPT !.attempts = Tail(@), !.accepted = accepted,
                                    !.rejected = rejected, !.answers = answers]
            /\ UNCHANGED <<env, phase, sample, todo, last, tally, verdict>>
  /\ UNCHANGED lookupFailed

(***************************************************************************)
(* runLookupResourceScenario: the LookupName of the field must resolve and *)
(* publish its sampled values, the local ones first.                       *)
(***************************************************************************)
localFirst(f) ==
  LET all == members(sample.records, f)
      known == SelectSeq(all, LAMBDA v : v \in StandardValues)
  IN  SelectSeq(all, LAMBDA v : v \notin StandardValues) \o known

lookupSampleValues(f) == Range(firstOf(localFirst(f), 3))

lookupResourcePresence(f, answer) ==
  answer = "right" /\ lookupSampleValues(f) \subseteq env.published

ValidateLookup(answer) ==
  /\ phase = "testing" /\ ~walk.busy
  /\ Head(todo).op = "lookup"
  /\ answer # "unfiltered"
  /\ LET ladder == applyFieldOverrides(env.rep, sample.records, env.named)
     IN  IF ladder = <<>>
         THEN Record(Head(todo), "skipped", NoQuery, "none", {}) /\ UNCHANGED lookupFailed
         ELSE LET outcome == IF answer = "lost" THEN "errored"
                             ELSE IF lookupResourcePresence(Head(ladder), answer)
                             THEN "passed" ELSE "failed"
              IN  /\ Record(Head(todo), outcome, Query("lookup", Head(ladder), {}, FALSE),
                            answer, {answer})
                  /\ lookupFailed' = (lookupFailed \/ reports(outcome))

(* Out of time: what is left is not tested, and not failed.                *)
Deadline ==
  /\ phase = "testing"
  /\ walk.busy \/ Head(todo).op = "lookup"
  /\ Finish(tally.failed, TRUE, env.fullCoverage /\ ~hasData(env.rep, sample.records, env.named))
  /\ todo' = <<>> /\ walk' = Idle
  /\ UNCHANGED <<env, sample, lookupFailed, last>>

Next ==
  \/ Decide \/ SamplePage \/ SampleStops \/ SampleLost \/ SampleDeadline
  \/ Start \/ Deadline
  \/ \E answer \in Answers : Try(answer) \/ ValidateLookup(answer)

Spec == Init /\ [][Next]_vars

-----------------------------------------------------------------------------
(***************************************************************************)
(* Properties.                                                             *)
(***************************************************************************)
(* Every variable keeps its shape.                                         *)
TypeOK ==
  /\ env.rep \in Reps /\ env.kind \in {"required", "known", "unknown"}
  /\ phase \in {"deciding", "sampling", "testing", "done"}
  /\ sample.pages \in Nat
  /\ sample.stop \in {"none", "exhausted", "reached-target", "page-error", "empty-page", "page-cap"}
  /\ Len(sample.records) <= SampleTop
  /\ phase = "testing" => todo # <<>>
  /\ lookupFailed \in BOOLEAN
  /\ last.outcome \in Outcomes /\ last.answers \subseteq Answers
  /\ tally \in [failed : BOOLEAN, untested : BOOLEAN]
  /\ (phase = "done") <=> (verdict # "none")
  /\ verdict \in {"none", "passed", "failed", "incomplete"}

(* A sample that calls itself complete is the whole resource: the empty    *)
(* answers that are passed because of it are passed on that ground alone   *)
(* (sampling.ts, SampledRecords.complete).                                 *)
CompleteMeansWhole == complete => sample.records = env.table

(* The tester compares timestamps as text, a server compares what they     *)
(* say.  Whether the two agree on the field and the values of a query:     *)
(* they do where all timestamps are written in one form.                   *)
inOneForm(q) ==
  env.rep = "datetime" =>
    \A a, b \in ValuesOf(env.table, q.field) \cup q.vals : a < b <=> Instant[a] < Instant[b]

(* A filter that passes returned records that all satisfy it, by the       *)
(* server's own order, and it passes on no records only if the resource    *)
(* has none to return; of timestamps this is said where they are written   *)
(* in one form.                                                            *)
NoFalseDataPass ==
  last.outcome = "passed" /\ last.op # "lookup" /\ inOneForm(last.query) =>
    LET q == last.query
        rows == rowsOf(q, last.answer)
        given == {i \in DOMAIN rows : hasValue(env.rep, rows[i][q.field])}
    IN  /\ q.op \in {"asc", "desc"} =>
              isSorted(column(rows, q.field), q.op, serverOrder(env.rep))
        /\ \A i \in given : holds(env.rep, q, rows[i][q.field], serverOrder(env.rep))
        /\ rows = <<>> => rightAnswer(q) = <<>>

(* What fails is the server's doing.  A scenario that fails had an answer  *)
(* that was not the right one, or a value of the data is not published: no *)
(* query is built that a right answer would fail, timestamps of one form   *)
(* assumed.  A resource that fails before a scenario has no key, or is a   *)
(* required one that is absent, has no records, or answers with an error   *)
(* when it is sampled; or full coverage was asked for.  And an operator    *)
(* that every candidate field rejects, and none accepts, is a failure and  *)
(* not a test skipped: requests lost in between do not excuse it.          *)
DataFailureIsTheServers ==
  /\ reports(last.outcome) /\ inOneForm(last.query) =>
       \/ \E answer \in last.answers : answer # "right"
       \/ last.op = "lookup" /\ ~(ValuesOf(env.table, last.query.field) \subseteq env.published)
  /\ verdict = "failed" /\ last = NoResult /\ ~env.fullCoverage =>
       \/ ~env.hasKey
       \/ /\ env.kind = "required"
          /\ \/ env.table = <<>> \/ sample.stop = "page-error"
             \/ env.served = "absent" /\ env.declared = "absent"
  /\ "rejected" \in last.answers /\ last.answers \subseteq {"rejected", "lost"} =>
       last.outcome \in {"failed", "errored"}

(* The same without the assumption: "ISO sorts chronologically"            *)
(* (sampling.ts:431), so a right answer to a comparison of timestamps      *)
(* passes.  It does not hold where "a provider may serialize Z and +00:00  *)
(* forms in the same feed" (sampling.ts:501): the assertions compare text. *)
RightAnswersNeverFail ==
  reports(last.outcome) /\ last.answers = {"right"} => last.op = "lookup"

(* A required resource is tested, or the run does not pass: an empty or    *)
(* absent one "always fails" (serving.ts, resolveNoRecordsOutcome).        *)
RequiredIsTestedOrFails ==
  verdict = "passed" /\ env.kind = "required" /\ isCore21OrLater(env.version) =>
    sample.records # <<>>
=============================================================================
