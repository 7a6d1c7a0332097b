------------------------------ MODULE Pipeline -------------------------------
(***************************************************************************)
(* A certification run: createPipeline(...).run() of sdk/pipeline.ts over  *)
(* the steps one endorsement declares.  Each test function that comes back *)
(* is an action.  The replication strategies of a parallel run come back   *)
(* in any order, and those still under way when one of them throws go on   *)
(* behind the steps that follow.                                           *)
(***************************************************************************)
EXTENDS Certification, SequencesExt

VARIABLES
  config,         \* the configuration of the run
  phase,          \* the loop the run is in, or "finished"
  at,             \* the index of the step under way
  fn,             \* the index of its test function under way
  results,        \* stepResults: by declared step, its status or "pending"
  pipelineSteps,  \* context.pipelineSteps: the step list a writer sees
  delivered,      \* the functions whose result is in the context
  tested,         \* what the scenarios came to
  running,        \* the strategies of a parallel run still under way
  pipelineStatus,
  report,         \* report.json, as it stands on disk
  certification,  \* whether the finished run certifies
  clean           \* history: the functions that checked all and found nothing

vars == <<config, phase, at, fn, results, pipelineSteps, delivered, tested, running,
          pipelineStatus, report, certification, clean>>

declared == steps(config)
n == Len(declared)
current == declared[at]
function == current.functions[fn]

NoReport == [status |-> "none", valid |-> FALSE, steps |-> <<>>]

Init ==
  /\ config \in Config
  /\ phase = "steps" /\ at = 1 /\ fn = 1
  /\ results = [i \in 1..n |-> "pending"]
  /\ pipelineSteps = [i \in 1..n |-> "absent"]
  /\ delivered = {} /\ running = {} /\ clean = {}
  /\ tested = "none" /\ pipelineStatus = "passed"
  /\ report = NoReport /\ certification = FALSE

-----------------------------------------------------------------------------
(* What ends a step. *)

(* Plausible bugs: the steps after a break are left out, a run cut short    *)
(* outranks a failure, and the break stops the finalizers as well.         *)
FaultySeededSteps(list, afterBreak) ==
  [i \in 1..n |-> IF list[i] # "pending" THEN list[i] ELSE "absent"]

FaultyWorseOf(status, outcomeStatus) ==
  IF outcomeStatus \in {"failed", "incomplete"} THEN outcomeStatus ELSE status

FaultyBreaks(status) == FALSE

FaultyGoOnFrom(i, broken) ==
  /\ at' = IF broken THEN n + 1 ELSE i + 1
  /\ fn' = 1
  /\ phase' = IF broken THEN "finalizers" ELSE phase

(* The steps that have not run show as skipped only once they never will,  *)
(* and a finalizer is never among them.                                    *)
seededSteps(list, afterBreak) ==
  [i \in 1..n |->
    IF list[i] # "pending" THEN list[i]
    ELSE IF afterBreak /\ ~declared[i].alwaysRun THEN "skipped" ELSE "absent"]

worseOf(status, outcomeStatus) ==
  CASE outcomeStatus = "failed" -> "failed"
    [] outcomeStatus = "incomplete" /\ status = "passed" -> "incomplete"
    [] OTHER -> status

breaks(status) == status = "failed" /\ config.failFast

Recorded(status) == results' = [results EXCEPT ![at] = status]

(* The next step of the main loop, or the next finalizer after a break. *)
GoOnFrom(i, broken) ==
  LET left == {j \in i + 1 .. n : broken => declared[j].alwaysRun} IN
  /\ at' = CHOOSE j \in left \cup {n + 1} : \A k \in left : j <= k
  /\ fn' = 1
  /\ phase' = IF broken THEN "finalizers" ELSE phase

(* A step of the main loop that comes back with a status. *)
StepReturns(status) ==
  /\ Recorded(status)
  /\ IF phase = "steps"
     THEN /\ pipelineSteps' = seededSteps(results', breaks(status))
          /\ pipelineStatus' = worseOf(pipelineStatus, status)
          /\ GoOnFrom(at, breaks(status))
     ELSE /\ pipelineSteps' = seededSteps(results', TRUE)
          /\ UNCHANGED pipelineStatus
          /\ GoOnFrom(at, TRUE)

(* A step that throws: a finalizer's failure is recorded and no more. *)
StepThrows ==
  /\ Recorded("failed")
  /\ IF phase = "steps"
     THEN /\ pipelineSteps' = seededSteps(results', config.failFast)
          /\ pipelineStatus' = "failed"
          /\ GoOnFrom(at, config.failFast)
     ELSE /\ UNCHANGED <<pipelineSteps, pipelineStatus>>
          /\ GoOnFrom(at, TRUE)

(* A plausible bug: the last function does not end the step. *)
FaultyFunctionReturns(status) ==
  IF status = "failed" THEN StepReturns(status)
  ELSE fn' = fn + 1 /\ UNCHANGED <<phase, at, results, pipelineSteps, pipelineStatus>>

(* executeStepFunctions, sequential: a failed function ends the step, the  *)
(* last one gives it its status.                                           *)
FunctionReturns(status) ==
  IF status = "failed" \/ fn = Len(current.functions)
  THEN StepReturns(status)
  ELSE fn' = fn + 1 /\ UNCHANGED <<phase, at, results, pipelineSteps, pipelineStatus>>

-----------------------------------------------------------------------------
(* The actions. *)

underWay == phase # "finished" /\ at <= n

Remember(f, o) ==
  /\ delivered' = delivered \cup (IF o.delivers THEN {f} ELSE {})
  /\ clean' = clean \cup (IF o.clean THEN {f} ELSE {})
  /\ tested' = IF f = "scenarios" /\ o.delivers THEN o.status ELSE tested

RunFunction ==
  /\ underWay /\ function \notin {"parallel", "write"}
  /\ \E o \in outcomes(config, function, delivered) :
       /\ IF o.status = "threw" THEN StepThrows ELSE FunctionReturns(o.status)
       /\ Remember(function, o)
  /\ UNCHANGED <<config, running, report, certification>>

(* parallelReplicate: every strategy starts at once. *)
atParallel == underWay /\ function = "parallel"

StartStrategies ==
  /\ atParallel /\ running = {} /\ "parallel" \notin delivered
  /\ running' = ToSet(strategies(config))
  /\ delivered' = delivered \cup {"parallel"}
  /\ UNCHANGED <<config, phase, at, fn, results, pipelineSteps, tested,
                 pipelineStatus, report, certification, clean>>

(* A plausible bug: the run moves on with the first strategy that is done. *)
FaultyStrategySettles(s) ==
  /\ s \in running /\ atParallel
  /\ running' = running \ {s}
  /\ clean' = clean \cup {s}
  /\ FunctionReturns("passed")
  /\ UNCHANGED <<config, delivered, tested, report, certification>>

(* Promise.all rejects with the first strategy that throws, and waits for  *)
(* the rest of them only when none does; the results come down to their    *)
(* summaries, so the status of a strategy that failed is not looked at.    *)
StrategySettles(s) ==
  /\ s \in running
  /\ running' = running \ {s}
  /\ \E o \in strategyOutcomes(config) :
       /\ clean' = clean \cup (IF o.clean THEN {s} ELSE {})
       /\ IF ~atParallel
          THEN UNCHANGED <<phase, at, fn, results, pipelineSteps, pipelineStatus>>
          ELSE IF o.status = "threw" THEN StepThrows
          ELSE IF running' = {} THEN FunctionReturns("passed")
          ELSE UNCHANGED <<phase, at, fn, results, pipelineSteps, pipelineStatus>>
  /\ UNCHANGED <<config, delivered, tested, report, certification>>

(* The writer: report.json is written before report-detailed.json, so a    *)
(* writer that throws may have left the first.                             *)
written ==
  [status |-> reportVerdict(config, pipelineSteps, tested),
   valid  |-> validForCertification(config, pipelineSteps),
   steps  |-> pipelineSteps]

WriteReports ==
  /\ underWay /\ function = "write"
  /\ \/ /\ writerCanWrite(config, tested)
        /\ report' = written
        /\ FunctionReturns("passed")
     \/ /\ StepThrows
        /\ report' \in {NoReport} \cup
                       (IF writerCanWrite(config, tested) THEN {written} ELSE {})
  /\ UNCHANGED <<config, delivered, tested, running, certification, clean>>

(* What never ran is skipped, and the endorsement is asked, once. *)
Finish ==
  /\ phase # "finished" /\ at = n + 1
  /\ phase' = "finished"
  /\ results' = [i \in 1..n |-> IF results[i] = "pending" THEN "skipped" ELSE results[i]]
  /\ certification' = validForCertification(config, results')
  /\ UNCHANGED <<config, at, fn, pipelineSteps, delivered, tested, running,
                 pipelineStatus, report, clean>>

Next ==
  \/ RunFunction
  \/ StartStrategies
  \/ \E s \in running : StrategySettles(s)
  \/ WriteReports
  \/ Finish

Spec == Init /\ [][Next]_vars

(* Every await of a run comes back: the requests of a run have a deadline. *)
FairSpec == Spec /\ WF_vars(Next)

-----------------------------------------------------------------------------
(* The values the variables take. *)
TypeOK ==
  /\ config \in Config
  /\ phase \in {"steps", "finalizers", "finished"}
  /\ at \in 1..n + 1
  /\ fn \in Nat \ {0} /\ (at <= n => fn <= Len(current.functions))
  /\ results \in [1..n -> Status \cup {"pending"}]
  /\ pipelineSteps \in [1..n -> Status \cup {"absent"}]
  /\ running \subseteq ToSet(strategies(config))
  /\ tested \in {"none", "passed", "failed", "incomplete"}
  /\ pipelineStatus \in {"passed", "failed", "incomplete"}
  /\ report.valid \in BOOLEAN /\ certification \in BOOLEAN

finished == phase = "finished"

writer == n   \* every endorsement declares its writer last

(* "the written report and the returned result cannot disagree"            *)
(* (core.ts:823, rcf.ts:223): when the writer came back, the report lists  *)
(* what the result lists of every other step, says the same of the         *)
(* certification, and carries the status of the result (the EntityEvent    *)
(* report carries that of its scenarios instead).                          *)
ReportAgreesWithResult ==
  finished /\ results[writer] = "passed" =>
    /\ \A i \in 1..n - 1 : report.steps[i] = results[i]
    /\ report.valid = certification
    /\ config.endorsement # "entity-event" => report.status = pipelineStatus

(* The checks an endorsement is about. *)
mandatory(c) ==
  CASE c.endorsement = "dd" -> {"metadata", "ddMetadata", "variations"} \cup
                               ToSet(strategies(c))
    [] c.endorsement = "entity-event" -> {"metadata", "payloads", "scenarios"}
    [] c.endorsement = "rcf" -> {"infer"}
    [] OTHER -> {"metadata", "scenarios"}

certifies == certification \/ report.valid

(* The checks of it that a configuration takes away while its rule does    *)
(* not ask for them: the results of strategies that ran in parallel are    *)
(* not looked at (dd.ts 652), and without a mode the run observes.         *)
unexamined(c) ==
  (IF "parallelReplicate" \in c.flags THEN ToSet(strategies(c)) ELSE {}) \cup
  (IF c.endorsement = "entity-event" /\ c.mode # "full" THEN {"payloads"} ELSE {})

(* Nothing is certified, by the result or by the report on disk, unless    *)
(* every check the endorsement is about was done in full and found nothing *)
(* wrong, but for what the two configurations above leave unexamined.  The *)
(* scenarios are done when they passed, whatever they skipped within:      *)
(* core.ts 853-857 calls such a run certifiable.                           *)
CertifiedMeansTested ==
  certifies =>
    \A f \in mandatory(config) \ unexamined(config) :
      f \in clean \/ (f = "scenarios" /\ tested = "passed")

(* Promise.all gives up on its first rejection and leaves the others at    *)
(* work; no certified run has one of them behind it.                       *)
CertifiedMeansSettled == certifies => running = {}

(* A failure outranks a run cut short, which outranks a pass, over every   *)
(* step of the main loop; what a finalizer after a break came to does not  *)
(* count (pipeline.ts:151, 316-318).                                       *)
PipelineStatusIsWorst ==
  finished =>
    pipelineStatus =
      IF \E i \in 1..n : results[i] = "failed" THEN "failed"
      ELSE IF \E i \in 1..n : results[i] = "incomplete" THEN "incomplete"
      ELSE "passed"

(* After a step has failed under failFast the run starts no step but a     *)
(* finalizer, and no recorded result is ever changed.                      *)
FailFastStopsTheRun ==
  [][\A i \in 1..n :
       /\ results[i] # "pending" => results'[i] = results[i]
       /\ results[i] = "pending" /\ results'[i] \notin {"pending", "skipped"}
          /\ config.failFast /\ (\E j \in 1..i - 1 : results[j] = "failed") =>
            declared[i].alwaysRun]_vars

(* Every run ends with a result for every step it declared, and the runs   *)
(* that promise their reports whatever happens (dd, rcf) have written them *)
(* unless the writer itself failed.                                        *)
EveryRunReports ==
  <>(/\ finished
     /\ \A i \in 1..n : results[i] # "pending"
     /\ declared[writer].alwaysRun /\ results[writer] # "failed" =>
          report # NoReport)

(* dd.ts:413-416: "A certification run that does not enforce what it       *)
(* validates reports a pass next to the errors that should have stopped    *)
(* it."  In strict mode no certified run read a payload with schema errors *)
(* in it.                                                                  *)
NoCertificationPastSchemaErrors ==
  certifies /\ config.endorsement = "dd" => ToSet(strategies(config)) \subseteq clean

(* entity-event.ts:243-245: "An observe-only run exercises no writes at    *)
(* all, so certifying it would certify nothing."  A run that was given no  *)
(* mode runs in observe mode (288).                                        *)
ObserveNeverCertifies ==
  certifies /\ config.endorsement = "entity-event" => config.mode = "full"
=============================================================================
