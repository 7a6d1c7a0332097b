---------------------------- MODULE Certification ----------------------------
(***************************************************************************)
(* What each endorsement of the certification SDK declares: the steps of   *)
(* its pipeline, what the test functions of a step can come back with, the *)
(* verdict its report carries and the rule by which a run certifies        *)
(* (sdk/dd.ts, core.ts, add-edit.ts, entity-event.ts, rcf.ts and           *)
(* certification.ts).  A test function stands for the whole of its work;   *)
(* what it can answer depends on the configuration and on what the         *)
(* functions before it delivered into the context.                         *)
(***************************************************************************)
EXTENDS Integers, Sequences, FiniteSets

CONSTANTS
  Endorsements,   \* the endorsements run
  MaxFlags        \* bounds how many flags a configuration sets at once

FlagsOf(e) ==
  CASE e = "dd"       -> {"skipHealthCheck", "noStrict", "limit",
                          "skipVariations", "parallelReplicate"}
    [] e = "add-edit" -> {"skipHealthCheck", "samplesRecords"}
    [] e = "rcf"      -> {"noSchemaValidation", "skipVariations"}
    [] OTHER          -> {"skipHealthCheck"}

(* "latest" is the newest minor of its major, the one that certifies.  The *)
(* version of an RCF run is the one its inference settles on.              *)
VersionsOf(e) ==
  CASE e = "dd"           -> {"latest", "older", "1.7"}
    [] e = "entity-event" -> {"latest"}
    [] OTHER              -> {"latest", "older"}

ModesOf(e) == IF e = "entity-event" THEN {"observe", "full", "unset"} ELSE {"unset"}

Config == UNION {
  [endorsement : {e}, version : VersionsOf(e), mode : ModesOf(e), failFast : BOOLEAN,
   flags : {F \in SUBSET FlagsOf(e) : Cardinality(F) <= MaxFlags}] : e \in Endorsements}

ASSUME CertificationAssumption ==
  /\ Endorsements \subseteq {"dd", "core", "add-edit", "entity-event", "rcf"}
  /\ MaxFlags \in Nat

Status == {"passed", "failed", "incomplete", "skipped"}

-----------------------------------------------------------------------------
(* The declared steps. *)

step(name, functions) == [name |-> name, functions |-> functions, alwaysRun |-> FALSE]

when(condition, s) == IF condition THEN <<s>> ELSE <<>>

strategies(c) ==
  IF c.version = "1.7" THEN <<"timestampDesc">>
  ELSE <<"timestampDesc", "nextLink", "nextLinkFiltered">>

prologue(c) ==
  <<step("Resolve authentication", <<"auth">>)>>
  \o when("skipHealthCheck" \notin c.flags, step("Service check", <<"service">>))

finalizer == [step("Write reports", <<"write">>) EXCEPT !.alwaysRun = TRUE]

ddSteps(c) ==
  prologue(c)
  \o <<step("Generate metadata report", <<"metadata">>),
       step("Validate DD metadata", <<"ddMetadata">>)>>
  \o when(c.version # "1.7", step("Check variations", <<"variations">>))
  \o <<step("Replicate and validate",
            <<"initReplication">> \o (IF "parallelReplicate" \in c.flags
                                      THEN <<"parallel">> ELSE strategies(c))),
       finalizer>>

coreSteps(c) ==
  prologue(c)
  \o <<step("Fetch metadata", <<"metadata">>),
       step("Run Core scenarios", <<"scenarios">>),
       step("Write reports", <<"write">>)>>

addEditSteps(c) ==
  prologue(c)
  \o <<step("Fetch metadata", <<"metadata">>)>>
  \o when("samplesRecords" \in c.flags, step("Sample records", <<"records">>))
  \o <<step("Generate payloads", <<"payloads">>),
       step("Run Add/Edit scenarios", <<"scenarios">>),
       step("Write reports", <<"write">>)>>

entityEventSteps(c) ==
  prologue(c)
  \o <<step("Fetch metadata", <<"metadata">>)>>
  \o when(c.mode = "full", step("Generate payloads", <<"payloads">>))
  \o <<step("Run EntityEvent scenarios", <<"scenarios">>),
       step("Write reports", <<"write">>)>>

rcfSteps(c) ==
  <<step("Read RCF input", <<"input">>), step("Infer RCF reports", <<"infer">>),
    finalizer>>

steps(c) ==
  CASE c.endorsement = "dd"           -> ddSteps(c)
    [] c.endorsement = "core"         -> coreSteps(c)
    [] c.endorsement = "add-edit"     -> addEditSteps(c)
    [] c.endorsement = "entity-event" -> entityEventSteps(c)
    [] c.endorsement = "rcf"          -> rcfSteps(c)

-----------------------------------------------------------------------------
(* What a test function comes back with: its status, or an exception, and  *)
(* whether it delivered its result into the context.  clean says that it   *)
(* did the whole check it is there for and the check found nothing wrong   *)
(* (history: no step list carries it).                                     *)

Outcome == [status : Status \cup {"threw"}, delivers : BOOLEAN, clean : BOOLEAN]

outcome(status, delivers, clean) ==
  [status |-> status, delivers |-> delivers, clean |-> clean]

passed == outcome("passed", TRUE, TRUE)
partly == outcome("passed", TRUE, FALSE)       \* passed on what it could test
threw == outcome("threw", FALSE, FALSE)
skipped == outcome("skipped", FALSE, FALSE)
refused == outcome("failed", FALSE, FALSE)     \* failed with nothing to go on
found == outcome("failed", TRUE, FALSE)        \* failed on what it found

resolveAuth == {passed, threw}
serviceCheck == {passed, refused}

(* Both answer with the metadata in hand when it fails its own validation. *)
generateMetadata == {passed, found, threw}
fetchAndParseMetadata == {passed, found, threw}

(* Skipped without a report to look at, or without reference metadata.     *)
validateDdMetadata(delivered) ==
  IF "metadata" \in delivered THEN {passed, found, skipped, threw} ELSE {skipped}

runVariations(c) ==
  IF "skipVariations" \in c.flags THEN {skipped} ELSE {passed, found, threw}

initReplicationState == {passed, threw}

(* replicateReportingSchemaFailures: schema errors fail a strategy in      *)
(* strict mode only; DD 1.7 has no schema to validate with.                *)
strategyOutcomes(c) ==
  {passed, threw} \cup
  (IF c.version = "1.7" THEN {}
   ELSE IF "noStrict" \in c.flags THEN {partly}
   ELSE {refused})

(* The scenarios.  A resource that could not be sampled is skipped within  *)
(* the step, as is a check without a response or an event to look at, and  *)
(* the step passes on the rest.  Core: a spent run budget makes it         *)
(* incomplete.                                                             *)
sampleAndTest(delivered) ==
  IF "metadata" \in delivered
  THEN {passed, partly, found, outcome("incomplete", TRUE, FALSE), threw} ELSE {threw}

(* Add/Edit: nothing is written to the server with payloads refused.       *)
sampleRecords == {passed, refused, threw}
generatePayloads == {passed, refused, threw}
runTests(delivered) ==
  IF "payloads" \in delivered THEN {passed, partly, found, threw} ELSE {refused}

(* EntityEvent. *)
generateCanaryPayload == {passed, threw}
runEventTests == {passed, partly, found, threw}

(* RCF: a run that validates nothing, or checks no name, passes all the    *)
(* same; whether it may certify is left to the rule.                       *)
readInput == {passed, refused}
inferReports(c) ==
  {refused, found,
   outcome("passed", TRUE, c.flags \cap {"noSchemaValidation", "skipVariations"} = {})}

scenarioOutcomes(c, delivered) ==
  CASE c.endorsement = "core"     -> sampleAndTest(delivered)
    [] c.endorsement = "add-edit" -> runTests(delivered)
    [] OTHER                      -> runEventTests

outcomes(c, f, delivered) ==
  CASE f = "auth"            -> resolveAuth
    [] f = "service"         -> serviceCheck
    [] f = "metadata"        -> IF c.endorsement = "dd" THEN generateMetadata
                                ELSE fetchAndParseMetadata
    [] f = "ddMetadata"      -> validateDdMetadata(delivered)
    [] f = "variations"      -> runVariations(c)
    [] f = "initReplication" -> initReplicationState
    [] f = "records"         -> sampleRecords
    [] f = "payloads"        -> IF c.endorsement = "add-edit" THEN generatePayloads
                                ELSE generateCanaryPayload
    [] f = "scenarios"       -> scenarioOutcomes(c, delivered)
    [] f = "input"           -> readInput
    [] f = "infer"           -> inferReports(c)
    [] OTHER                 -> strategyOutcomes(c)

-----------------------------------------------------------------------------
(* The verdicts.  list holds the status of each declared step, "absent"    *)
(* for a step the list does not carry.                                     *)

someIn(list, status) == \E i \in DOMAIN list : list[i] = status

(* Plausible bugs: skipped is read as "not a defect", as the report's      *)
(* status once did, and the rule of dd forgets that strict was relaxed.    *)
FaultyEveryStepPassed(list) == ~someIn(list, "failed") /\ ~someIn(list, "incomplete")

everyStepPassed(list) == \A i \in DOMAIN list : list[i] \in {"passed", "absent"}

versionCertifies(c) == c.version = "latest"

FaultyDdValidForCertification(c, list) ==
  everyStepPassed(list) /\ versionCertifies(c) /\ "limit" \notin c.flags

ddValidForCertification(c, list) ==
  /\ everyStepPassed(list)
  /\ versionCertifies(c)
  /\ c.flags \cap {"noStrict", "limit"} = {}

coreValidForCertification(c, list) == everyStepPassed(list) /\ versionCertifies(c)

addEditValidForCertification(c, list) == everyStepPassed(list) /\ versionCertifies(c)

entityEventValidForCertification(c, list) ==
  /\ c.mode # "observe"
  /\ everyStepPassed(list)

rcfValidForCertification(c, list) ==
  /\ everyStepPassed(list)
  /\ versionCertifies(c)
  /\ c.flags \cap {"noSchemaValidation", "skipVariations"} = {}

validForCertification(c, list) ==
  CASE c.endorsement = "dd"           -> ddValidForCertification(c, list)
    [] c.endorsement = "core"         -> coreValidForCertification(c, list)
    [] c.endorsement = "add-edit"     -> addEditValidForCertification(c, list)
    [] c.endorsement = "entity-event" -> entityEventValidForCertification(c, list)
    [] c.endorsement = "rcf"          -> rcfValidForCertification(c, list)

deriveStatus(list) ==
  IF someIn(list, "failed") THEN "failed"
  ELSE IF someIn(list, "incomplete") THEN "incomplete" ELSE "passed"

(* The headline of a report: tested is what the scenarios came to, "none"  *)
(* when they left no result.                                               *)
coreReportVerdict(list, tested) ==
  IF someIn(list, "failed") \/ tested = "none" THEN "failed" ELSE tested

addEditReportVerdict(list, tested) ==
  IF tested = "failed" \/ someIn(list, "failed") THEN "failed" ELSE "passed"

rcfReportVerdict(list) == IF someIn(list, "failed") THEN "failed" ELSE "passed"

reportVerdict(c, list, tested) ==
  CASE c.endorsement = "dd"           -> deriveStatus(list)
    [] c.endorsement = "core"         -> coreReportVerdict(list, tested)
    [] c.endorsement = "add-edit"     -> addEditReportVerdict(list, tested)
    [] c.endorsement = "entity-event" -> tested
    [] c.endorsement = "rcf"          -> rcfReportVerdict(list)

(* The EntityEvent writer reads its test report without asking for it.     *)
writerCanWrite(c, tested) == c.endorsement = "entity-event" => tested # "none"

=============================================================================
