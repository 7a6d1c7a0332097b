---------------------------- MODULE PipelineProofs ----------------------------
(***************************************************************************)
(* Proofs about Pipeline.tla: what a run's report says agrees with what    *)
(* its result says, a run certifies only on what it tested in full, and a  *)
(* failFast run starts nothing after a failure but its finalizer.          *)
(***************************************************************************)
EXTENDS Pipeline, SequenceTheorems, TLAPS

Functions == {"auth", "service", "metadata", "ddMetadata", "variations", "initReplication",
              "parallel", "timestampDesc", "nextLink", "nextLinkFiltered", "records",
              "payloads", "scenarios", "input", "infer", "write"}

(* A step as the endorsements declare them.  A step of several functions   *)
(* is the one that replicates.                                             *)
Replicating == {"initReplication", "parallel", "timestampDesc", "nextLink", "nextLinkFiltered"}

StepNames ==
  {"Resolve authentication", "Service check", "Generate metadata report", "Validate DD metadata",
   "Check variations", "Replicate and validate", "Fetch metadata", "Run Core scenarios",
   "Sample records", "Generate payloads", "Run Add/Edit scenarios", "Run EntityEvent scenarios",
   "Read RCF input", "Infer RCF reports", "Write reports"}

Step == [name : StepNames,
         functions : {F \in Seq(Functions) :
                        /\ F # <<>>
                        /\ Len(F) = 1 \/ \A k \in DOMAIN F : F[k] \in Replicating},
         alwaysRun : BOOLEAN]

(* A step that neither tests scenarios nor writes the reports.             *)
PlainStep == {s \in Step : /\ ~s.alwaysRun
                           /\ \A k \in DOMAIN s.functions : s.functions[k] \notin {"write", "scenarios"}}

-----------------------------------------------------------------------------
(* The inductive invariant. *)

open == phase # "finished"

(* What a step that has not run will be reported as. *)
final(i) == IF results[i] = "pending" THEN "skipped" ELSE results[i]

(* Where the run is: the main loop leaves no step out, and a break goes on *)
(* with a finalizer that always runs, if there is one.                     *)
LoopInv ==
  /\ open => \A i \in at..n : results[i] = "pending"
  /\ phase = "steps" =>
       /\ \A i \in 1..at - 1 : results[i] # "pending"
       /\ config.failFast => \A i \in 1..n : results[i] # "failed"
  /\ phase = "finalizers" =>
       /\ at >= n /\ config.failFast
       /\ at = n => declared[n].alwaysRun
       /\ \E i \in 1..n : results[i] = "failed"
  /\ phase = "finished" => at = n + 1 /\ \A i \in 1..n : results[i] # "pending"

(* The list that a writer sees: what each step before it came to, and      *)
(* nothing of the writer itself.                                           *)
ListInv ==
  /\ open => \A i \in 1..n - 1 :
       pipelineSteps[i] = IF phase = "steps" /\ results[i] = "pending" THEN "absent" ELSE final(i)
  /\ open /\ at <= n => pipelineSteps[n] = "absent"

StatusInv ==
  pipelineStatus = IF \E i \in 1..n : results[i] = "failed" THEN "failed"
                   ELSE IF \E i \in 1..n : results[i] = "incomplete" THEN "incomplete"
                   ELSE "passed"

(* What the scenarios came to is what their step, the last but one, came   *)
(* to, unless they threw; nothing else is ever cut short.                  *)
TestedInv ==
  /\ open /\ config.endorsement \in {"core", "add-edit"} =>
       \/ tested = "none" /\ results[n - 1] \in {"pending", "failed"}
       \/ tested = results[n - 1]
  /\ \A i \in 1..n : results[i] = "incomplete" =>
       i = n - 1 /\ config.endorsement = "core" /\ tested = "incomplete"

ReportInv ==
  /\ open /\ at <= n => report = NoReport
  /\ results[n] = "passed" => report # NoReport
  /\ report # NoReport =>
       /\ report.steps = [i \in 1..n |-> IF i = n THEN "absent" ELSE final(i)]
       /\ report.valid = validForCertification(config, report.steps)
       /\ results[n] = "passed" /\ config.endorsement # "entity-event" =>
            report.status = pipelineStatus

(* A function that passed did all it is there for, unless the              *)
(* configuration took its checks away; what the scenarios came to is kept  *)
(* in tested.                                                              *)
DoneIn(S, f) ==
  \/ f \in S \cup {"write", "parallel", "scenarios"}
  \/ f \in ToSet(strategies(config)) /\ "noStrict" \in config.flags
  \/ f = "infer" /\ config.flags \cap {"noSchemaValidation", "skipVariations"} # {}

CleanInv ==
  /\ \A i \in 1..n : results[i] = "passed" =>
       \A k \in DOMAIN declared[i].functions : DoneIn(clean, declared[i].functions[k])
  /\ underWay => \A k \in 1..fn - 1 : DoneIn(clean, current.functions[k])

CertifiedInv == certification <=> ~open /\ validForCertification(config, results)

(* A strategy is at work behind the run only once one has failed. *)
BehindInv ==
  running # {} => \/ underWay /\ function = "parallel"
                  \/ \E i \in 1..n - 1 : results[i] = "failed"

IInv ==
  /\ TypeOK /\ LoopInv /\ ListInv /\ StatusInv /\ TestedInv /\ ReportInv /\ CleanInv
  /\ CertifiedInv /\ BehindInv

-----------------------------------------------------------------------------
(* Lemmas about the declared steps. *)

(* What the proofs use of a list of steps: the writer is its last, and     *)
(* alone always runs, if any does; no scenarios are tested but by the step *)
(* before it.                                                              *)
WellDeclared(d) ==
  /\ d \in Seq(Step) /\ Len(d) >= 3
  /\ d[Len(d)].functions = <<"write">>
  /\ \A i \in 1..Len(d) - 1 : /\ ~d[i].alwaysRun
                              /\ \A k \in DOMAIN d[i].functions : d[i].functions[k] # "write"
  /\ \A i \in 1..Len(d) - 2 : \A k \in DOMAIN d[i].functions : d[i].functions[k] # "scenarios"

(* A step of one function is a step, and plain unless the function is one  *)
(* of the two.                                                             *)
LEMMA SingleStep ==
  ASSUME NEW name \in StepNames, NEW f \in Functions
  PROVE  /\ step(name, <<f>>) \in Step
         /\ step(name, <<f>>).functions = <<f>> /\ ~step(name, <<f>>).alwaysRun
         /\ f \notin {"write", "scenarios"} => step(name, <<f>>) \in PlainStep
<1>1. <<f>> \in Seq(Functions) /\ <<f>> # <<>> /\ Len(<<f>>) = 1 /\ <<f>>[1] = f /\ DOMAIN <<f>> = {1}
  OBVIOUS
<1>2. step(name, <<f>>) \in Step
  BY <1>1 DEF Step, step
<1>3. QED BY <1>1, <1>2 DEF PlainStep, step

(* The finalizer writes the reports, and always runs.                      *)
LEMMA FinalizerIs ==
  finalizer \in Step /\ finalizer.functions = <<"write">> /\ finalizer.alwaysRun
<1>1. /\ step("Write reports", <<"write">>) \in Step
      /\ step("Write reports", <<"write">>).functions = <<"write">>
  BY SingleStep DEF StepNames, Functions
<1> DEFINE s == step("Write reports", <<"write">>)
<1> HIDE DEF s
<1>2. /\ [s EXCEPT !.alwaysRun = TRUE] \in Step
      /\ [s EXCEPT !.alwaysRun = TRUE].functions = <<"write">>
      /\ [s EXCEPT !.alwaysRun = TRUE].alwaysRun
  BY <1>1 DEF Step, s
<1>3. QED BY <1>2 DEF finalizer, s

(* A step that is there on a condition.                                    *)
LEMMA WhenIs ==
  ASSUME NEW S, NEW s \in S, NEW condition \in BOOLEAN
  PROVE  when(condition, s) \in Seq(S)
BY DEF when

(* Steps put one after the other.                                          *)
LEMMA JoinedPlain ==
  ASSUME NEW a \in Seq(PlainStep), NEW b \in Seq(PlainStep)
  PROVE  a \o b \in Seq(PlainStep)
OBVIOUS

(* Plain steps, the one that matters and the writer.                       *)
LEMMA EndsWith ==
  ASSUME NEW p \in Seq(PlainStep), Len(p) >= 1, NEW m \in Step, NEW w \in Step,
         w.functions = <<"write">>, ~m.alwaysRun,
         \A k \in DOMAIN m.functions : m.functions[k] # "write"
  PROVE  LET d == p \o <<m, w>> IN
         WellDeclared(d) /\ d[Len(d)] = w /\ d[Len(d) - 1] = m
<1> DEFINE d == p \o <<m, w>>
<1>1. <<m, w>> \in Seq(Step) /\ Len(<<m, w>>) = 2
  OBVIOUS
<1>2. p \in Seq(Step)
  BY DEF PlainStep
<1>3. d \in Seq(Step) /\ Len(d) = Len(p) + 2
  BY <1>1, <1>2
<1>4. d[Len(d)] = w /\ d[Len(d) - 1] = m
  BY <1>1, <1>2, <1>3
<1>5. ASSUME NEW i \in 1..Len(p) PROVE d[i] = p[i] /\ p[i] \in PlainStep
  BY <1>1, <1>2
<1> HIDE DEF d
<1>6. WellDeclared(d)
  BY <1>3, <1>4, <1>5 DEF WellDeclared, PlainStep
<1>7. QED BY <1>4, <1>6 DEF d

(* The first steps of an endorsement.                                      *)
LEMMA PrologueIs ==
  ASSUME NEW c
  PROVE  prologue(c) \in Seq(PlainStep) /\ Len(prologue(c)) >= 1
<1> DEFINE a == step("Resolve authentication", <<"auth">>)
           b == step("Service check", <<"service">>)
<1>1. a \in PlainStep /\ b \in PlainStep
  BY SingleStep DEF StepNames, Functions
<1> HIDE DEF a, b
<1>2. <<a>> \in Seq(PlainStep) /\ Len(<<a>>) = 1
  BY <1>1
<1>3. when("skipHealthCheck" \notin c.flags, b) \in Seq(PlainStep)
  BY <1>1, WhenIs
<1>4. prologue(c) = <<a>> \o when("skipHealthCheck" \notin c.flags, b)
  BY DEF prologue, a, b
<1>5. QED BY <1>2, <1>3, <1>4

(* The steps of every endorsement are well declared; only dd and rcf write *)
(* their reports whatever happens; and the steps that test scenarios do    *)
(* nothing else.                                                           *)
DeclaredOK(c) ==
  LET d == steps(c) IN
  /\ WellDeclared(d)
  /\ d[Len(d)].alwaysRun <=> c.endorsement \in {"dd", "rcf"}
  /\ c.endorsement \in {"core", "add-edit", "entity-event"}
       => d[Len(d) - 1].functions = <<"scenarios">>

(* The replication of a dd run.                                            *)
LEMMA ReplicationIs ==
  ASSUME NEW c
  PROVE  LET F == <<"initReplication">> \o (IF "parallelReplicate" \in c.flags
                                            THEN <<"parallel">> ELSE strategies(c))
             s == step("Replicate and validate", F) IN
         /\ s \in Step /\ ~s.alwaysRun /\ s.functions = F
         /\ s \in PlainStep
         /\ \A k \in DOMAIN s.functions : s.functions[k] \in Replicating
<1> DEFINE a == <<"initReplication">>
           b == IF "parallelReplicate" \in c.flags THEN <<"parallel">> ELSE strategies(c)
<1>1. a \in Seq(Replicating) /\ Len(a) = 1
  BY DEF Replicating
<1>2. b \in Seq(Replicating)
  <2>1. <<"parallel">> \in Seq(Replicating) /\ <<"timestampDesc">> \in Seq(Replicating)
    BY DEF Replicating
  <2>2. <<"timestampDesc", "nextLink", "nextLinkFiltered">> \in Seq(Replicating)
    BY DEF Replicating
  <2>3. QED BY <2>1, <2>2 DEF strategies
<1> HIDE DEF a, b
<1> DEFINE F == a \o b
           s == step("Replicate and validate", F)
<1>3. F \in Seq(Replicating) /\ Len(F) >= 1
  BY <1>1, <1>2
<1> HIDE DEF F
<1>4. Replicating \subseteq Functions \ {"write", "scenarios"}
  BY DEF Functions, Replicating
<1>5. F \in Seq(Functions) /\ F # <<>> /\ \A k \in DOMAIN F : F[k] \in Replicating
  BY <1>3, <1>4
<1>6. s = [name |-> "Replicate and validate", functions |-> F, alwaysRun |-> FALSE]
  BY DEF step
<1> DEFINE Lists == {G \in Seq(Functions) :
                        /\ G # <<>>
                        /\ Len(G) = 1 \/ \A k \in DOMAIN G : G[k] \in Replicating}
<1>7. F \in Lists
  BY <1>5
<1>8. Step = [name : StepNames, functions : Lists, alwaysRun : BOOLEAN]
  BY DEF Step
<1> HIDE DEF s, Lists
<1>9. s \in Step /\ s.functions = F /\ ~s.alwaysRun
  BY <1>6, <1>7, <1>8 DEF StepNames
<1>10. s \in PlainStep
  BY <1>4, <1>5, <1>9 DEF PlainStep
<1>11. \A k \in DOMAIN s.functions : s.functions[k] \in Replicating
  BY <1>5, <1>9
<1>12. QED BY <1>9, <1>10, <1>11 DEF F, a, b, s

(* Plain steps are steps.                                                  *)
LEMMA PlainSteps == ASSUME NEW s \in Seq(PlainStep) PROVE s \in Seq(Step)
BY DEF PlainStep

(* A function that one of the steps runs.                                  *)
Holds(d, f) == \E i \in DOMAIN d : \E k \in DOMAIN d[i].functions : d[i].functions[k] = f

(* Steps put one after the other run what each of them runs.               *)
LEMMA HoldsJoined ==
  ASSUME NEW a \in Seq(Step), NEW b \in Seq(Step), NEW f, Holds(a, f) \/ Holds(b, f)
  PROVE  Holds(a \o b, f)
<1>1. a \o b \in Seq(Step) /\ Len(a \o b) = Len(a) + Len(b)
  OBVIOUS
<1>2. CASE Holds(a, f)
  <2>1. PICK i \in DOMAIN a : \E k \in DOMAIN a[i].functions : a[i].functions[k] = f
    BY <1>2 DEF Holds
  <2>2. i \in DOMAIN (a \o b) /\ (a \o b)[i] = a[i]
    OBVIOUS
  <2>3. QED BY <2>1, <2>2 DEF Holds
<1>3. CASE Holds(b, f)
  <2>1. PICK i \in DOMAIN b : \E k \in DOMAIN b[i].functions : b[i].functions[k] = f
    BY <1>3 DEF Holds
  <2>2. Len(a) + i \in DOMAIN (a \o b) /\ (a \o b)[Len(a) + i] = b[i]
    OBVIOUS
  <2>3. QED BY <2>1, <2>2 DEF Holds
<1>4. QED BY <1>2, <1>3

(* A step of one function runs it.                                         *)
LEMMA HoldsAt ==
  ASSUME NEW a, NEW i \in DOMAIN a, NEW f, a[i].functions = <<f>>
  PROVE  Holds(a, f)
BY DEF Holds

(* A configuration.                                                        *)
LEMMA ConfigIs ==
  ASSUME NEW c \in Config
  PROVE  /\ c.endorsement \in {"dd", "core", "add-edit", "entity-event", "rcf"}
         /\ c.version \in VersionsOf(c.endorsement) /\ c.mode \in ModesOf(c.endorsement)
         /\ c.failFast \in BOOLEAN /\ c.flags \subseteq FlagsOf(c.endorsement)
<1>1. PICK e \in Endorsements :
        c \in [endorsement : {e}, version : VersionsOf(e), mode : ModesOf(e), failFast : BOOLEAN,
               flags : {F \in SUBSET FlagsOf(e) : Cardinality(F) <= MaxFlags}]
  BY DEF Config
<1>2. c.endorsement = e
  BY <1>1
<1>3. QED BY <1>1, <1>2, CertificationAssumption

(* dd.                                                                     *)
LEMMA DdSteps ==
  ASSUME NEW c
  PROVE  /\ WellDeclared(ddSteps(c)) /\ ddSteps(c)[Len(ddSteps(c))].alwaysRun
         /\ c.version # "1.7" =>
              \A f \in {"metadata", "ddMetadata", "variations"} : Holds(ddSteps(c), f)
         /\ c.version # "1.7" /\ "parallelReplicate" \notin c.flags =>
              \A f \in ToSet(strategies(c)) : Holds(ddSteps(c), f)
<1> DEFINE a == step("Generate metadata report", <<"metadata">>)
           b == step("Validate DD metadata", <<"ddMetadata">>)
           v == step("Check variations", <<"variations">>)
           F == <<"initReplication">> \o (IF "parallelReplicate" \in c.flags
                                          THEN <<"parallel">> ELSE strategies(c))
           m == step("Replicate and validate", F)
           q == when(c.version # "1.7", v)
           p == (prologue(c) \o <<a, b>>) \o q
<1>1. /\ a \in PlainStep /\ b \in PlainStep /\ v \in PlainStep
      /\ a.functions = <<"metadata">> /\ b.functions = <<"ddMetadata">>
      /\ v.functions = <<"variations">>
  BY SingleStep DEF StepNames, Functions
<1>2. m \in PlainStep /\ m.functions = F
  BY ReplicationIs
<1>3. ddSteps(c) = p \o <<m, finalizer>>
  BY DEF ddSteps
<1>4. prologue(c) \in Seq(PlainStep) /\ Len(prologue(c)) >= 1
  BY PrologueIs
<1>5. q = IF c.version # "1.7" THEN <<v>> ELSE <<>>
  BY DEF when
<1>6. F = <<"initReplication">> \o (IF "parallelReplicate" \in c.flags
                                    THEN <<"parallel">> ELSE strategies(c))
  OBVIOUS
<1> HIDE DEF a, b, v, F, m, q
<1>7. <<a, b>> \in Seq(PlainStep) /\ Len(<<a, b>>) = 2
  BY <1>1
<1>8. q \in Seq(PlainStep)
  BY <1>1, <1>5
<1>9. prologue(c) \o <<a, b>> \in Seq(PlainStep) /\ Len(prologue(c) \o <<a, b>>) >= 1
  BY <1>4, <1>7
<1>10. p \in Seq(PlainStep) /\ Len(p) >= 1
  BY <1>8, <1>9
<1>11. /\ m \in Step /\ ~m.alwaysRun
       /\ \A k \in DOMAIN m.functions : m.functions[k] # "write"
  BY <1>2 DEF PlainStep
<1>12. LET d == p \o <<m, finalizer>> IN WellDeclared(d) /\ d[Len(d)] = finalizer
  <2> HIDE DEF p
  <2>1. QED BY <1>10, <1>11, FinalizerIs, EndsWith
<1>13. ASSUME c.version # "1.7",
              NEW f \in {"metadata", "ddMetadata", "variations"} \cup ToSet(strategies(c)),
              f \in {"metadata", "ddMetadata", "variations"} \/ "parallelReplicate" \notin c.flags
       PROVE  Holds(p \o <<m, finalizer>>, f)
  <2> DEFINE head == prologue(c)  pair == <<a, b>>  first == head \o pair  ends == <<m, finalizer>>
  <2>0. head \in Seq(Step) /\ pair \in Seq(Step) /\ q \in Seq(Step)
    BY <1>4, <1>7, <1>8, PlainSteps
  <2>a. first \in Seq(Step) /\ p \in Seq(Step)
    BY <1>9, <1>10, PlainSteps
  <2>b. ends \in Seq(Step)
    BY <1>11, FinalizerIs
  <2>c. p = first \o q
    OBVIOUS
  <2> HIDE DEF p
  <2>1. CASE f \in {"metadata", "ddMetadata"}
    <3>1. Holds(pair, f)
      BY <1>1, <2>1, HoldsAt
    <3> HIDE DEF head, pair, ends
    <3>2. Holds(first, f)
      BY <2>0, <3>1, HoldsJoined
    <3> HIDE DEF first
    <3>3. Holds(p, f)
      BY <2>0, <2>a, <2>c, <3>2, HoldsJoined
    <3>4. QED BY <2>a, <2>b, <3>3, HoldsJoined DEF ends
  <2>2. CASE f = "variations"
    <3>1. Holds(q, f)
      BY <1>1, <1>5, <1>13, <2>2, HoldsAt
    <3> HIDE DEF first, ends
    <3>2. Holds(p, f)
      BY <2>0, <2>a, <2>c, <3>1, HoldsJoined
    <3>3. QED BY <2>a, <2>b, <3>2, HoldsJoined DEF ends
  <2>3. CASE f \in ToSet(strategies(c)) /\ "parallelReplicate" \notin c.flags
    <3>1. F = <<"initReplication">> \o strategies(c)
      BY <1>6, <2>3
    <3>2. strategies(c) = <<"timestampDesc", "nextLink", "nextLinkFiltered">>
      BY <1>13 DEF strategies
    <3>3. PICK j \in DOMAIN strategies(c) : strategies(c)[j] = f
      BY <2>3 DEF ToSet
    <3>4. j + 1 \in DOMAIN F /\ F[j + 1] = f
      BY <3>1, <3>2, <3>3
    <3>5. 1 \in DOMAIN ends /\ ends[1] = m
      OBVIOUS
    <3> HIDE DEF ends
    <3>6. Holds(ends, f)
      BY <1>2, <3>4, <3>5 DEF Holds
    <3>7. QED BY <2>a, <2>b, <3>6, HoldsJoined DEF ends
  <2>4. QED BY <1>13, <2>1, <2>2, <2>3
<1>14. QED BY <1>3, <1>12, <1>13, FinalizerIs

(* Three steps, as one and two.                                            *)
LEMMA OneAndTwo ==
  ASSUME NEW a \in Step, NEW m \in Step, NEW w \in Step
  PROVE  <<a>> \o <<m, w>> = <<a, m, w>>
<1>1. <<a, m, w>> \in Seq(Step) /\ Len(<<a, m, w>>) = 3
  OBVIOUS
<1>2. /\ <<a>> \o <<m, w>> \in Seq(Step) /\ Len(<<a>> \o <<m, w>>) = 3
      /\ (<<a>> \o <<m, w>>)[1] = a /\ (<<a>> \o <<m, w>>)[2] = m /\ (<<a>> \o <<m, w>>)[3] = w
  OBVIOUS
<1>3. \A i \in 1..3 : (<<a>> \o <<m, w>>)[i] = <<a, m, w>>[i]
  BY <1>2
<1>4. QED BY <1>1, <1>2, <1>3, SeqEqual

(* core.                                                                   *)
LEMMA CoreSteps ==
  ASSUME NEW c
  PROVE  LET d == coreSteps(c) IN
         /\ WellDeclared(d) /\ ~d[Len(d)].alwaysRun /\ d[Len(d) - 1].functions = <<"scenarios">>
         /\ Holds(d, "metadata") /\ Holds(d, "scenarios")
<1> DEFINE a == step("Fetch metadata", <<"metadata">>)
           m == step("Run Core scenarios", <<"scenarios">>)
           w == step("Write reports", <<"write">>)
           head == prologue(c)
           one == <<a>>
           p == head \o one
           ends == <<m, w>>
<1>1. /\ a \in PlainStep /\ m \in Step /\ w \in Step
      /\ a.functions = <<"metadata">> /\ m.functions = <<"scenarios">> /\ w.functions = <<"write">>
      /\ ~m.alwaysRun /\ ~w.alwaysRun
  BY SingleStep DEF StepNames, Functions
<1>2. head \in Seq(PlainStep) /\ Len(head) >= 1
  BY PrologueIs
<1>3. coreSteps(c) = head \o <<a, m, w>>
  BY DEF coreSteps
<1> HIDE DEF a, m, w, head
<1>4. one \in Seq(PlainStep) /\ ends \in Seq(Step)
  BY <1>1
<1>5. p \in Seq(PlainStep) /\ Len(p) >= 1
  BY <1>2, <1>4
<1>6. coreSteps(c) = p \o ends
  <2>1. one \o ends = <<a, m, w>>
    BY <1>1, OneAndTwo DEF PlainStep
  <2>2. head \in Seq(Step) /\ one \in Seq(Step)
    BY <1>2, <1>4, PlainSteps
  <2> HIDE DEF one, ends
  <2>3. (head \o one) \o ends = head \o (one \o ends)
    BY <1>4, <2>2
  <2>4. QED BY <1>3, <2>1, <2>3
<1>7. Holds(one, "metadata") /\ Holds(ends, "scenarios")
  BY <1>1, HoldsAt
<1>8. one \in Seq(Step) /\ p \in Seq(Step) /\ head \in Seq(Step)
  BY <1>2, <1>4, <1>5, PlainSteps
<1>9. Holds(p, "metadata")
  <2> HIDE DEF one
  <2>1. QED BY <1>7, <1>8, HoldsJoined
<1>10. WellDeclared(p \o ends) /\ (p \o ends)[Len(p \o ends)] = w /\ (p \o ends)[Len(p \o ends) - 1] = m
  <2>1. \A k \in DOMAIN m.functions : m.functions[k] # "write"
    BY <1>1
  <2> HIDE DEF p
  <2>2. QED BY <1>1, <1>5, <2>1, EndsWith
<1> HIDE DEF p, ends
<1>11. Holds(p \o ends, "metadata") /\ Holds(p \o ends, "scenarios")
  BY <1>4, <1>7, <1>8, <1>9, HoldsJoined
<1>12. QED BY <1>1, <1>6, <1>10, <1>11

(* add-edit.                                                               *)
LEMMA AddEditSteps ==
  ASSUME NEW c
  PROVE  LET d == addEditSteps(c) IN
         /\ WellDeclared(d) /\ ~d[Len(d)].alwaysRun /\ d[Len(d) - 1].functions = <<"scenarios">>
         /\ Holds(d, "metadata") /\ Holds(d, "scenarios")
<1> DEFINE a == step("Fetch metadata", <<"metadata">>)
           r == step("Sample records", <<"records">>)
           b == step("Generate payloads", <<"payloads">>)
           m == step("Run Add/Edit scenarios", <<"scenarios">>)
           w == step("Write reports", <<"write">>)
           head == prologue(c)
           one == <<a>>
           opt == when("samplesRecords" \in c.flags, r)
           two == <<b>>
           h == head \o one
           g == h \o opt
           p == g \o two
           ends == <<m, w>>
<1>1. /\ a \in PlainStep /\ r \in PlainStep /\ b \in PlainStep /\ m \in Step /\ w \in Step
      /\ a.functions = <<"metadata">> /\ m.functions = <<"scenarios">> /\ w.functions = <<"write">>
      /\ ~m.alwaysRun /\ ~w.alwaysRun
  BY SingleStep DEF StepNames, Functions
<1>2. head \in Seq(PlainStep) /\ Len(head) >= 1
  BY PrologueIs
<1>3. addEditSteps(c) = g \o <<b, m, w>>
  BY DEF addEditSteps
<1>4. opt = IF "samplesRecords" \in c.flags THEN <<r>> ELSE <<>>
  BY DEF when
<1> HIDE DEF a, r, b, m, w, head, opt
<1>5. one \in Seq(PlainStep) /\ two \in Seq(PlainStep) /\ opt \in Seq(PlainStep) /\ ends \in Seq(Step)
  BY <1>1, <1>4
<1>6. h \in Seq(PlainStep) /\ Len(h) >= 1
  BY <1>2, <1>5
<1>7. Holds(one, "metadata") /\ Holds(ends, "scenarios")
  BY <1>1, HoldsAt
<1>8. two \o ends = <<b, m, w>>
  BY <1>1, OneAndTwo DEF PlainStep
<1> HIDE DEF one, two, ends
<1>9. Holds(h, "metadata")
  BY <1>2, <1>5, <1>7, PlainSteps, HoldsJoined
<1>10. g \in Seq(PlainStep) /\ Len(g) >= 1
  BY <1>5, <1>6
<1> HIDE DEF h
<1>11. Holds(g, "metadata")
  BY <1>5, <1>6, <1>9, PlainSteps, HoldsJoined
<1>12. p \in Seq(PlainStep) /\ Len(p) >= 1
  BY <1>5, <1>10
<1> HIDE DEF g
<1>13. Holds(p, "metadata")
  BY <1>5, <1>10, <1>11, PlainSteps, HoldsJoined
<1>14. addEditSteps(c) = p \o ends
  <2>1. g \in Seq(Step) /\ two \in Seq(Step)
    BY <1>5, <1>10, PlainSteps
  <2>2. (g \o two) \o ends = g \o (two \o ends)
    BY <1>5, <2>1
  <2>3. QED BY <1>3, <1>8, <2>2
<1> HIDE DEF p
<1>15. WellDeclared(p \o ends) /\ (p \o ends)[Len(p \o ends)] = w /\ (p \o ends)[Len(p \o ends) - 1] = m
  <2>1. \A k \in DOMAIN m.functions : m.functions[k] # "write"
    BY <1>1
  <2>2. QED BY <1>1, <1>12, <2>1, EndsWith DEF ends
<1>16. Holds(p \o ends, "metadata") /\ Holds(p \o ends, "scenarios")
  BY <1>5, <1>7, <1>12, <1>13, PlainSteps, HoldsJoined
<1>17. QED BY <1>1, <1>14, <1>15, <1>16

(* entity-event.                                                           *)
LEMMA EntityEventSteps ==
  ASSUME NEW c
  PROVE  LET d == entityEventSteps(c) IN
         /\ WellDeclared(d) /\ ~d[Len(d)].alwaysRun /\ d[Len(d) - 1].functions = <<"scenarios">>
         /\ Holds(d, "metadata") /\ Holds(d, "scenarios")
         /\ c.mode = "full" => Holds(d, "payloads")
<1> DEFINE a == step("Fetch metadata", <<"metadata">>)
           r == step("Generate payloads", <<"payloads">>)
           m == step("Run EntityEvent scenarios", <<"scenarios">>)
           w == step("Write reports", <<"write">>)
           head == prologue(c)
           one == <<a>>
           opt == when(c.mode = "full", r)
           h == head \o one
           p == h \o opt
           ends == <<m, w>>
<1>1. /\ a \in PlainStep /\ r \in PlainStep /\ m \in Step /\ w \in Step
      /\ a.functions = <<"metadata">> /\ r.functions = <<"payloads">>
      /\ m.functions = <<"scenarios">> /\ w.functions = <<"write">>
      /\ ~m.alwaysRun /\ ~w.alwaysRun
  BY SingleStep DEF StepNames, Functions
<1>2. head \in Seq(PlainStep) /\ Len(head) >= 1
  BY PrologueIs
<1>3. entityEventSteps(c) = p \o ends
  BY DEF entityEventSteps
<1>4. opt = IF c.mode = "full" THEN <<r>> ELSE <<>>
  BY DEF when
<1> HIDE DEF a, r, m, w, head, opt
<1>5. one \in Seq(PlainStep) /\ opt \in Seq(PlainStep) /\ ends \in Seq(Step)
  BY <1>1, <1>4
<1>6. h \in Seq(PlainStep) /\ Len(h) >= 1
  BY <1>2, <1>5
<1>7. Holds(one, "metadata") /\ Holds(ends, "scenarios") /\ (c.mode = "full" => Holds(opt, "payloads"))
  BY <1>1, <1>4, HoldsAt
<1> HIDE DEF one, ends
<1>8. Holds(h, "metadata")
  BY <1>2, <1>5, <1>7, PlainSteps, HoldsJoined
<1>9. p \in Seq(PlainStep) /\ Len(p) >= 1
  BY <1>5, <1>6
<1> HIDE DEF h
<1>10. Holds(p, "metadata") /\ (c.mode = "full" => Holds(p, "payloads"))
  BY <1>5, <1>6, <1>7, <1>8, PlainSteps, HoldsJoined
<1> HIDE DEF p
<1>11. WellDeclared(p \o ends) /\ (p \o ends)[Len(p \o ends)] = w /\ (p \o ends)[Len(p \o ends) - 1] = m
  <2>1. \A k \in DOMAIN m.functions : m.functions[k] # "write"
    BY <1>1
  <2>2. QED BY <1>1, <1>9, <2>1, EndsWith DEF ends
<1>12. /\ Holds(p \o ends, "metadata") /\ Holds(p \o ends, "scenarios")
       /\ c.mode = "full" => Holds(p \o ends, "payloads")
  BY <1>5, <1>7, <1>9, <1>10, PlainSteps, HoldsJoined
<1>13. QED BY <1>1, <1>3, <1>11, <1>12

(* rcf.                                                                    *)
LEMMA RcfSteps ==
  ASSUME NEW c
  PROVE  LET d == rcfSteps(c) IN
         WellDeclared(d) /\ d[Len(d)].alwaysRun /\ Holds(d, "infer")
<1> DEFINE a == step("Read RCF input", <<"input">>)
           m == step("Infer RCF reports", <<"infer">>)
           p == <<a>>
           ends == <<m, finalizer>>
<1>1. /\ a \in PlainStep /\ m \in Step
      /\ m.functions = <<"infer">> /\ ~m.alwaysRun
  BY SingleStep DEF StepNames, Functions
<1>2. rcfSteps(c) = <<a, m, finalizer>>
  BY DEF rcfSteps
<1> HIDE DEF a, m
<1>3. p \in Seq(PlainStep) /\ Len(p) >= 1 /\ rcfSteps(c) = p \o ends
  BY <1>1, <1>2
<1>4. /\ WellDeclared(p \o ends) /\ (p \o ends)[Len(p \o ends)] = finalizer
      /\ (p \o ends)[Len(p \o ends) - 1] = m
  <2>1. \A k \in DOMAIN m.functions : m.functions[k] # "write"
    BY <1>1
  <2> HIDE DEF p
  <2>2. QED BY <1>1, <1>3, <2>1, FinalizerIs, EndsWith
<1>5. rcfSteps(c)[2].functions = <<"infer">> /\ 2 \in DOMAIN rcfSteps(c)
  BY <1>1, <1>2
<1>6. Holds(rcfSteps(c), "infer")
  BY <1>5, HoldsAt
<1>7. QED BY <1>3, <1>4, <1>6, FinalizerIs

(* What the proofs use of the steps of a configuration.                    *)
LEMMA StepsAreDeclared ==
  ASSUME NEW c \in Config
  PROVE  /\ DeclaredOK(c)
         /\ c.version # "1.7" =>
              \A f \in mandatory(c) \ unexamined(c) : Holds(steps(c), f)
<1>1. c.endorsement \in {"dd", "core", "add-edit", "entity-event", "rcf"}
  BY ConfigIs
<1>2. CASE c.endorsement = "dd"
  <2>1. steps(c) = ddSteps(c)
    BY <1>2 DEF steps
  <2>2. mandatory(c) = {"metadata", "ddMetadata", "variations"} \cup ToSet(strategies(c))
    BY <1>2 DEF mandatory
  <2>3. DeclaredOK(c)
    BY <1>2, <2>1, DdSteps DEF DeclaredOK
  <2>4. ASSUME c.version # "1.7", NEW f \in mandatory(c) \ unexamined(c)
        PROVE  Holds(steps(c), f)
    BY <1>2, <2>1, <2>2, <2>4, DdSteps DEF unexamined
  <2>5. QED BY <2>3, <2>4
<1>3. CASE c.endorsement = "core"
  <2>1. steps(c) = coreSteps(c)
    BY <1>3 DEF steps
  <2>2. mandatory(c) = {"metadata", "scenarios"}
    BY <1>3 DEF mandatory
  <2>3. DeclaredOK(c)
    BY <1>3, <2>1, CoreSteps DEF DeclaredOK
  <2>4. ASSUME c.version # "1.7", NEW f \in mandatory(c) \ unexamined(c)
        PROVE  Holds(steps(c), f)
    BY <1>3, <2>1, <2>2, <2>4, CoreSteps
  <2>5. QED BY <2>3, <2>4
<1>4. CASE c.endorsement = "add-edit"
  <2>1. steps(c) = addEditSteps(c)
    BY <1>4 DEF steps
  <2>2. mandatory(c) = {"metadata", "scenarios"}
    BY <1>4 DEF mandatory
  <2>3. DeclaredOK(c)
    BY <1>4, <2>1, AddEditSteps DEF DeclaredOK
  <2>4. ASSUME c.version # "1.7", NEW f \in mandatory(c) \ unexamined(c)
        PROVE  Holds(steps(c), f)
    BY <1>4, <2>1, <2>2, <2>4, AddEditSteps
  <2>5. QED BY <2>3, <2>4
<1>5. CASE c.endorsement = "entity-event"
  <2>1. steps(c) = entityEventSteps(c)
    BY <1>5 DEF steps
  <2>2. mandatory(c) = {"metadata", "payloads", "scenarios"}
    BY <1>5 DEF mandatory
  <2>3. DeclaredOK(c)
    BY <1>5, <2>1, EntityEventSteps DEF DeclaredOK
  <2>4. ASSUME c.version # "1.7", NEW f \in mandatory(c) \ unexamined(c)
        PROVE  Holds(steps(c), f)
    BY <1>5, <2>1, <2>2, <2>4, EntityEventSteps DEF unexamined
  <2>5. QED BY <2>3, <2>4
<1>6. CASE c.endorsement = "rcf"
  <2>1. steps(c) = rcfSteps(c)
    BY <1>6 DEF steps
  <2>2. mandatory(c) = {"infer"}
    BY <1>6 DEF mandatory
  <2>3. DeclaredOK(c)
    BY <1>6, <2>1, RcfSteps DEF DeclaredOK
  <2>4. ASSUME c.version # "1.7", NEW f \in mandatory(c) \ unexamined(c)
        PROVE  Holds(steps(c), f)
    BY <1>6, <2>1, <2>2, <2>4, RcfSteps
  <2>5. QED BY <2>3, <2>4
<1>7. QED BY <1>1, <1>2, <1>3, <1>4, <1>5, <1>6

(* The outcomes by name.                                                   *)
LEMMA NamedOutcomes ==
  /\ passed \in Outcome /\ passed.status = "passed" /\ passed.delivers /\ passed.clean
  /\ partly \in Outcome /\ partly.status = "passed" /\ partly.delivers
  /\ threw \in Outcome /\ threw.status = "threw" /\ ~threw.delivers
  /\ skipped \in Outcome /\ skipped.status = "skipped" /\ ~skipped.delivers
  /\ refused \in Outcome /\ refused.status = "failed" /\ ~refused.delivers
  /\ found \in Outcome /\ found.status = "failed" /\ found.delivers
BY DEF passed, partly, threw, skipped, refused, found, outcome, Outcome, Status

(* And those that are not named.                                           *)
LEMMA OtherOutcomes ==
  ASSUME NEW s \in {"passed", "incomplete"}, NEW b \in BOOLEAN
  PROVE  /\ outcome(s, TRUE, b) \in Outcome /\ outcome(s, TRUE, b).status = s
         /\ outcome(s, TRUE, b).delivers /\ outcome(s, TRUE, b).clean = b
BY DEF outcome, Outcome, Status

(* What a replication strategy may come back with.                         *)
LEMMA StrategyOutcomesAre ==
  ASSUME NEW c, NEW o \in strategyOutcomes(c)
  PROVE  /\ o \in Outcome /\ o.status \in {"passed", "failed", "threw"}
         /\ o.status = "passed" => o.clean \/ (c.version # "1.7" /\ "noStrict" \in c.flags)
BY NamedOutcomes, OtherOutcomes DEF strategyOutcomes

(* The strategies of a run.                                                *)
LEMMA StrategiesAre ==
  ASSUME NEW c
  PROVE  ToSet(strategies(c)) = IF c.version = "1.7" THEN {"timestampDesc"}
                                ELSE {"timestampDesc", "nextLink", "nextLinkFiltered"}
<1>1. CASE c.version = "1.7"
  BY <1>1 DEF strategies, ToSet
<1>2. CASE c.version # "1.7"
  <2>1. strategies(c) = <<"timestampDesc", "nextLink", "nextLinkFiltered">>
    BY <1>2 DEF strategies
  <2>2. DOMAIN strategies(c) = {1, 2, 3}
    BY <2>1
  <2>3. QED BY <1>2, <2>1, <2>2 DEF ToSet
<1>3. QED BY <1>1, <1>2

(* The statuses a function may come back with: only the metadata checks    *)
(* may be skipped, and only Core's scenarios cut short.                    *)
LEMMA OutcomesAre ==
  ASSUME NEW c \in Config, NEW f \in Functions \ {"parallel", "write"}, NEW d,
         NEW o \in outcomes(c, f, d)
  PROVE  /\ o \in Outcome
         /\ f \in Replicating => o.status \in {"passed", "failed", "threw"}
         /\ o.status = "incomplete" => c.endorsement = "core" /\ f = "scenarios" /\ o.delivers
         /\ f = "scenarios" => \/ o.delivers /\ o.status \in {"passed", "failed", "incomplete"}
                               \/ ~o.delivers /\ o.status \in {"failed", "threw"}
         /\ o.status = "passed" =>
              \/ o.clean \/ f = "scenarios"
              \/ f \in ToSet(strategies(c)) /\ "noStrict" \in c.flags
              \/ f = "infer" /\ c.flags \cap {"noSchemaValidation", "skipVariations"} # {}
<1>1. c.endorsement \in {"dd", "core", "add-edit", "entity-event", "rcf"}
  BY ConfigIs
<1> USE NamedOutcomes, OtherOutcomes DEF Replicating
<1>2. CASE f \in {"auth", "service", "initReplication", "records"}
  BY <1>2 DEF outcomes, resolveAuth, serviceCheck, initReplicationState, sampleRecords
<1>3. CASE f \in {"metadata", "payloads"}
  BY <1>3 DEF outcomes, generateMetadata, fetchAndParseMetadata, generatePayloads,
              generateCanaryPayload
<1>4. CASE f \in {"ddMetadata", "variations"}
  BY <1>4 DEF outcomes, validateDdMetadata, runVariations
<1>5. CASE f = "scenarios"
  BY <1>1, <1>5 DEF outcomes, scenarioOutcomes, sampleAndTest, runTests, runEventTests
<1>6. CASE f \in {"input", "infer"}
  BY <1>6 DEF outcomes, readInput, inferReports
<1>7. CASE f \in {"timestampDesc", "nextLink", "nextLinkFiltered"}
  <2>1. o \in strategyOutcomes(c)
    BY <1>7 DEF outcomes
  <2>2. QED BY <1>7, <2>1, StrategyOutcomesAre, StrategiesAre
<1>8. QED BY <1>2, <1>3, <1>4, <1>5, <1>6, <1>7 DEF Functions

-----------------------------------------------------------------------------
(* Lemmas about how a step ends. *)

(* The declared steps of the run's configuration, index by index.          *)
LEMMA Declared ==
  ASSUME config \in Config
  PROVE  /\ n \in Nat /\ n >= 3 /\ DOMAIN declared = 1..n
         /\ \A i \in 1..n :
              /\ declared[i].functions \in Seq(Functions) /\ Len(declared[i].functions) >= 1
              /\ \/ Len(declared[i].functions) = 1
                 \/ \A k \in DOMAIN declared[i].functions : declared[i].functions[k] \in Replicating
              /\ declared[i].alwaysRun \in BOOLEAN
         /\ declared[n].functions = <<"write">>
         /\ declared[n].alwaysRun <=> config.endorsement \in {"dd", "rcf"}
         /\ \A i \in 1..n - 1 :
              /\ ~declared[i].alwaysRun
              /\ \A k \in DOMAIN declared[i].functions : declared[i].functions[k] # "write"
         /\ \A i \in 1..n - 2 :
              \A k \in DOMAIN declared[i].functions : declared[i].functions[k] # "scenarios"
         /\ config.endorsement \in {"core", "add-edit", "entity-event"}
              => declared[n - 1].functions = <<"scenarios">>
<1>1. WellDeclared(declared) /\ n = Len(declared)
  BY StepsAreDeclared DEF DeclaredOK, declared, n
<1>2. /\ declared[n].alwaysRun <=> config.endorsement \in {"dd", "rcf"}
      /\ config.endorsement \in {"core", "add-edit", "entity-event"}
           => declared[n - 1].functions = <<"scenarios">>
  BY StepsAreDeclared DEF DeclaredOK, declared, n
<1>3. ASSUME NEW i \in 1..n
      PROVE  /\ declared[i].functions \in Seq(Functions) /\ Len(declared[i].functions) >= 1
             /\ \/ Len(declared[i].functions) = 1
                \/ \A k \in DOMAIN declared[i].functions : declared[i].functions[k] \in Replicating
             /\ declared[i].alwaysRun \in BOOLEAN
  <2>1. declared[i] \in Step
    BY <1>1, <1>3 DEF WellDeclared
  <2>2. QED BY <2>1 DEF Step
<1>4. QED BY <1>1, <1>2, <1>3 DEF WellDeclared

(* The next step is the one after, or, after a break, the writer if it     *)
(* always runs and has not run.                                            *)
LEMMA GoesOn ==
  ASSUME config \in Config, NEW i \in 1..n, NEW broken \in BOOLEAN, GoOnFrom(i, broken)
  PROVE  /\ at' = IF ~broken THEN i + 1 ELSE IF i < n /\ declared[n].alwaysRun THEN n ELSE n + 1
         /\ fn' = 1 /\ phase' = IF broken THEN "finalizers" ELSE phase
<1> DEFINE left == {j \in i + 1 .. n : broken => declared[j].alwaysRun}
           next == IF ~broken THEN i + 1 ELSE IF i < n /\ declared[n].alwaysRun THEN n ELSE n + 1
           P(j) == j \in left \cup {n + 1} /\ \A k \in left : j <= k
<1>1. at' = CHOOSE j \in left \cup {n + 1} : \A k \in left : j <= k
  BY DEF GoOnFrom
<1>2. P(next)
  BY Declared
<1>3. P(at')
  <2> HIDE DEF left, next
  <2>1. QED BY <1>1, <1>2
<1>4. ASSUME NEW x, P(x) PROVE x = next
  <2>1. CASE ~broken
    BY <1>4, <2>1, Declared
  <2>2. CASE broken
    BY <1>4, <2>2, Declared
  <2>3. QED BY <2>1, <2>2
<1>5. at' = next
  <2> HIDE DEF P, next
  <2>1. QED BY <1>3, <1>4
<1>6. QED BY <1>5 DEF GoOnFrom

(* A step comes to an end with a status, by coming back or by throwing.    *)
broken(status) == IF phase = "steps" THEN breaks(status) ELSE TRUE

Ends(status) ==
  /\ Recorded(status)
  /\ at' = IF ~broken(status) THEN at + 1
           ELSE IF at < n /\ declared[n].alwaysRun THEN n ELSE n + 1
  /\ fn' = 1
  /\ phase' = IF broken(status) THEN "finalizers" ELSE "steps"
  /\ IF phase = "steps"
     THEN /\ pipelineSteps' = seededSteps(results', broken(status))
          /\ pipelineStatus' = worseOf(pipelineStatus, status)
     ELSE /\ pipelineSteps' \in {pipelineSteps, seededSteps(results', TRUE)}
          /\ pipelineStatus' = pipelineStatus

(* What every action leaves of the control.                                *)
ControlOK ==
  /\ config \in Config
  /\ phase \in {"steps", "finalizers", "finished"}
  /\ at \in 1..n + 1
  /\ fn \in Nat \ {0} /\ (at <= n => fn <= Len(current.functions))
  /\ results \in [1..n -> Status \cup {"pending"}]
  /\ pipelineSteps \in [1..n -> Status \cup {"absent"}]
  /\ pipelineStatus \in {"passed", "failed", "incomplete"}

Advances ==
  /\ fn < Len(current.functions) /\ fn' = fn + 1
  /\ UNCHANGED <<phase, at, results, pipelineSteps, pipelineStatus>>

(* A step that comes back ends.                                            *)
LEMMA ReturnsEnd ==
  ASSUME ControlOK, underWay, NEW status \in Status, StepReturns(status)
  PROVE  Ends(status)
<1>1. at \in 1..n /\ phase \in {"steps", "finalizers"}
  BY Declared DEF ControlOK, underWay
<1>2. breaks(status) \in BOOLEAN
  BY ConfigIs DEF breaks, ControlOK
<1>3. CASE phase = "steps"
  <2>1. GoOnFrom(at, breaks(status))
    BY <1>3 DEF StepReturns
  <2>2. QED BY <1>1, <1>2, <1>3, <2>1, GoesOn DEF StepReturns, Ends, broken, ControlOK
<1>4. CASE phase # "steps"
  <2>1. GoOnFrom(at, TRUE)
    BY <1>4 DEF StepReturns
  <2>2. QED BY <1>1, <1>4, <2>1, GoesOn DEF StepReturns, Ends, broken, ControlOK
<1>5. QED BY <1>3, <1>4

(* A step that throws ends as failed.                                      *)
LEMMA ThrowsEnd ==
  ASSUME ControlOK, underWay, StepThrows
  PROVE  Ends("failed")
<1>1. at \in 1..n /\ phase \in {"steps", "finalizers"}
  BY Declared DEF ControlOK, underWay
<1>2. config.failFast \in BOOLEAN /\ (breaks("failed") <=> config.failFast)
  BY ConfigIs DEF breaks, ControlOK
<1>3. CASE phase = "steps"
  <2>1. GoOnFrom(at, config.failFast)
    BY <1>3 DEF StepThrows
  <2>2. breaks("failed") = config.failFast
    BY <1>2 DEF breaks
  <2>3. QED BY <1>1, <1>2, <1>3, <2>1, <2>2, GoesOn DEF StepThrows, Ends, broken, ControlOK, worseOf
<1>4. CASE phase # "steps"
  <2>1. GoOnFrom(at, TRUE)
    BY <1>4 DEF StepThrows
  <2>2. QED BY <1>1, <1>4, <2>1, GoesOn DEF StepThrows, Ends, broken, ControlOK
<1>5. QED BY <1>3, <1>4

(* A function that comes back ends its step, or the next one starts.       *)
LEMMA FunctionEnds ==
  ASSUME ControlOK, underWay, NEW status \in Status, FunctionReturns(status)
  PROVE  \/ Ends(status) /\ (status = "failed" \/ fn = Len(current.functions))
         \/ Advances /\ status # "failed"
<1>1. at \in 1..n /\ Len(current.functions) \in Nat
  BY Declared DEF ControlOK, underWay, current
<1>2. CASE status = "failed" \/ fn = Len(current.functions)
  BY <1>2, ReturnsEnd DEF FunctionReturns
<1>3. CASE ~(status = "failed" \/ fn = Len(current.functions))
  BY <1>1, <1>3 DEF FunctionReturns, Advances, ControlOK
<1>4. QED BY <1>2, <1>3

(* What the loop's part of the invariant is made of. *)
LoopOK == ControlOK /\ LoopInv /\ ListInv /\ StatusInv

(* The run's steps stay those of its configuration.                        *)
LEMMA SameDeclared ==
  ASSUME config' = config
  PROVE  declared' = declared /\ n' = n
BY DEF declared, n

(* A step that ends leaves the loop as it should be.                       *)
LEMMA EndsKeepsControl ==
  ASSUME ControlOK, underWay, NEW status \in Status, Ends(status), config' = config
  PROVE  ControlOK' /\ at < at' /\ results'[at] = status
         /\ \A i \in 1..n : i # at => results'[i] = results[i]
<1>1. /\ n \in Nat /\ n >= 3 /\ at \in 1..n /\ phase \in {"steps", "finalizers"}
      /\ declared' = declared /\ n' = n
  BY Declared, SameDeclared DEF ControlOK, underWay
<1>2. broken(status) \in BOOLEAN
  BY ConfigIs DEF broken, breaks, ControlOK
<1>3. /\ results' = [results EXCEPT ![at] = status]
      /\ results' \in [1..n -> Status \cup {"pending"}]
      /\ results'[at] = status /\ \A i \in 1..n : i # at => results'[i] = results[i]
  BY <1>1 DEF Ends, Recorded, ControlOK
<1>4. /\ at' \in 1..n + 1 /\ at < at' /\ fn' = 1
      /\ phase' \in {"steps", "finalizers"}
  BY <1>1, <1>2 DEF Ends
<1>5. \A b \in BOOLEAN : seededSteps(results', b) \in [1..n -> Status \cup {"absent"}]
  BY <1>3 DEF seededSteps, Status
<1>6. /\ pipelineSteps' \in [1..n -> Status \cup {"absent"}]
      /\ pipelineStatus' \in {"passed", "failed", "incomplete"}
  BY <1>1, <1>2, <1>5 DEF Ends, ControlOK, worseOf
<1>7. at' <= n' => fn' <= Len(current'.functions)
  <2>1. current' = declared[at']
    BY <1>1 DEF current
  <2>2. QED BY <1>1, <1>4, <2>1, Declared DEF ControlOK
<1>8. QED BY <1>1, <1>3, <1>4, <1>6, <1>7 DEF ControlOK

(* And as the loop's invariant has it.                                     *)
LEMMA EndsKeepsLoop ==
  ASSUME LoopOK, underWay, NEW status \in Status, Ends(status), config' = config
  PROVE  LoopOK'
<1>1. /\ n \in Nat /\ n >= 3 /\ at \in 1..n /\ phase \in {"steps", "finalizers"}
      /\ declared' = declared /\ n' = n /\ (declared[n].alwaysRun \in BOOLEAN)
  BY Declared, SameDeclared DEF LoopOK, ControlOK, underWay
<1>2. /\ ControlOK' /\ at < at' /\ results'[at] = status
      /\ \A i \in 1..n : i # at => results'[i] = results[i]
  BY EndsKeepsControl DEF LoopOK
<1>3. broken(status) \in BOOLEAN
  BY ConfigIs DEF broken, breaks, LoopOK, ControlOK
<1>4. /\ \A i \in at..n : results[i] = "pending"
      /\ phase = "steps" => \A i \in 1..at - 1 : results[i] # "pending"
      /\ phase = "finalizers" => at = n /\ config.failFast /\ declared[n].alwaysRun
                                 /\ \E i \in 1..n : results[i] = "failed"
  BY <1>1 DEF LoopOK, LoopInv, open
<1>5. /\ at' = IF ~broken(status) THEN at + 1
               ELSE IF at < n /\ declared[n].alwaysRun THEN n ELSE n + 1
      /\ phase' = IF broken(status) THEN "finalizers" ELSE "steps"
  BY DEF Ends
<1>6. phase = "steps" /\ broken(status) => status = "failed" /\ config.failFast
  BY DEF broken, breaks
<1>7. ~broken(status) => phase = "steps"
  BY <1>1 DEF broken
<1>8. status # "pending"
  BY DEF Status
<1>9. LoopInv'
  <2>1. \A i \in at'..n : results'[i] = "pending"
    BY <1>1, <1>2, <1>4, <1>5
  <2>2. phase' = "steps" => \A i \in 1..at' - 1 : results'[i] # "pending"
    BY <1>1, <1>2, <1>4, <1>5, <1>7, <1>8
  <2>3. phase' = "finalizers" => config.failFast /\ \E i \in 1..n : results'[i] = "failed"
    BY <1>1, <1>2, <1>4, <1>5, <1>6
  <2>4. phase' = "finalizers" => at' >= n /\ (at' = n => declared[n].alwaysRun)
    BY <1>1, <1>4, <1>5
  <2>5. phase' = "steps" /\ config.failFast => \A i \in 1..n : results'[i] # "failed"
    <3>1. SUFFICES ASSUME phase' = "steps", config.failFast PROVE \A i \in 1..n : results'[i] # "failed"
      OBVIOUS
    <3>2. phase = "steps" /\ ~broken(status)
      BY <1>5, <1>7, <3>1
    <3>3. status # "failed"
      BY <3>1, <3>2 DEF broken, breaks
    <3>4. \A i \in 1..n : results[i] # "failed"
      BY <3>1, <3>2 DEF LoopOK, LoopInv
    <3>5. QED BY <1>2, <3>3, <3>4
  <2>6. QED BY <1>1, <1>5, <2>1, <2>2, <2>3, <2>4, <2>5 DEF LoopInv, open
<1>10. ListInv'
  <2>1. ASSUME NEW i \in 1..n - 1
        PROVE  pipelineSteps'[i] = IF phase' = "steps" /\ results'[i] = "pending"
                                   THEN "absent" ELSE final(i)'
    <3>1. ~declared[i].alwaysRun
      BY <2>1, Declared DEF LoopOK, ControlOK
    <3>2. CASE phase = "steps"
      BY <1>1, <1>3, <1>5, <2>1, <3>1, <3>2 DEF Ends, seededSteps, final
    <3>3. CASE phase = "finalizers"
      <4>1. at = n /\ phase' = "finalizers"
        BY <1>4, <1>5, <1>7, <3>3
      <4>2. pipelineSteps[i] = final(i)
        BY <1>1, <2>1, <3>3 DEF LoopOK, ListInv, open
      <4>3. final(i)' = final(i)
        BY <1>1, <1>2, <2>1, <4>1 DEF final
      <4>4. seededSteps(results', TRUE)[i] = final(i)'
        BY <1>1, <2>1, <3>1 DEF seededSteps, final
      <4>5. QED BY <3>3, <4>1, <4>2, <4>3, <4>4 DEF Ends
    <3>4. QED BY <1>1, <3>2, <3>3
  <2>2. at' <= n => pipelineSteps'[n] = "absent"
    <3>1. SUFFICES ASSUME at' <= n PROVE pipelineSteps'[n] = "absent"
      OBVIOUS
    <3>2. phase = "steps" /\ results'[n] = "pending"
      BY <1>1, <1>2, <1>4, <1>5, <1>7, <3>1 DEF broken
    <3>3. broken(status) => declared[n].alwaysRun
      BY <1>1, <1>5, <3>1
    <3>4. QED BY <1>1, <3>2, <3>3 DEF Ends, seededSteps
  <2>3. QED BY <1>1, <2>1, <2>2 DEF ListInv
<1>11. StatusInv'
  <2>1. \A i \in 1..n : results[i] = "failed" => results'[i] = "failed"
    BY <1>1, <1>2, <1>4
  <2>2. CASE phase = "finalizers"
    BY <1>1, <1>4, <2>1, <2>2 DEF Ends, StatusInv, LoopOK
  <2>3. CASE phase = "steps"
    <3>1. pipelineStatus' = worseOf(pipelineStatus, status)
      BY <2>3 DEF Ends
    <3>2. /\ (\E i \in 1..n : results'[i] = "failed")
               <=> status = "failed" \/ \E i \in 1..n : results[i] = "failed"
          /\ (\E i \in 1..n : results'[i] = "incomplete")
               <=> status = "incomplete" \/ \E i \in 1..n : results[i] = "incomplete"
      BY <1>1, <1>2, <1>4
    <3>3. QED BY <1>1, <3>1, <3>2 DEF StatusInv, LoopOK, worseOf
  <2>4. QED BY <1>1, <2>2, <2>3
<1>12. QED BY <1>2, <1>9, <1>10, <1>11 DEF LoopOK

(* A function that is done and not the last changes nothing else.          *)
LEMMA AdvanceKeepsLoop ==
  ASSUME LoopOK, underWay, Advances, config' = config
  PROVE  LoopOK'
<1>1. declared' = declared /\ n' = n /\ current' = current
  BY SameDeclared DEF Advances, current
<1>2. n \in Nat /\ Len(current.functions) \in Nat
  BY Declared DEF LoopOK, ControlOK, underWay, current
<1>3. ControlOK'
  BY <1>1, <1>2 DEF LoopOK, ControlOK, Advances
<1>4. LoopInv'
  BY <1>1 DEF LoopOK, LoopInv, open, Advances
<1>5. ListInv' /\ StatusInv'
  BY <1>1 DEF LoopOK, ListInv, StatusInv, open, final, Advances
<1>6. QED BY <1>3, <1>4, <1>5 DEF LoopOK

(* An action that leaves the loop where it is.                             *)
LEMMA SameLoop ==
  ASSUME LoopOK,
         UNCHANGED <<config, phase, at, fn, results, pipelineSteps, pipelineStatus>>
  PROVE  LoopOK'
<1>1. declared' = declared /\ n' = n
  BY SameDeclared
<1>2. ControlOK'
  BY <1>1 DEF LoopOK, ControlOK, current
<1>3. LoopInv' /\ ListInv' /\ StatusInv'
  BY <1>1 DEF LoopOK, LoopInv, ListInv, StatusInv, open, final
<1>4. QED BY <1>2, <1>3 DEF LoopOK

-----------------------------------------------------------------------------
(* Lemmas about the function under way and the rest of the state. *)

(* Where the writer and the scenarios are.                                 *)
LEMMA FunctionIs ==
  ASSUME ControlOK, underWay
  PROVE  /\ at \in 1..n /\ fn \in DOMAIN current.functions /\ function \in Functions
         /\ function = current.functions[fn] /\ current = declared[at]
         /\ Len(current.functions) \in Nat /\ DOMAIN current.functions = 1..Len(current.functions)
         /\ function = "write" <=> at = n
         /\ at = n => Len(current.functions) = 1
         /\ function = "scenarios" => at = n - 1
         /\ config.endorsement \in {"core", "add-edit", "entity-event"} /\ at = n - 1
              => function = "scenarios" /\ Len(current.functions) = 1
         /\ Len(current.functions) = 1 \/ function \in Replicating
<1>1. at \in 1..n /\ current = declared[at] /\ function = current.functions[fn] /\ config \in Config
  BY Declared DEF ControlOK, underWay, current, function
<1>2. /\ current.functions \in Seq(Functions) /\ fn \in 1..Len(current.functions)
      /\ \/ Len(current.functions) = 1
         \/ \A k \in DOMAIN current.functions : current.functions[k] \in Replicating
  BY <1>1, Declared DEF ControlOK
<1>3. /\ at = n => current.functions = <<"write">>
      /\ at \in 1..n - 1 => function # "write"
      /\ at \in 1..n - 2 => function # "scenarios"
      /\ config.endorsement \in {"core", "add-edit", "entity-event"} /\ at = n - 1
           => current.functions = <<"scenarios">>
  BY <1>1, <1>2, Declared
<1>4. <<"write">>[1] = "write" /\ Len(<<"write">>) = 1 /\ <<"scenarios">>[1] = "scenarios" /\ Len(<<"scenarios">>) = 1
  OBVIOUS
<1> DEFINE F == current.functions
<1>5. function = F[fn] /\ fn \in 1..Len(F) /\ (at = n => F = <<"write">>)
      /\ (config.endorsement \in {"core", "add-edit", "entity-event"} /\ at = n - 1 => F = <<"scenarios">>)
  BY <1>1, <1>2, <1>3
<1> HIDE DEF F
<1>6. at = n => function = "write" /\ Len(current.functions) = 1
  <2>1. SUFFICES ASSUME at = n PROVE function = "write" /\ Len(F) = 1
    BY DEF F
  <2>2. F = <<"write">>
    BY <1>5, <2>1
  <2>3. Len(F) = 1 /\ F[1] = "write"
    BY <1>4, <2>2
  <2>4. QED BY <1>5, <2>3
<1>7. config.endorsement \in {"core", "add-edit", "entity-event"} /\ at = n - 1
        => function = "scenarios" /\ Len(current.functions) = 1
  <2>1. SUFFICES ASSUME config.endorsement \in {"core", "add-edit", "entity-event"}, at = n - 1
                 PROVE  function = "scenarios" /\ Len(F) = 1
    BY DEF F
  <2>2. F = <<"scenarios">>
    BY <1>5, <2>1
  <2>3. Len(F) = 1 /\ F[1] = "scenarios"
    BY <1>4, <2>2
  <2>4. QED BY <1>5, <2>3
<1>8. n \in Nat
  BY <1>1, Declared
<1>9. QED BY <1>1, <1>2, <1>3, <1>6, <1>7, <1>8

(* What a step came to before the scenarios stays what they came to.       *)
LEMMA TestedStays ==
  ASSUME LoopOK, TestedInv, underWay, config' = config, tested' = tested,
         config.endorsement \in {"core", "add-edit"} => at # n - 1,
         NEW status \in Status \ {"incomplete"}, Ends(status) \/ Advances
  PROVE  TestedInv'
<1>1. n' = n /\ n \in Nat /\ n >= 3 /\ at \in 1..n
  BY SameDeclared, Declared, FunctionIs DEF LoopOK, ControlOK
<1>2. \A i \in 1..n : results'[i] = results[i] \/ (i = at /\ results'[i] = status)
  BY EndsKeepsControl DEF LoopOK, Advances
<1>3. open
  BY DEF underWay, open
<1>4. QED BY <1>1, <1>2, <1>3 DEF TestedInv

(* A function that did its work is still one that did.                     *)
LEMMA DoneStays ==
  ASSUME NEW S, NEW T, S \subseteq T, NEW f, DoneIn(S, f)
  PROVE  DoneIn(T, f)
BY DEF DoneIn

(* A step passes with all its functions done.                              *)
LEMMA CleanMoves ==
  ASSUME LoopOK, CleanInv, underWay, config' = config, clean \subseteq clean',
         NEW status \in Status,
         \/ Ends(status) /\ (status = "passed" => fn = Len(current.functions) /\ DoneIn(clean', function))
         \/ Advances /\ DoneIn(clean', function)
  PROVE  CleanInv'
<1>1. declared' = declared /\ n' = n /\ n \in Nat /\ n >= 3
  BY SameDeclared, Declared DEF LoopOK, ControlOK
<1>2. /\ at \in 1..n /\ fn \in 1..Len(current.functions) /\ current = declared[at]
      /\ function = current.functions[fn]
      /\ DOMAIN current.functions = 1..Len(current.functions) /\ Len(current.functions) \in Nat
  BY FunctionIs DEF LoopOK
<1>3. \A k \in 1..fn - 1 : DoneIn(clean', current.functions[k])
  BY DoneStays DEF CleanInv
<1>4. \A f : DoneIn(clean, f) => DoneIn(clean', f)
  BY DoneStays
<1>5. \A f : DoneIn(clean, f)' <=> DoneIn(clean', f)
  BY DEF DoneIn
<1>6. \A i \in 1..n : results[i] = "passed" =>
        \A k \in DOMAIN declared[i].functions : DoneIn(clean', declared[i].functions[k])
  BY <1>4 DEF CleanInv
<1>7. CASE Ends(status) /\ (status = "passed" => fn = Len(current.functions) /\ DoneIn(clean', function))
  <2>1. fn' = 1 /\ \A i \in 1..n : results'[i] = results[i] \/ (i = at /\ results'[i] = status)
    BY <1>7, EndsKeepsControl DEF Ends, LoopOK
  <2>2. status = "passed" => \A k \in DOMAIN current.functions : DoneIn(clean', current.functions[k])
    BY <1>2, <1>3, <1>7
  <2>3. ASSUME NEW i \in 1..n, results'[i] = "passed", NEW k \in DOMAIN declared[i].functions
        PROVE  DoneIn(clean', declared[i].functions[k])
    BY <1>2, <1>6, <2>1, <2>2, <2>3
  <2>4. QED BY <1>1, <1>5, <2>1, <2>3 DEF CleanInv
<1>8. CASE Advances /\ DoneIn(clean', function)
  <2>1. fn' = fn + 1 /\ results' = results /\ current' = current
    BY <1>1, <1>8 DEF Advances, current
  <2>2. \A k \in 1..fn : DoneIn(clean', current.functions[k])
    BY <1>2, <1>3, <1>8
  <2>3. QED BY <1>1, <1>2, <1>5, <1>6, <2>1, <2>2 DEF CleanInv
<1>9. QED BY <1>7, <1>8

(* The rest of the type invariant. *)
RestOK ==
  /\ running \subseteq ToSet(strategies(config))
  /\ tested \in {"none", "passed", "failed", "incomplete"}
  /\ report.valid \in BOOLEAN /\ certification \in BOOLEAN

(* The rules answer yes or no.                                             *)
LEMMA RuleAnswers ==
  ASSUME NEW c \in Config, NEW list
  PROVE  validForCertification(c, list) \in BOOLEAN
<1>1. c.endorsement \in {"dd", "core", "add-edit", "entity-event", "rcf"}
  BY ConfigIs
<1>2. QED BY <1>1 DEF validForCertification, ddValidForCertification, coreValidForCertification,
    addEditValidForCertification, entityEventValidForCertification, rcfValidForCertification

(* The headline of the report is the status of the run, when a writer that *)
(* comes back writes it.                                                   *)
LEMMA VerdictAgrees ==
  ASSUME LoopOK, RestOK, TestedInv, underWay, at = n, config.endorsement # "entity-event"
  PROVE  reportVerdict(config, pipelineSteps, tested) = pipelineStatus
<1>1. n \in Nat /\ n >= 3 /\ open /\ phase \in {"steps", "finalizers"}
  BY Declared DEF LoopOK, ControlOK, underWay, open
<1>2. config.endorsement \in {"dd", "core", "add-edit", "rcf"}
  BY ConfigIs DEF LoopOK, ControlOK
<1>3. results[n] = "pending" /\ DOMAIN pipelineSteps = 1..n /\ pipelineSteps[n] = "absent"
  BY <1>1 DEF LoopOK, ControlOK, LoopInv, ListInv
<1>4. \A i \in 1..n - 1 : pipelineSteps[i] = final(i)
  BY <1>1 DEF LoopOK, LoopInv, ListInv
<1>5. ASSUME NEW status \in {"failed", "incomplete"}
      PROVE  someIn(pipelineSteps, status) <=> \E i \in 1..n : results[i] = status
  BY <1>1, <1>3, <1>4 DEF someIn, final
<1>6. pipelineStatus = IF someIn(pipelineSteps, "failed") THEN "failed"
                       ELSE IF someIn(pipelineSteps, "incomplete") THEN "incomplete"
                       ELSE "passed"
  BY <1>5 DEF LoopOK, StatusInv
<1>7. CASE config.endorsement = "dd"
  BY <1>6, <1>7 DEF reportVerdict, deriveStatus
<1>8. CASE config.endorsement \in {"add-edit", "rcf", "core"}
  <2>1. config.endorsement # "core" => ~someIn(pipelineSteps, "incomplete")
    BY <1>5 DEF TestedInv
  <2>2. CASE config.endorsement = "rcf"
    BY <1>6, <2>1, <2>2 DEF reportVerdict, rcfReportVerdict
  <2>3. CASE config.endorsement \in {"add-edit", "core"}
    <3>1. phase = "steps"
      BY <1>1, <2>3, Declared DEF LoopOK, ControlOK, LoopInv
    <3>2. results[n - 1] # "pending"
      BY <1>1, <3>1 DEF LoopOK, LoopInv
    <3>3. \/ tested = "none" /\ results[n - 1] = "failed"
          \/ tested = results[n - 1]
      BY <1>1, <2>3, <3>2 DEF TestedInv
    <3>4. tested = "none" \/ tested = "failed" => someIn(pipelineSteps, "failed")
      <4>1. results[n - 1] # "none"
        BY <1>1 DEF LoopOK, ControlOK, Status
      <4>2. QED BY <1>1, <1>5, <3>3, <4>1
    <3>5. someIn(pipelineSteps, "incomplete") => tested = "incomplete"
      BY <1>5 DEF TestedInv
    <3>6. tested = "incomplete" => someIn(pipelineSteps, "incomplete")
      BY <1>1, <1>5, <3>3
    <3>7. CASE config.endorsement = "add-edit"
      BY <1>6, <2>1, <3>4, <3>7 DEF reportVerdict, addEditReportVerdict
    <3>8. CASE config.endorsement = "core"
      BY <1>6, <3>4, <3>5, <3>6, <3>8 DEF reportVerdict, coreReportVerdict, RestOK
    <3>9. QED BY <2>3, <3>7, <3>8
  <2>4. QED BY <1>8, <2>2, <2>3
<1>9. QED BY <1>2, <1>7, <1>8

-----------------------------------------------------------------------------
(* Every action keeps the invariant. *)

(* The invariant, in the parts that the lemmas take it in.                 *)
LEMMA Parts == IInv <=> LoopOK /\ RestOK /\ TestedInv /\ ReportInv /\ CleanInv /\ CertifiedInv /\ BehindInv
BY DEF IInv, TypeOK, LoopOK, ControlOK, RestOK

(* The same of the next state.                                             *)
LEMMA PartsNext ==
  IInv' <=> /\ LoopOK' /\ RestOK' /\ TestedInv' /\ ReportInv' /\ CleanInv' /\ CertifiedInv'
            /\ BehindInv'
BY Parts, PTL DEF IInv, TypeOK, LoopOK, ControlOK, RestOK

(* It holds when the run starts.                                           *)
LEMMA InitKeeps == Init => IInv
<1>1. SUFFICES ASSUME Init PROVE IInv
  OBVIOUS
<1>2. config \in Config /\ phase = "steps" /\ at = 1 /\ fn = 1 /\ open
  BY <1>1 DEF Init, open
<1>3. n \in Nat /\ n >= 3 /\ Len(current.functions) \in Nat /\ Len(current.functions) >= 1
  BY <1>2, Declared DEF current
<1>4. ControlOK
  BY <1>1, <1>2, <1>3 DEF Init, ControlOK
<1>5. LoopInv /\ ListInv /\ StatusInv
  BY <1>1, <1>2, <1>3 DEF Init, LoopInv, ListInv, StatusInv
<1>6. RestOK /\ TestedInv /\ ReportInv
  <2>1. NoReport.valid = FALSE
    BY DEF NoReport
  <2>2. report = NoReport /\ results = [i \in 1..n |-> "pending"] /\ tested = "none"
        /\ running = {} /\ certification = FALSE
    BY <1>1 DEF Init
  <2>3. RestOK
    BY <2>1, <2>2 DEF RestOK
  <2>4. TestedInv
    BY <1>3, <2>2 DEF TestedInv
  <2>5. ReportInv
    BY <1>3, <2>2 DEF ReportInv
  <2>6. QED BY <2>3, <2>4, <2>5
<1>7. CleanInv /\ CertifiedInv /\ BehindInv
  BY <1>1, <1>2, <1>3 DEF Init, CleanInv, CertifiedInv, BehindInv
<1>8. QED BY <1>4, <1>5, <1>6, <1>7, Parts DEF LoopOK

(* Before its writer a run has no report, and certifies nothing.           *)
LEMMA NoReportYet ==
  ASSUME LoopOK, ReportInv, CertifiedInv, underWay, function # "write", config' = config,
         report' = report, certification' = certification,
         NEW status \in Status, Ends(status) \/ Advances
  PROVE  ReportInv' /\ CertifiedInv'
<1>1. /\ n' = n /\ n \in Nat /\ n >= 3 /\ at \in 1..n /\ at # n /\ open
      /\ results[n] = "pending"
  BY SameDeclared, Declared, FunctionIs DEF LoopOK, ControlOK, LoopInv, underWay, open
<1>2. results'[n] = "pending"
  BY <1>1, EndsKeepsControl DEF LoopOK, Advances
<1>3. report = NoReport /\ ~certification
  BY <1>1 DEF ReportInv, CertifiedInv
<1>4. open'
  BY <1>1 DEF Ends, Advances, open
<1>5. QED BY <1>1, <1>2, <1>3, <1>4 DEF ReportInv, CertifiedInv

(* A failure before the writer is not forgotten.                           *)
LEMMA FailureStays ==
  ASSUME LoopOK, underWay, config' = config, NEW status \in Status, Ends(status) \/ Advances,
         \/ \E i \in 1..n - 1 : results[i] = "failed"
         \/ Ends(status) /\ status = "failed" /\ at # n
  PROVE  (\E i \in 1..n - 1 : results[i] = "failed")'
<1>1. n' = n /\ n \in Nat /\ n >= 3 /\ at \in 1..n /\ results[at] = "pending"
  BY SameDeclared, Declared, FunctionIs DEF LoopOK, ControlOK, LoopInv, underWay, open
<1>2. CASE Ends(status)
  BY <1>1, <1>2, EndsKeepsControl DEF LoopOK
<1>3. CASE Advances
  <2>1. ~Ends(status) \/ Ends(status)
    OBVIOUS
  <2>2. Advances => results' = results
    BY DEF Advances
  <2>3. CASE Ends(status)
    BY <1>2, <2>3
  <2>4. CASE ~Ends(status)
    BY <1>1, <1>3, <2>2, <2>4
  <2>5. QED BY <2>3, <2>4
<1>4. QED BY <1>2, <1>3

(* A test function that comes back, or throws.                             *)
LEMMA RunFunctionKeeps == ASSUME IInv, RunFunction PROVE IInv'
<1>1. LoopOK /\ RestOK /\ TestedInv /\ ReportInv /\ CleanInv /\ CertifiedInv /\ BehindInv
  BY Parts
<1>2. underWay /\ function \notin {"parallel", "write"} /\ config \in Config /\ config' = config
  BY <1>1 DEF RunFunction, LoopOK, ControlOK
<1>3. /\ at \in 1..n /\ function \in Functions \ {"parallel", "write"} /\ at # n
      /\ function = "scenarios" => at = n - 1
      /\ config.endorsement \in {"core", "add-edit"} /\ at = n - 1
              => function = "scenarios" /\ Len(current.functions) = 1
      /\ Len(current.functions) = 1 \/ function \in Replicating
      /\ fn \in 1..Len(current.functions) /\ Len(current.functions) \in Nat
  BY <1>1, <1>2, FunctionIs DEF LoopOK
<1>4. PICK o \in outcomes(config, function, delivered) :
        /\ IF o.status = "threw" THEN StepThrows ELSE FunctionReturns(o.status)
        /\ Remember(function, o)
  BY DEF RunFunction
<1>5. /\ o \in Outcome
      /\ function \in Replicating => o.status \in {"passed", "failed", "threw"}
      /\ o.status = "incomplete" =>
           config.endorsement = "core" /\ function = "scenarios" /\ o.delivers
      /\ function = "scenarios" => \/ o.delivers /\ o.status \in {"passed", "failed", "incomplete"}
                                   \/ ~o.delivers /\ o.status \in {"failed", "threw"}
      /\ o.status = "passed" =>
           \/ o.clean \/ function = "scenarios"
           \/ function \in ToSet(strategies(config)) /\ "noStrict" \in config.flags
           \/ function = "infer" /\ config.flags \cap {"noSchemaValidation", "skipVariations"} # {}
  BY <1>2, <1>3, OutcomesAre
<1> DEFINE status == IF o.status = "threw" THEN "failed" ELSE o.status
<1>6. status \in Status /\ (status = "passed" <=> o.status = "passed")
      /\ (status = "incomplete" <=> o.status = "incomplete")
  BY <1>5 DEF Outcome, Status
<1>7. \/ Ends(status) /\ (status = "failed" \/ fn = Len(current.functions))
      \/ Advances /\ status # "failed"
  <2>1. CASE o.status = "threw"
    BY <1>1, <1>2, <1>4, <2>1, ThrowsEnd DEF LoopOK
  <2>2. CASE o.status # "threw"
    BY <1>1, <1>2, <1>4, <1>6, <2>2, FunctionEnds DEF LoopOK
  <2>3. QED BY <2>1, <2>2
<1> HIDE DEF status
<1>8. Advances /\ status # "failed" => status = "passed" /\ Len(current.functions) # 1
  <2>1. Advances => Len(current.functions) # 1
    <3>1. SUFFICES ASSUME Advances, Len(current.functions) = 1 PROVE FALSE
      OBVIOUS
    <3>2. fn \in 1..1
      BY <1>3, <3>1
    <3>3. fn < 1
      BY <3>1 DEF Advances
    <3>4. QED BY <3>2, <3>3
  <2>2. function \in Replicating => status \in {"passed", "failed"}
    BY <1>5 DEF status
  <2>3. QED BY <1>3, <2>1, <2>2
<1>9. LoopOK'
  BY <1>1, <1>2, <1>6, <1>7, EndsKeepsLoop, AdvanceKeepsLoop
<1>10. /\ delivered' = delivered \cup (IF o.delivers THEN {function} ELSE {})
       /\ clean' = clean \cup (IF o.clean THEN {function} ELSE {})
       /\ tested' = IF function = "scenarios" /\ o.delivers THEN o.status ELSE tested
       /\ running' = running /\ report' = report /\ certification' = certification
  BY <1>4 DEF Remember, RunFunction
<1>11. RestOK'
  <2>1. tested' \in {"none", "passed", "failed", "incomplete"}
    BY <1>1, <1>5, <1>10 DEF RestOK
  <2>2. QED BY <1>1, <1>2, <1>10, <2>1 DEF RestOK
<1>12. TestedInv'
  <2>0. /\ n' = n /\ n \in Nat /\ n >= 3 /\ open /\ results[at] = "pending"
        /\ \A i \in 1..n : results[i] \in Status \cup {"pending"}
    <3>1. n' = n /\ n \in Nat /\ n >= 3 /\ open
      BY <1>2, SameDeclared, Declared DEF underWay, open
    <3>2. results[at] = "pending"
      BY <1>1, <1>3, <3>1 DEF LoopOK, LoopInv
    <3>3. \A i \in 1..n : results[i] \in Status \cup {"pending"}
      BY <1>1 DEF LoopOK, ControlOK
    <3>4. QED BY <3>1, <3>2, <3>3
  <2>1. CASE function = "scenarios"
    <3>1. at = n - 1
      BY <1>3, <2>1
    <3>2. "scenarios" \notin Replicating
      BY DEF Replicating
    <3>3. Ends(status)
      BY <1>3, <1>7, <1>8, <2>1, <3>2
    <3>4. /\ results'[n - 1] = status
          /\ \A i \in 1..n : i # n - 1 => results'[i] = results[i]
      BY <1>1, <1>2, <1>6, <3>1, <3>3, EndsKeepsControl DEF LoopOK
    <3>5. \A i \in 1..n : i # n - 1 => results[i] # "incomplete"
      BY <1>1 DEF TestedInv
    <3>6. o.delivers => tested' = status
      BY <1>5, <1>6, <1>10, <2>1 DEF status
    <3>7. ~o.delivers => tested' = tested /\ status = "failed"
      BY <1>5, <1>10, <2>1 DEF status
    <3>8. config.endorsement \in {"core", "add-edit"} => tested = "none"
      BY <1>1, <2>0, <3>1 DEF TestedInv, RestOK
    <3>9. status = "incomplete" => config.endorsement = "core" /\ tested' = "incomplete"
      BY <1>5, <1>6, <3>6
    <3>10. QED BY <1>2, <2>0, <3>4, <3>5, <3>6, <3>7, <3>8, <3>9 DEF TestedInv
  <2>2. CASE function # "scenarios"
    <3>1. status # "incomplete" /\ tested' = tested
      BY <1>5, <1>6, <1>10, <2>2
    <3>2. config.endorsement \in {"core", "add-edit"} => at # n - 1
      BY <1>3, <2>2
    <3>3. QED BY <1>1, <1>2, <1>6, <1>7, <3>1, <3>2, TestedStays
  <2>3. QED BY <2>1, <2>2
<1>13. ReportInv' /\ CertifiedInv'
  BY <1>1, <1>2, <1>6, <1>7, <1>10, NoReportYet
<1>14. CleanInv'
  <2>1. status = "passed" => DoneIn(clean', function)
    BY <1>5, <1>6, <1>10 DEF DoneIn
  <2>2. clean \subseteq clean'
    BY <1>10
  <2>3. \/ Ends(status) /\ (status = "passed" => fn = Len(current.functions) /\ DoneIn(clean', function))
        \/ Advances /\ DoneIn(clean', function)
    BY <1>7, <1>8, <2>1
  <2>4. QED BY <1>1, <1>2, <1>6, <2>2, <2>3, CleanMoves
<1>15. BehindInv'
  <2>1. SUFFICES ASSUME running' # {} PROVE (\E i \in 1..n - 1 : results[i] = "failed")'
    BY DEF BehindInv
  <2>2. \E i \in 1..n - 1 : results[i] = "failed"
    BY <1>1, <1>2, <1>10, <2>1 DEF BehindInv
  <2>3. QED BY <1>1, <1>2, <1>6, <1>7, <2>2, FailureStays
<1>16. QED
  <2>1. (LoopOK /\ RestOK /\ TestedInv /\ ReportInv /\ CleanInv /\ CertifiedInv /\ BehindInv)'
    BY <1>9, <1>11, <1>12, <1>13, <1>14, <1>15
  <2>2. QED BY <2>1, PartsNext

(* A strategy that comes back moves the run on only if it is the last of   *)
(* those the run waits for, or throws while it waits.                      *)
LEMMA StrategyKeeps ==
  ASSUME IInv, NEW s \in running, StrategySettles(s)
  PROVE  IInv'
<1>1. LoopOK /\ RestOK /\ TestedInv /\ ReportInv /\ CleanInv /\ CertifiedInv /\ BehindInv
  BY Parts
<1>2. /\ config \in Config /\ config' = config /\ running' \subseteq running
      /\ tested' = tested /\ report' = report /\ certification' = certification
      /\ clean \subseteq clean'
  BY <1>1 DEF StrategySettles, LoopOK, ControlOK
<1>3. RestOK'
  BY <1>1, <1>2 DEF RestOK
<1>4. n' = n /\ declared' = declared /\ n \in Nat /\ n >= 3
  BY <1>2, SameDeclared, Declared
<1>5. CASE UNCHANGED <<phase, at, fn, results, pipelineSteps, pipelineStatus>>
  <2>1. LoopOK'
    BY <1>1, <1>2, <1>5, SameLoop
  <2>2. TestedInv' /\ CertifiedInv'
    BY <1>1, <1>2, <1>4, <1>5 DEF TestedInv, CertifiedInv, open
  <2>3. ReportInv'
    BY <1>1, <1>2, <1>4, <1>5 DEF ReportInv, open, final
  <2>4. CleanInv'
    <3>1. \A f : DoneIn(clean, f) => DoneIn(clean, f)'
      BY <1>2 DEF DoneIn
    <3>2. current' = current /\ underWay' = underWay
      BY <1>4, <1>5 DEF current, underWay
    <3>3. QED BY <1>1, <1>4, <1>5, <3>1, <3>2 DEF CleanInv
  <2>5. BehindInv'
    BY <1>1, <1>2, <1>4, <1>5 DEF BehindInv, underWay, function, current
  <2>6. QED BY <1>3, <2>1, <2>2, <2>3, <2>4, <2>5, PartsNext
<1>6. CASE ~UNCHANGED <<phase, at, fn, results, pipelineSteps, pipelineStatus>>
  <2>1. /\ atParallel /\ underWay /\ function = "parallel"
        /\ StepThrows \/ (running' = {} /\ FunctionReturns("passed"))
    BY <1>6 DEF StrategySettles, atParallel
  <2>2. at # n /\ (config.endorsement \in {"core", "add-edit"} => at # n - 1)
    BY <1>1, <2>1, FunctionIs DEF LoopOK
  <2>3. PICK status \in {"passed", "failed"} :
          /\ \/ Ends(status) /\ (status = "failed" \/ fn = Len(current.functions))
             \/ Advances
          /\ running' = {} \/ (status = "failed" /\ Ends(status))
    <3>1. CASE StepThrows
      BY <1>1, <2>1, <3>1, ThrowsEnd DEF LoopOK
    <3>2. CASE running' = {} /\ FunctionReturns("passed")
      BY <1>1, <2>1, <3>2, FunctionEnds DEF LoopOK, Status
    <3>3. QED BY <2>1, <3>1, <3>2
  <2>4. status \in Status \ {"incomplete"} /\ (Ends(status) \/ Advances)
    BY <2>3 DEF Status
  <2>5. LoopOK'
    BY <1>1, <1>2, <2>1, <2>4, EndsKeepsLoop, AdvanceKeepsLoop
  <2>6. TestedInv'
    BY <1>1, <1>2, <2>1, <2>2, <2>4, TestedStays
  <2>7. ReportInv' /\ CertifiedInv'
    BY <1>1, <1>2, <2>1, <2>4, NoReportYet
  <2>8. CleanInv'
    <3>1. DoneIn(clean', function)
      BY <2>1 DEF DoneIn
    <3>2. QED BY <1>1, <1>2, <2>1, <2>3, <2>4, <3>1, CleanMoves
  <2>9. BehindInv'
    <3>1. SUFFICES ASSUME running' # {} PROVE (\E i \in 1..n - 1 : results[i] = "failed")'
      BY DEF BehindInv
    <3>2. QED BY <1>1, <1>2, <2>1, <2>2, <2>3, <2>4, <3>1, FailureStays
  <2>10. QED BY <1>3, <2>5, <2>6, <2>7, <2>8, <2>9, PartsNext
<1>7. QED BY <1>5, <1>6

(* The strategies start.                                                   *)
LEMMA StartKeeps == ASSUME IInv, StartStrategies PROVE IInv'
<1>1. LoopOK /\ RestOK /\ TestedInv /\ ReportInv /\ CleanInv /\ CertifiedInv /\ BehindInv
  BY Parts
<1>2. /\ config \in Config /\ running' = ToSet(strategies(config))
      /\ underWay /\ function = "parallel"
      /\ UNCHANGED <<config, phase, at, fn, results, pipelineSteps, tested,
                     pipelineStatus, report, certification, clean>>
  BY <1>1 DEF StartStrategies, atParallel, LoopOK, ControlOK
<1>3. n' = n /\ declared' = declared /\ current' = current /\ function' = function
  BY <1>2, SameDeclared DEF current, function
<1>4. LoopOK'
  BY <1>1, <1>2, SameLoop
<1>5. RestOK' /\ TestedInv' /\ CertifiedInv'
  BY <1>1, <1>2, <1>3 DEF RestOK, TestedInv, CertifiedInv, open
<1>6. ReportInv'
  BY <1>1, <1>2, <1>3 DEF ReportInv, open, final
<1>7. CleanInv'
  <2>1. \A f : DoneIn(clean, f) => DoneIn(clean, f)'
    BY <1>2 DEF DoneIn
  <2>2. QED BY <1>1, <1>2, <1>3, <2>1 DEF CleanInv, underWay
<1>8. BehindInv'
  BY <1>2, <1>3 DEF BehindInv, underWay
<1>9. QED BY <1>4, <1>5, <1>6, <1>7, <1>8, PartsNext

(* The reports are written, or the writer throws and may leave report.json *)
(* behind.                                                                 *)
LEMMA WriteKeeps == ASSUME IInv, WriteReports PROVE IInv'
<1>1. LoopOK /\ RestOK /\ TestedInv /\ ReportInv /\ CleanInv /\ CertifiedInv /\ BehindInv
  BY Parts
<1>2. /\ config \in Config /\ underWay /\ function = "write" /\ config' = config
      /\ UNCHANGED <<delivered, tested, running, certification, clean>>
  BY <1>1 DEF WriteReports, LoopOK, ControlOK
<1>3. at = n /\ n \in Nat /\ n >= 3 /\ n' = n /\ Len(current.functions) = 1 /\ fn \in 1..1 /\ open
  BY <1>1, <1>2, SameDeclared, Declared, FunctionIs DEF LoopOK, underWay, open
<1>4. PICK status \in {"passed", "failed"} :
        /\ Ends(status)
        /\ status = "passed" => report' = written
        /\ report' \in {NoReport, written}
  <2>1. CASE FunctionReturns("passed") /\ report' = written
    <3>1. Ends("passed")
      BY <1>1, <1>2, <1>3, <2>1, FunctionEnds DEF LoopOK, Status, Advances
    <3>2. QED BY <2>1, <3>1
  <2>2. CASE /\ StepThrows
             /\ report' \in {NoReport} \cup (IF writerCanWrite(config, tested) THEN {written} ELSE {})
    BY <1>1, <1>2, <2>2, ThrowsEnd DEF LoopOK
  <2>3. QED BY <2>1, <2>2 DEF WriteReports
<1>5. status \in Status \ {"incomplete"}
  BY <1>4 DEF Status
<1>6. LoopOK'
  BY <1>1, <1>2, <1>4, <1>5, EndsKeepsLoop
<1>7. /\ results'[n] = status /\ \A i \in 1..n - 1 : results'[i] = results[i]
      /\ at' = n + 1 /\ phase' \in {"steps", "finalizers"}
      /\ status = "passed" => pipelineStatus' = pipelineStatus
  <2>1. results'[n] = status /\ \A i \in 1..n - 1 : results'[i] = results[i]
    BY <1>1, <1>2, <1>3, <1>4, <1>5, EndsKeepsControl DEF LoopOK
  <2>2. at' = n + 1 /\ phase' \in {"steps", "finalizers"}
    BY <1>1, <1>3, <1>4 DEF Ends
  <2>3. status = "passed" => pipelineStatus' = pipelineStatus
    BY <1>4 DEF Ends, worseOf
  <2>4. QED BY <2>1, <2>2, <2>3
<1>8. RestOK'
  <2>1. written.valid \in BOOLEAN /\ NoReport.valid \in BOOLEAN
    BY <1>2, RuleAnswers DEF written, NoReport
  <2>2. QED BY <1>1, <1>2, <1>4, <2>1 DEF RestOK
<1>9. TestedInv'
  BY <1>1, <1>2, <1>3, <1>4, <1>5, TestedStays
<1>10. ReportInv'
  <2>1. /\ written.steps = pipelineSteps
        /\ written.valid = validForCertification(config, pipelineSteps)
        /\ written.status = reportVerdict(config, pipelineSteps, tested)
    BY DEF written
  <2>2. pipelineSteps = [i \in 1..n |-> IF i = n THEN "absent" ELSE final(i)]
    <3>1. \A i \in 1..n - 1 : pipelineSteps[i] = final(i)
      BY <1>1, <1>3 DEF LoopOK, LoopInv, ListInv
    <3>2. pipelineSteps[n] = "absent"
      BY <1>1, <1>3 DEF LoopOK, ListInv
    <3>3. pipelineSteps = [i \in 1..n |-> pipelineSteps[i]]
      BY <1>1 DEF LoopOK, ControlOK
    <3>4. QED BY <1>3, <3>1, <3>2, <3>3
  <2>3. [i \in 1..n |-> IF i = n THEN "absent" ELSE final(i)]'
          = [i \in 1..n |-> IF i = n THEN "absent" ELSE final(i)]
    BY <1>3, <1>7 DEF final
  <2>4. ASSUME report' # NoReport
        PROVE  /\ report'.steps = [i \in 1..n |-> IF i = n THEN "absent" ELSE final(i)]'
               /\ report'.valid = validForCertification(config, report'.steps)
               /\ results'[n] = "passed" /\ config.endorsement # "entity-event" =>
                    report'.status = pipelineStatus'
    <3>1. report' = written
      BY <1>4, <2>4
    <3>2. report'.steps = [i \in 1..n |-> IF i = n THEN "absent" ELSE final(i)]'
          /\ report'.valid = validForCertification(config, report'.steps)
      BY <2>1, <2>2, <2>3, <3>1
    <3>3. results'[n] = "passed" /\ config.endorsement # "entity-event" =>
            report'.status = pipelineStatus'
      BY <1>1, <1>2, <1>3, <1>7, <2>1, <3>1, VerdictAgrees
    <3>4. QED BY <3>2, <3>3
  <2>5. results'[n] = "passed" => report' # NoReport
    <3>1. n \in DOMAIN pipelineSteps /\ DOMAIN NoReport.steps = {}
      BY <1>1, <1>3 DEF LoopOK, ControlOK, NoReport
    <3>2. written # NoReport
      BY <2>1, <3>1
    <3>3. QED BY <1>4, <1>7, <3>2
  <2>6. ~(open' /\ at' <= n')
    BY <1>3, <1>7
  <2>7. QED BY <1>2, <1>3, <2>4, <2>5, <2>6 DEF ReportInv
<1>11. CertifiedInv'
  BY <1>1, <1>2, <1>3, <1>7 DEF CertifiedInv, open
<1>12. CleanInv'
  <2>1. DoneIn(clean', function)
    BY <1>2 DEF DoneIn
  <2>2. QED BY <1>1, <1>2, <1>3, <1>4, <1>5, <2>1, CleanMoves
<1>13. BehindInv'
  <2>1. SUFFICES ASSUME running' # {} PROVE (\E i \in 1..n - 1 : results[i] = "failed")'
    BY DEF BehindInv
  <2>2. \E i \in 1..n - 1 : results[i] = "failed"
    BY <1>1, <1>2, <2>1 DEF BehindInv
  <2>3. QED BY <1>1, <1>2, <1>4, <1>5, <2>2, FailureStays
<1>14. QED BY <1>6, <1>8, <1>9, <1>10, <1>11, <1>12, <1>13, PartsNext

(* The run finishes.                                                       *)
LEMMA FinishKeeps == ASSUME IInv, Finish PROVE IInv'
<1>1. LoopOK /\ RestOK /\ TestedInv /\ ReportInv /\ CleanInv /\ CertifiedInv /\ BehindInv
  BY Parts
<1>2. /\ config \in Config /\ config' = config /\ open /\ at = n + 1 /\ phase' = "finished"
      /\ UNCHANGED <<at, fn, pipelineSteps, delivered, tested, running, pipelineStatus, report, clean>>
      /\ results' = [i \in 1..n |-> final(i)]
      /\ certification' = validForCertification(config, results')
  BY <1>1 DEF Finish, final, LoopOK, ControlOK, open
<1>3. n' = n /\ declared' = declared /\ n \in Nat /\ n >= 3 /\ ~open' /\ ~underWay'
  BY <1>2, SameDeclared, Declared DEF open, underWay
<1>4. \A i \in 1..n :
        /\ results[i] \in Status \cup {"pending"} /\ results'[i] = final(i)
        /\ results'[i] \in Status /\ final(i)' = final(i)
        /\ \A status \in {"passed", "failed", "incomplete"} :
             results'[i] = status <=> results[i] = status
  BY <1>1, <1>2, <1>3 DEF LoopOK, ControlOK, final, Status
<1>5. LoopOK'
  <2>1. results' \in [1..n -> Status \cup {"pending"}]
    BY <1>2, <1>4
  <2>2. ControlOK'
    BY <1>1, <1>2, <1>3, <2>1 DEF LoopOK, ControlOK
  <2>3. LoopInv' /\ ListInv'
    BY <1>2, <1>3, <1>4 DEF LoopInv, ListInv, Status
  <2>4. StatusInv'
    BY <1>1, <1>2, <1>3, <1>4 DEF LoopOK, StatusInv
  <2>5. QED BY <2>2, <2>3, <2>4 DEF LoopOK
<1>6. RestOK'
  BY <1>1, <1>2, RuleAnswers DEF RestOK
<1>7. TestedInv'
  BY <1>1, <1>2, <1>3, <1>4 DEF TestedInv
<1>8. ReportInv'
  <2>1. [i \in 1..n |-> IF i = n THEN "absent" ELSE final(i)]'
          = [i \in 1..n |-> IF i = n THEN "absent" ELSE final(i)]
    BY <1>3, <1>4
  <2>2. QED BY <1>1, <1>2, <1>3, <1>4, <2>1 DEF ReportInv
<1>9. CertifiedInv'
  BY <1>2, <1>3 DEF CertifiedInv
<1>10. CleanInv'
  <2>1. \A f : DoneIn(clean, f) => DoneIn(clean, f)'
    BY <1>2 DEF DoneIn
  <2>2. QED BY <1>1, <1>2, <1>3, <1>4, <2>1 DEF CleanInv
<1>11. BehindInv'
  <2>1. ~underWay
    BY <1>2, <1>3 DEF underWay
  <2>2. QED BY <1>1, <1>2, <1>3, <1>4, <2>1 DEF BehindInv
<1>12. QED BY <1>5, <1>6, <1>7, <1>8, <1>9, <1>10, <1>11, PartsNext

(* A step that changes nothing.                                            *)
LEMMA StutterKeeps == ASSUME IInv, UNCHANGED vars PROVE IInv'
<1>1. LoopOK /\ RestOK /\ TestedInv /\ ReportInv /\ CleanInv /\ CertifiedInv /\ BehindInv
  BY Parts
<1>2. UNCHANGED <<config, phase, at, fn, results, pipelineSteps, delivered, tested, running,
          pipelineStatus, report, certification, clean>>
  BY DEF vars
<1>3. n' = n /\ declared' = declared /\ current' = current /\ function' = function
  BY <1>2, SameDeclared DEF current, function
<1>4. LoopOK'
  BY <1>1, <1>2, SameLoop
<1>5. RestOK' /\ TestedInv' /\ CertifiedInv'
  BY <1>1, <1>2, <1>3 DEF RestOK, TestedInv, CertifiedInv, open
<1>6. ReportInv'
  BY <1>1, <1>2, <1>3 DEF ReportInv, open, final
<1>7. CleanInv'
  <2>1. \A f : DoneIn(clean, f) => DoneIn(clean, f)'
    BY <1>2 DEF DoneIn
  <2>2. QED BY <1>1, <1>2, <1>3, <2>1 DEF CleanInv, underWay
<1>8. BehindInv'
  BY <1>1, <1>2, <1>3 DEF BehindInv, underWay
<1>9. QED BY <1>4, <1>5, <1>6, <1>7, <1>8, PartsNext

(* Every step of the run keeps it.                                         *)
LEMMA NextKeeps == ASSUME IInv, [Next]_vars PROVE IInv'
<1>1. CASE RunFunction
  BY <1>1, RunFunctionKeeps
<1>2. CASE StartStrategies
  BY <1>2, StartKeeps
<1>3. ASSUME NEW s \in running, StrategySettles(s) PROVE IInv'
  BY <1>3, StrategyKeeps
<1>4. CASE WriteReports
  BY <1>4, WriteKeeps
<1>5. CASE Finish
  BY <1>5, FinishKeeps
<1>6. CASE UNCHANGED vars
  BY <1>6, StutterKeeps
<1>7. QED BY <1>1, <1>2, <1>3, <1>4, <1>5, <1>6 DEF Next

-----------------------------------------------------------------------------
(* The theorems. *)

(* The inductive invariant holds of every run, whatever its configuration. *)
LEMMA Invariant == Spec => []IInv
<1>1. Init => IInv
  BY InitKeeps
<1>2. IInv /\ [Next]_vars => IInv'
  BY NextKeeps
<1>3. QED BY <1>1, <1>2, PTL DEF Spec

(* A list of steps that passed, the writer's left out or passed with them, *)
(* certifies like the list of them all.                                    *)
LEMMA RuleOfBoth ==
  ASSUME NEW c \in Config, NEW list, NEW other,
         everyStepPassed(list) <=> everyStepPassed(other)
  PROVE  validForCertification(c, list) = validForCertification(c, other)
<1>1. c.endorsement \in {"dd", "core", "add-edit", "entity-event", "rcf"}
  BY ConfigIs
<1>2. validForCertification(c, list) <=> validForCertification(c, other)
  BY <1>1 DEF validForCertification, ddValidForCertification, coreValidForCertification,
    addEditValidForCertification, entityEventValidForCertification, rcfValidForCertification
<1>3. QED BY <1>2, RuleAnswers

(* The values the variables take, for every endorsement and any flags.     *)
THEOREM PipelineTypeCorrect == Spec => []TypeOK
<1>1. IInv => TypeOK
  BY DEF IInv
<1>2. QED BY <1>1, Invariant, PTL

(* "The written report and the returned result cannot disagree" (core.ts   *)
(* 823, rcf.ts 223), whatever the steps came to and in whatever order the  *)
(* strategies of a parallel run came back.                                 *)
THEOREM ReportTellsTheResult == Spec => []ReportAgreesWithResult
<1>1. IInv => ReportAgreesWithResult
  <2>1. SUFFICES ASSUME IInv, finished, results[writer] = "passed"
                 PROVE  /\ \A i \in 1..n - 1 : report.steps[i] = results[i]
                        /\ report.valid = certification
                        /\ config.endorsement # "entity-event" => report.status = pipelineStatus
    BY DEF ReportAgreesWithResult
  <2>2. /\ n \in Nat /\ n >= 3 /\ config \in Config /\ ~open /\ results[n] = "passed"
        /\ \A i \in 1..n : results[i] # "pending"
        /\ DOMAIN results = 1..n
    BY <2>1, Declared DEF IInv, TypeOK, LoopInv, finished, open, writer
  <2>3. /\ report.steps = [i \in 1..n |-> IF i = n THEN "absent" ELSE final(i)]
        /\ report.valid = validForCertification(config, report.steps)
        /\ config.endorsement # "entity-event" => report.status = pipelineStatus
    BY <2>1, <2>2 DEF IInv, ReportInv
  <2>4. \A i \in 1..n - 1 : report.steps[i] = results[i]
    BY <2>2, <2>3 DEF final
  <2>5. DOMAIN report.steps = 1..n /\ report.steps[n] = "absent"
    BY <2>2, <2>3
  <2>6. everyStepPassed(report.steps) <=> everyStepPassed(results)
    BY <2>2, <2>4, <2>5 DEF everyStepPassed
  <2>7. report.valid = certification
    <3>1. report.valid = validForCertification(config, results)
      BY <2>2, <2>3, <2>6, RuleOfBoth
    <3>2. certification <=> validForCertification(config, results)
      BY <2>1, <2>2 DEF IInv, CertifiedInv
    <3>3. certification \in BOOLEAN /\ validForCertification(config, results) \in BOOLEAN
      BY <2>1, <2>2, RuleAnswers DEF IInv, TypeOK
    <3>4. QED BY <3>1, <3>2, <3>3
  <2>8. QED BY <2>3, <2>4, <2>7
<1>2. QED BY <1>1, Invariant, PTL

(* What a rule asks for before it certifies.                               *)
LEMMA RuleMeans ==
  ASSUME NEW c \in Config, NEW list, validForCertification(c, list)
  PROVE  /\ everyStepPassed(list) /\ c.version # "1.7"
         /\ c.endorsement = "dd" => "noStrict" \notin c.flags
         /\ c.endorsement = "rcf" => c.flags \cap {"noSchemaValidation", "skipVariations"} = {}
         /\ c.endorsement = "entity-event" => c.mode # "observe"
<1>1. /\ c.endorsement \in {"dd", "core", "add-edit", "entity-event", "rcf"}
      /\ c.version \in VersionsOf(c.endorsement)
  BY ConfigIs
<1>2. CASE c.endorsement = "dd"
  BY <1>2 DEF validForCertification, ddValidForCertification, versionCertifies
<1>3. CASE c.endorsement = "core"
  BY <1>3 DEF validForCertification, coreValidForCertification, versionCertifies
<1>4. CASE c.endorsement = "add-edit"
  BY <1>4 DEF validForCertification, addEditValidForCertification, versionCertifies
<1>5. CASE c.endorsement = "entity-event"
  BY <1>1, <1>5 DEF validForCertification, entityEventValidForCertification, VersionsOf
<1>6. CASE c.endorsement = "rcf"
  BY <1>6 DEF validForCertification, rcfValidForCertification, versionCertifies
<1>7. QED BY <1>1, <1>2, <1>3, <1>4, <1>5, <1>6

(* A run, or the report it left, certifies only if every step but the      *)
(* writer passed.                                                          *)
LEMMA CertifiesMeansPassed ==
  ASSUME IInv, certifies
  PROVE  /\ \A i \in 1..n - 1 : results[i] = "passed"
         /\ \E list : validForCertification(config, list)
<1>1. /\ n \in Nat /\ n >= 3 /\ config \in Config /\ DOMAIN results = 1..n
      /\ \A i \in 1..n : results[i] \in Status \cup {"pending"}
  BY Declared DEF IInv, TypeOK
<1>2. CASE certification
  <2>1. validForCertification(config, results) /\ ~open
    BY <1>2 DEF IInv, CertifiedInv
  <2>2. \A i \in 1..n : results[i] \in {"passed", "absent"}
    BY <1>1, <2>1, RuleMeans DEF everyStepPassed
  <2>3. QED BY <1>1, <2>1, <2>2 DEF Status
<1>3. CASE report.valid
  <2>1. report # NoReport
    BY <1>3 DEF NoReport
  <2>2. /\ report.steps = [i \in 1..n |-> IF i = n THEN "absent" ELSE final(i)]
        /\ report.valid = validForCertification(config, report.steps)
    BY <2>1 DEF IInv, ReportInv
  <2>3. validForCertification(config, report.steps)
    BY <1>3, <2>2
  <2>4. everyStepPassed(report.steps)
    BY <1>1, <2>3, RuleMeans
  <2>5. \A i \in 1..n - 1 : final(i) \in {"passed", "absent"}
    BY <1>1, <2>2, <2>4 DEF everyStepPassed
  <2>6. QED BY <1>1, <2>3, <2>5 DEF final, Status
<1>4. QED BY <1>2, <1>3 DEF certifies

(* No certified run has a strategy still at work behind it.                *)
THEOREM CertifiedRunsAreSettled == Spec => []CertifiedMeansSettled
<1>1. IInv => CertifiedMeansSettled
  <2>1. SUFFICES ASSUME IInv, certifies, running # {} PROVE FALSE
    BY DEF CertifiedMeansSettled
  <2>2. /\ \A i \in 1..n - 1 : results[i] = "passed"
        /\ n \in Nat /\ n >= 3
    BY <2>1, CertifiesMeansPassed, Declared DEF IInv, TypeOK
  <2>3. ~(underWay /\ function = "parallel")
    <3>1. SUFFICES ASSUME underWay, function = "parallel" PROVE FALSE
      OBVIOUS
    <3>2. open /\ at <= n
      BY <3>1 DEF underWay, open
    <3>3. report = NoReport /\ ~certification
      BY <2>1, <3>2 DEF IInv, ReportInv, CertifiedInv
    <3>4. QED BY <2>1, <3>3 DEF certifies, NoReport
  <2>4. QED BY <2>1, <2>2, <2>3 DEF IInv, BehindInv
<1>2. QED BY <1>1, Invariant, PTL

(* A failure outranks a run cut short, which outranks a pass               *)
(* (pipeline.ts 151, 316-318).                                             *)
THEOREM StatusIsTheWorst == Spec => []PipelineStatusIsWorst
<1>1. IInv => PipelineStatusIsWorst
  BY DEF IInv, StatusInv, PipelineStatusIsWorst
<1>2. QED BY <1>1, Invariant, PTL

(* A step of the run ends one step, leaves them all, or is the finish.     *)
LEMMA StepMoves ==
  ASSUME IInv, Next
  PROVE  \/ results' = results
         \/ underWay /\ config' = config /\ \E status \in Status : Ends(status)
         \/ Finish
<1>1. LoopOK /\ ControlOK
  BY DEF IInv, TypeOK, LoopOK, ControlOK
<1>2. config' = config
  BY DEF Next, RunFunction, StartStrategies, StrategySettles, WriteReports, Finish
<1>3. ASSUME underWay, NEW status \in Status, FunctionReturns(status)
      PROVE  results' = results \/ \E s \in Status : Ends(s)
  BY <1>1, <1>3, FunctionEnds DEF Advances
<1>4. ASSUME underWay, StepThrows PROVE \E s \in Status : Ends(s)
  BY <1>1, <1>4, ThrowsEnd DEF Status
<1>5. CASE RunFunction
  <2>1. underWay /\ function \in Functions \ {"parallel", "write"} /\ config \in Config
    BY <1>1, <1>5, FunctionIs DEF RunFunction, ControlOK
  <2>2. PICK o \in outcomes(config, function, delivered) :
          IF o.status = "threw" THEN StepThrows ELSE FunctionReturns(o.status)
    BY <1>5 DEF RunFunction
  <2>3. o.status \in Status \cup {"threw"}
    BY <2>1, OutcomesAre DEF Outcome
  <2>4. QED BY <1>2, <1>3, <1>4, <2>1, <2>2, <2>3
<1>6. CASE StartStrategies
  BY <1>6 DEF StartStrategies
<1>7. ASSUME NEW s \in running, StrategySettles(s)
      PROVE  \/ results' = results
             \/ underWay /\ config' = config /\ \E status \in Status : Ends(status)
  <2>1. \/ results' = results
        \/ underWay /\ (StepThrows \/ FunctionReturns("passed"))
    BY <1>7 DEF StrategySettles, atParallel
  <2>2. "passed" \in Status
    BY DEF Status
  <2>3. QED BY <1>2, <1>3, <1>4, <2>1, <2>2
<1>8. CASE WriteReports
  <2>1. underWay /\ (StepThrows \/ FunctionReturns("passed"))
    BY <1>8 DEF WriteReports
  <2>2. "passed" \in Status
    BY DEF Status
  <2>3. QED BY <1>2, <1>3, <1>4, <2>1, <2>2
<1>9. QED BY <1>5, <1>6, <1>7, <1>8 DEF Next

(* The endorsements with scenarios: their step, the last but one, passes   *)
(* only if the scenarios did.                                              *)
ScenariosInv ==
  /\ config.endorsement \in {"core", "add-edit", "entity-event"}
  /\ results[n - 1] = "passed"
  => tested = "passed"

LEMMA ScenariosStep == IInv /\ ScenariosInv /\ [Next]_vars => ScenariosInv'
<1> SUFFICES ASSUME IInv, ScenariosInv, [Next]_vars,
                    config'.endorsement \in {"core", "add-edit", "entity-event"},
                    results'[n' - 1] = "passed"
             PROVE  tested' = "passed"
  BY DEF ScenariosInv
<1>1. LoopOK /\ ControlOK /\ config \in Config /\ n \in Nat /\ n >= 3 /\ DOMAIN results = 1..n
  BY Declared DEF IInv, TypeOK, LoopOK, ControlOK
<1>2. config' = config /\ n' = n
  <2>1. config' = config
    BY DEF Next, RunFunction, StartStrategies, StrategySettles, WriteReports, Finish, vars
  <2>2. QED BY <2>1, <1>1, SameDeclared
<1>3. results[n - 1] = "passed" => tested = "passed"
  BY <1>2 DEF ScenariosInv
<1>4. ASSUME tested' = tested, ~underWay \/ function # "scenarios", Next
      PROVE  tested' = "passed"
  <2>1. CASE results' = results
    BY <1>2, <1>3, <1>4, <2>1
  <2>2. ASSUME underWay, NEW status \in Status, Ends(status)
        PROVE  tested' = "passed"
    <3>1. at # n - 1
      BY <1>1, <1>2, <1>4, <2>2, FunctionIs
    <3>2. \A i \in 1..n : i # at => results'[i] = results[i]
      BY <1>1, <1>2, <2>2, EndsKeepsControl
    <3>3. QED BY <1>1, <1>2, <1>3, <1>4, <3>1, <3>2
  <2>3. CASE Finish
    <3>1. results'[n - 1] = IF results[n - 1] = "pending" THEN "skipped" ELSE results[n - 1]
      BY <1>1, <2>3 DEF Finish
    <3>2. QED BY <1>2, <1>3, <1>4, <3>1
  <2>4. QED BY <1>4, <2>1, <2>2, <2>3, StepMoves
<1>5. CASE RunFunction
  <2>1. underWay /\ function \in Functions \ {"parallel", "write"}
    BY <1>1, <1>5, FunctionIs DEF RunFunction
  <2>2. PICK o \in outcomes(config, function, delivered) :
          /\ IF o.status = "threw" THEN StepThrows ELSE FunctionReturns(o.status)
          /\ Remember(function, o)
    BY <1>5 DEF RunFunction
  <2>3. CASE function # "scenarios"
    BY <1>4, <1>5, <2>2, <2>3 DEF Remember, Next
  <2>4. CASE function = "scenarios"
    <3>1. at = n - 1 /\ fn = Len(current.functions)
      <4>1. config.endorsement \in {"core", "add-edit", "entity-event"}
        BY <1>2
      <4>2. /\ at = n - 1 /\ fn \in 1..Len(current.functions)
            /\ Len(current.functions) = 1
        BY <1>1, <2>1, <2>4, <4>1, FunctionIs
      <4>3. QED BY <4>2
    <3>2. /\ o.status \in Status \cup {"threw"}
          /\ \/ o.delivers /\ o.status \in {"passed", "failed", "incomplete"}
             \/ o.status \in {"failed", "threw"}
      BY <1>1, <2>1, <2>4, OutcomesAre DEF Outcome
    <3>3. results' = [results EXCEPT ![at] = IF o.status = "threw" THEN "failed" ELSE o.status]
      BY <2>2, <3>1 DEF StepThrows, FunctionReturns, StepReturns, Recorded
    <3>4. results'[n - 1] = IF o.status = "threw" THEN "failed" ELSE o.status
      BY <1>1, <3>1, <3>3
    <3>5. o.status = "passed" /\ o.delivers
      BY <1>2, <3>2, <3>4
    <3>6. QED BY <2>2, <2>4, <3>5 DEF Remember
  <2>5. QED BY <2>3, <2>4
<1>6. CASE StartStrategies
  BY <1>4, <1>6 DEF StartStrategies, atParallel, Next
<1>7. ASSUME NEW s \in running, StrategySettles(s) PROVE tested' = "passed"
  <2>1. results' = results \/ (atParallel /\ underWay /\ function = "parallel")
    BY <1>7 DEF StrategySettles, atParallel
  <2>2. tested' = tested /\ Next
    BY <1>7 DEF StrategySettles, Next
  <2>3. QED BY <1>2, <1>3, <1>4, <2>1, <2>2
<1>8. CASE WriteReports
  BY <1>4, <1>8 DEF WriteReports, Next
<1>9. CASE Finish
  <2>1. ~underWay
    BY <1>1, <1>9 DEF Finish, underWay
  <2>2. QED BY <1>4, <1>9, <2>1 DEF Finish, Next
<1>10. CASE UNCHANGED vars
  BY <1>2, <1>3, <1>10 DEF vars
<1>11. QED BY <1>5, <1>6, <1>7, <1>8, <1>9, <1>10 DEF Next

LEMMA ScenariosInvariant == Spec => []ScenariosInv
<1>1. Init => ScenariosInv
  <2>1. SUFFICES ASSUME Init PROVE results[n - 1] = "pending"
    BY DEF ScenariosInv
  <2>2. n \in Nat /\ n >= 3
    BY <2>1, Declared DEF Init
  <2>3. QED BY <2>1, <2>2 DEF Init
<1>2. QED BY <1>1, ScenariosStep, Invariant, PTL DEF Spec

(* Nothing is certified, by the result or by the report on disk, unless    *)
(* every check the endorsement is about was done in full and found nothing *)
(* wrong; the scenarios passed on what they could test, strategies run in  *)
(* parallel and the payloads of a run without a mode are not asked about   *)
(* (the rules of certification.ts over the steps of sdk/*.ts).             *)
THEOREM CertifiedRunsAreTested == Spec => []CertifiedMeansTested
<1>1. IInv /\ ScenariosInv => CertifiedMeansTested
  <2>1. SUFFICES ASSUME IInv, ScenariosInv, certifies,
                        NEW f \in mandatory(config) \ unexamined(config)
                 PROVE  f \in clean \/ (f = "scenarios" /\ tested = "passed")
    BY DEF CertifiedMeansTested
  <2>2. /\ \A i \in 1..n - 1 : results[i] = "passed"
        /\ n \in Nat /\ n >= 3 /\ config \in Config /\ DOMAIN declared = 1..n
        /\ declared[n].functions = <<"write">>
    BY <2>1, CertifiesMeansPassed, Declared DEF IInv, TypeOK
  <2>3. /\ config.version # "1.7"
        /\ config.endorsement = "dd" => "noStrict" \notin config.flags
        /\ config.endorsement = "rcf" => config.flags \cap {"noSchemaValidation", "skipVariations"} = {}
    BY <2>1, <2>2, CertifiesMeansPassed, RuleMeans
  <2>4. /\ config.endorsement \in {"dd", "core", "add-edit", "entity-event", "rcf"}
        /\ config.flags \subseteq FlagsOf(config.endorsement)
    BY <2>2, ConfigIs
  <2>5. Holds(declared, f)
    BY <2>1, <2>2, <2>3, StepsAreDeclared DEF declared
  <2>6. PICK i \in 1..n : \E k \in DOMAIN declared[i].functions : declared[i].functions[k] = f
    BY <2>2, <2>5 DEF Holds
  <2>7. PICK k \in DOMAIN declared[i].functions : declared[i].functions[k] = f
    BY <2>6
  <2>8. /\ f \notin {"write", "parallel"} /\ (f = "infer" => config.endorsement = "rcf")
        /\ f = "scenarios" => config.endorsement \in {"core", "add-edit", "entity-event"}
    <3>1. ToSet(strategies(config)) = {"timestampDesc", "nextLink", "nextLinkFiltered"}
      BY <2>3, StrategiesAre
    <3>2. QED BY <2>1, <2>4, <3>1 DEF mandatory
  <2>9. i # n
    <3>1. SUFFICES ASSUME i = n PROVE FALSE
      OBVIOUS
    <3>2. declared[i].functions = <<"write">>
      BY <2>2, <3>1
    <3>3. <<"write">>[k] = f /\ k \in DOMAIN <<"write">>
      BY <2>7, <3>2
    <3>4. f = "write"
      BY <3>3
    <3>5. QED BY <2>8, <3>4
  <2>10. DoneIn(clean, f)
    BY <2>1, <2>2, <2>7, <2>9 DEF IInv, CleanInv
  <2>11. "noStrict" \notin config.flags
    BY <2>3, <2>4 DEF FlagsOf
  <2>12. f = "scenarios" => tested = "passed"
    BY <2>1, <2>2, <2>8 DEF ScenariosInv
  <2>13. QED BY <2>3, <2>8, <2>10, <2>11, <2>12 DEF DoneIn
<1>2. QED BY <1>1, Invariant, ScenariosInvariant, PTL

(* After a step has failed under failFast the run starts no step but a     *)
(* finalizer, and no recorded result is ever changed (pipeline.ts).        *)
THEOREM FailFastStops == Spec => FailFastStopsTheRun
<1> DEFINE A == \A i \in 1..n :
       /\ results[i] # "pending" => results'[i] = results[i]
       /\ results[i] = "pending" /\ results'[i] \notin {"pending", "skipped"}
          /\ config.failFast /\ (\E j \in 1..i - 1 : results[j] = "failed") =>
            declared[i].alwaysRun
<1>1. IInv /\ [Next]_vars => [A]_vars
  <2>1. SUFFICES ASSUME IInv, Next, NEW i \in 1..n
                 PROVE  /\ results[i] # "pending" => results'[i] = results[i]
                        /\ results[i] = "pending" /\ results'[i] \notin {"pending", "skipped"}
                           /\ config.failFast /\ (\E j \in 1..i - 1 : results[j] = "failed") =>
                             declared[i].alwaysRun
    OBVIOUS
  <2>2. LoopOK /\ n \in Nat /\ n >= 3 /\ config \in Config
    BY <2>1, Declared DEF IInv, TypeOK, LoopOK, ControlOK
  <2>3. CASE results' = results
    BY <2>3
  <2>4. ASSUME underWay, config' = config, NEW status \in Status, Ends(status)
        PROVE  /\ results[i] # "pending" => results'[i] = results[i]
               /\ results[i] = "pending" /\ results'[i] \notin {"pending", "skipped"}
                  /\ config.failFast /\ (\E j \in 1..i - 1 : results[j] = "failed") =>
                    declared[i].alwaysRun
    <3>1. /\ at \in 1..n /\ results[at] = "pending" /\ phase \in {"steps", "finalizers"}
          /\ \A k \in 1..n : k # at => results'[k] = results[k]
          /\ phase = "steps" /\ config.failFast => \A k \in 1..n : results[k] # "failed"
          /\ phase = "finalizers" => at = n /\ declared[n].alwaysRun
      <4>1. at \in 1..n /\ phase \in {"steps", "finalizers"} /\ open
        BY <2>2, <2>4, FunctionIs DEF LoopOK, ControlOK, underWay, open
      <4>2. \A k \in 1..n : k # at => results'[k] = results[k]
        BY <2>2, <2>4, EndsKeepsControl DEF LoopOK
      <4>3. QED BY <2>2, <4>1, <4>2 DEF LoopOK, LoopInv
    <3>2. QED BY <2>2, <3>1
  <2>5. CASE Finish
    BY <2>5 DEF Finish
  <2>6. QED BY <2>1, <2>3, <2>4, <2>5, StepMoves
<1>2. [][A]_vars => FailFastStopsTheRun
  BY DEF FailFastStopsTheRun
<1>3. QED BY <1>1, <1>2, Invariant, PTL DEF Spec
=============================================================================
