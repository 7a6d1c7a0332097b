--------------------------- MODULE CloudRunsProofs ---------------------------
(***************************************************************************)
(* Proofs about CloudRuns, for any configuration files, command lines and  *)
(* number of entries.                                                      *)
(***************************************************************************)
EXTENDS CloudRuns, FiniteSetTheorems, SequenceTheorems, WellFoundedInduction, TLAPS

-----------------------------------------------------------------------------
(* The least and the greatest of a set of numbers. *)

(* There is a least of the numbers of a set.                               *)
LEMMA LeastExists ==
  ASSUME NEW S \in SUBSET Nat, S # {}
  PROVE  \E x \in S : \A y \in S : x <= y
<1>1. PICK x \in S : \A y \in S : ~ (<<y, x>> \in OpToRel(<, Nat))
  BY NatLessThanWellFounded, WFMin
<1>2. \A y \in S : ~ (y < x)
  BY <1>1, Zenon DEF OpToRel
<1>3. QED BY <1>2

(* There is a greatest of numbers that have a bound.                       *)
LEMMA GreatestExists ==
  ASSUME NEW n \in Nat, NEW S \in SUBSET (0 .. n), S # {}
  PROVE  \E x \in S : \A y \in S : y <= x
<1> DEFINE U == {u \in Nat : \A y \in S : y <= u}
<1>1. U \in SUBSET Nat /\ n \in U
  OBVIOUS
<1>2. PICK x \in U : \A u \in U : x <= u
  <2> HIDE DEF U
  <2>1. QED BY <1>1, LeastExists
<1>3. x \notin S => x - 1 \in U
  <2>1. PICK z \in S : TRUE
    OBVIOUS
  <2>2. ASSUME x \notin S, NEW y \in S PROVE y <= x - 1
    BY <2>2
  <2>3. ASSUME x \notin S PROVE x - 1 \in Nat
    BY <2>1, <2>2, <2>3
  <2>4. QED BY <2>2, <2>3
<1>4. QED BY <1>2, <1>3

(* Min of a set of naturals is one of them, and none is below it.          *)
LEMMA MinIsLeast ==
  ASSUME NEW S \in SUBSET Nat, S # {}
  PROVE  Min(S) \in S /\ \A y \in S : Min(S) <= y
BY LeastExists DEF Min

(* Numbers below a bound can be put in increasing order: a least set that  *)
(* cannot be would have a greatest number, and the others could be.        *)
LEMMA SortedExists ==
  ASSUME NEW N \in Nat, NEW S \in SUBSET (1 .. N)
  PROVE  \E s \in [1 .. Cardinality(S) -> S] :
           /\ \A x \in S : \E k \in 1 .. Cardinality(S) : s[k] = x
           /\ \A j, k \in 1 .. Cardinality(S) : j < k => s[j] < s[k]
<1> DEFINE sorts(T, s) == /\ s \in [1 .. Cardinality(T) -> T]
                          /\ \A x \in T : \E k \in 1 .. Cardinality(T) : s[k] = x
                          /\ \A j, k \in 1 .. Cardinality(T) : j < k => s[j] < s[k]
           unsorted == {n \in Nat : \E T \in SUBSET (1 .. N) :
                          Cardinality(T) = n /\ \A s : ~sorts(T, s)}
<1>1. \A T \in SUBSET (1 .. N) : IsFiniteSet(T) /\ Cardinality(T) \in Nat
  <2>1. IsFiniteSet(1 .. N)
    BY FS_Interval
  <2>2. QED BY <2>1, FS_Subset, FS_CardinalityType
<1>2. SUFFICES ASSUME unsorted # {} PROVE FALSE
  <2>1. \E s : sorts(S, s)
    BY <1>1, <1>2
  <2>2. QED BY <2>1
<1>3. PICK n \in unsorted : \A m \in unsorted : n <= m
  BY <1>2, LeastExists
<1>4. PICK T \in SUBSET (1 .. N) : Cardinality(T) = n /\ \A s : ~sorts(T, s)
  OBVIOUS
<1>5. T # {}
  <2>1. ASSUME T = {} PROVE FALSE
    <3>1. Cardinality(T) = 0
      BY <2>1, FS_EmptySet
    <3>2. sorts(T, [k \in 1 .. 0 |-> k])
      BY <2>1, <3>1
    <3>3. QED BY <1>4, <3>2
  <2>2. QED BY <2>1
<1>6. PICK m \in T : \A y \in T : y <= m
  <2>1. T \in SUBSET (0 .. N)
    OBVIOUS
  <2>2. QED BY <1>5, <2>1, GreatestExists
<1> DEFINE U == T \ {m}
<1>7. Cardinality(U) = n - 1 /\ n - 1 \in Nat /\ U \in SUBSET (1 .. N)
  <2>1. Cardinality(U) = n - 1
    BY <1>1, <1>4, <1>6, FS_RemoveElement
  <2>2. U \in SUBSET (1 .. N)
    OBVIOUS
  <2>3. QED BY <1>1, <2>1, <2>2
<1>8. PICK u : sorts(U, u)
  <2>1. n - 1 \notin unsorted
    BY <1>3, <1>7
  <2>2. QED BY <1>7, <2>1
<1> DEFINE s == [k \in 1 .. n |-> IF k = n THEN m ELSE u[k]]
<1>9. sorts(T, s)
  <2>1. n \in Nat /\ n > 0
    BY <1>7
  <2>2. \A k \in 1 .. n : s[k] \in T /\ (k # n => k \in 1 .. n - 1 /\ s[k] = u[k] /\ u[k] \in U)
    <3>1. ASSUME NEW k \in 1 .. n, k # n
          PROVE  k \in 1 .. n - 1 /\ s[k] = u[k] /\ u[k] \in U
      <4>1. k \in 1 .. n - 1
        BY <2>1, <3>1
      <4>2. u[k] \in U
        BY <1>7, <1>8, <4>1
      <4>3. QED BY <3>1, <4>1, <4>2
    <3>2. \A k \in 1 .. n : k = n => s[k] = m
      OBVIOUS
    <3>3. QED BY <3>1, <3>2
  <2>3. s \in [1 .. n -> T]
    BY <2>2
  <2>4. ASSUME NEW x \in T PROVE \E k \in 1 .. n : s[k] = x
    <3>1. CASE x = m
      BY <2>1, <3>1
    <3>2. CASE x # m
      <4>1. PICK k \in 1 .. n - 1 : u[k] = x
        BY <1>7, <1>8, <3>2
      <4>2. k \in 1 .. n /\ k # n
        BY <2>1
      <4>3. QED BY <4>1, <4>2
    <3>3. QED BY <3>1, <3>2
  <2>5. ASSUME NEW j \in 1 .. n, NEW k \in 1 .. n, j < k PROVE s[j] < s[k]
    <3>1. j # n /\ s[j] = u[j] /\ u[j] \in U /\ j \in 1 .. n - 1
      BY <2>1, <2>2, <2>5
    <3>2. CASE k = n
      <4>1. u[j] <= m /\ u[j] # m /\ u[j] \in 1 .. N /\ m \in 1 .. N
        BY <1>6, <3>1
      <4>2. QED BY <2>1, <3>1, <3>2, <4>1
    <3>3. CASE k # n
      BY <1>7, <1>8, <2>2, <2>5, <3>1, <3>3
    <3>4. QED BY <3>2, <3>3
  <2>6. QED BY <1>4, <2>3, <2>4, <2>5
<1>10. QED BY <1>4, <1>9

-----------------------------------------------------------------------------

(***************************************************************************)
(* Types.                                                                  *)
(***************************************************************************)
EndorsementNames == {"dd", "core", "add-edit", "entity-event", "rcf"}

CloudConfig ==
  [endorsement : EndorsementNames, version : Versions, mode : Modes, flags : SUBSET RunFlags,
   addressed : BOOLEAN]

Content == Nat \cup {Nothing}

RunResult ==
  {stopped} \cup
  [status : {"passed", "failed", "incomplete", "unwritten"}, valid : BOOLEAN,
   endorsement : EndorsementNames, version : Versions, mode : Modes, ran : Content,
   files : Content]

CloudEntries ==
  [refused : {FALSE}, endorsement : EndorsementNames, version : Versions, mode : Modes,
   flags : SUBSET RunFlags, files : Content]

Submitted == [id : Nat \ {0}, configs : UNION {[S -> CloudEntries] : S \in SUBSET DOMAIN entries}]

Service ==
  [reserved : Seq(SUBSET DOMAIN entries), open : SUBSET Nat, started : Seq(Submitted)]

Phases == {"options", "file", "run", "choose", "reserve", "check", "build", "done"}

(* What each variable may hold.                                            *)
CommandOK ==
  /\ caller \in Callers /\ endorsement \in Endorsements
  /\ entries \in Seq(FileEntries(endorsement)) /\ Len(entries) > 0
  /\ pc \in Phases /\ exitCode \in 0..2 /\ disk \in Nat

RunsOK ==
  /\ configs \in Seq(CloudConfig) /\ Len(configs) \in {0, Len(entries)}
  /\ results \in Seq(RunResult) /\ Len(results) <= Len(configs)

StartOK ==
  /\ left \in SUBSET DOMAIN results
  /\ group \in Seq(DOMAIN results)
  /\ reservation \in [DOMAIN entries -> Nat]
  /\ uploads \in [DOMAIN entries -> Content]
  /\ packed \in Content
  /\ built \in Seq(CloudEntries) /\ Len(built) <= Len(group)
  /\ said \in SUBSET [why : {"service", "refused", "changed"}, runs : SUBSET DOMAIN results]
  /\ service \in Service

TypeOK == CommandOK /\ RunsOK /\ StartOK

(***************************************************************************)
(* The inductive invariant.                                                *)
(***************************************************************************)
startsNow == pc \in {"check", "build"}

(* Before the runs are over nothing has been reserved, sent or said.       *)
quiet ==
  /\ left = {} /\ said = {} /\ service = emptyService
  /\ \A i \in DOMAIN entries : reservation[i] = 0 /\ uploads[i] = Nothing

PhaseInv ==
  /\ pc \in {"options", "file"} => configs = <<>> /\ results = <<>>
  /\ pc \in {"options", "file", "run"} => quiet /\ exitCode = 0
  /\ pc \notin {"options", "file", "done"} => configs # <<>>
  /\ pc \in {"choose", "reserve", "check", "build"} => Len(results) = Len(configs)
  /\ ~startsNow => group = <<>>
  /\ pc # "build" => built = <<>> /\ packed = Nothing
  /\ caller = "desktop" => left = {}
  /\ pc = "choose" => caller = "desktop" /\ said = {} /\ service.started = <<>>

(* A configuration is of the command's endorsement, and only an            *)
(* EntityEvent run has a mode.  What the CLI let through, it may start.    *)
ConfigInv ==
  /\ \A i \in DOMAIN configs :
       /\ configs[i].endorsement = endorsement
       /\ endorsement # "entity-event" => configs[i].mode = "unset"
       /\ caller = "cli" /\ endorsement = "entity-event" => configs[i].mode \in {"observe", "full"}
  /\ caller = "cli" /\ "start" \in given /\ (pc = "run" \/ results # <<>>) =>
       \A i \in DOMAIN configs : ~whyNoCloudRunBeforeRun(configs[i])

(* What a result records of the run of configuration c.                    *)
recordOf(c, r) ==
  /\ r.endorsement = c.endorsement /\ r.version = c.version /\ r.mode = modeOfRun(c)
  /\ r.files \in {r.ran, Nothing}
  /\ caller = "cli" \/ c.endorsement = "rcf" => r.files = r.ran
  /\ readsFiles(c) <=> r.ran # Nothing
  /\ readsFiles(c) /\ c.endorsement # "rcf" /\ "payloadsDir" \notin c.flags => r.ran = 0

ResultInv ==
  \A i \in DOMAIN results : results[i] # stopped => recordOf(configs[i], results[i])

(* The entry of run i says what that run was of.                           *)
faithful(i, e) ==
  /\ e.endorsement = results[i].endorsement
  /\ e.version = results[i].version
  /\ e.mode = results[i].mode
  /\ e.flags = configs[i].flags \cap {"noStrict"}
  /\ e.files = results[i].ran

BuildInv ==
  /\ pc = "build" => \A i \in members : check(i)
  /\ \A k \in DOMAIN built : faithful(group[k], built[k])
  /\ \A i \in DOMAIN uploads : uploads[i] # Nothing =>
       i \in DOMAIN results /\ uploads[i] = results[i].files
  /\ packed # Nothing => toBuild /\ needsUpload /\ packed = results[current].files
  /\ \A j, k \in DOMAIN group : group[j] = group[k] => j = k

(* A reservation names its run.  A run still to come has none, and each    *)
(* recorded request is of the runs that hold its reservation.              *)
ReservationInv ==
  /\ \A i \in DOMAIN entries : reservation[i] # 0 =>
       reservation[i] \in DOMAIN service.reserved /\ i \in service.reserved[reservation[i]]
  /\ \A i \in left : reservation[i] = 0
  /\ \A k \in DOMAIN service.started :
       LET sent == service.started[k] IN
       /\ sent.id \in DOMAIN service.reserved
       /\ \A i \in DOMAIN sent.configs :
            /\ i \in DOMAIN results /\ isSuccessfulRun(results[i])
            /\ reservation[i] = sent.id
            /\ faithful(i, sent.configs[i])
  /\ \A j, k \in DOMAIN service.started :
       service.started[j].id = service.started[k].id => j = k

(* The runs of a start come into its requests together: until all of them  *)
(* are built none is with the service, and a request holds every one that  *)
(* shares its reservation.                                                 *)
StartInv ==
  /\ left \cap members = {}
  /\ ~(pc = "build" /\ allBuilt) => \A i \in members : reservation[i] \notin startedIds
  /\ \A k \in DOMAIN service.started : \A i \in members :
       reservation[i] = service.started[k].id => i \in DOMAIN service.started[k].configs
  /\ \A s \in said : s.why \in {"refused", "changed"} =>
       s.runs \cap (left \cup members \cup startedRuns) = {}

(* The CLI: only what it offers is to be started, its checks are met, and  *)
(* its exit code accounts for every run that can be certified.             *)
CliInv ==
  caller = "cli" =>
    /\ left \subseteq offered
    /\ pc = "check" => \A i \in members : check(i)
    /\ "start" \notin given => service = emptyService /\ left = {} /\ ~startsNow
    /\ endorsement # "rcf" => \A s \in said : s.why = "service"
    /\ said # {} => exitCode = 2
    /\ pc = "reserve" \/ startsNow \/ (pc = "done" /\ exitCode # 2) =>
         /\ Len(results) = Len(configs) /\ configs # <<>>
         /\ exitCode = 0 => \A i \in DOMAIN results :
              \/ results[i].status = "passed"
              \/ endorsement = "rcf" /\ results[i].status = "unwritten"
         /\ exitCode = 1 => \E i \in DOMAIN results : results[i].status # "passed"
         /\ exitCode = 0 /\ "start" \in given => offered = left \cup members \cup startedRuns
    /\ pc = "done" => left = {} \/ exitCode = 2

IInv ==
  /\ TypeOK /\ PhaseInv /\ ConfigInv /\ ResultInv /\ BuildInv /\ ReservationInv /\ StartInv
  /\ CliInv

(***************************************************************************)
(* Lemmas about the operators.                                             *)
(***************************************************************************)
(* The runs of a group are put in order, each once.                        *)
LEMMA InOrder ==
  ASSUME NEW N \in Nat, NEW S \in SUBSET (1 .. N)
  PROVE  /\ inOrder(S) \in Seq(S) /\ Range(inOrder(S)) = S
         /\ \A j, k \in DOMAIN inOrder(S) : inOrder(S)[j] = inOrder(S)[k] => j = k
<1> DEFINE n == Cardinality(S)
<1>1. n \in Nat
  <2>1. IsFiniteSet(1 .. N)
    BY FS_Interval
  <2>2. QED BY <2>1, FS_Subset, FS_CardinalityType
<1>2. PICK s \in [1 .. n -> S] : /\ \A x \in S : \E k \in 1 .. n : s[k] = x
                               /\ \A j, k \in 1 .. n : j < k => s[j] < s[k]
  BY SortedExists
<1>3. Range(s) = S
  BY <1>2 DEF Range
<1>4. /\ inOrder(S) \in [1 .. n -> S] /\ Range(inOrder(S)) = S
      /\ \A j, k \in DOMAIN inOrder(S) : j < k => inOrder(S)[j] < inOrder(S)[k]
  BY <1>2, <1>3 DEF inOrder
<1>5. inOrder(S) \in Seq(S)
  BY <1>1, <1>4
<1>6. ASSUME NEW j \in DOMAIN inOrder(S), NEW k \in DOMAIN inOrder(S),
             inOrder(S)[j] = inOrder(S)[k]
      PROVE  j = k
  <2>1. j \in 1 .. n /\ k \in 1 .. n /\ inOrder(S)[j] \in 1 .. N
    BY <1>4
  <2>2. ~(j < k) /\ ~(k < j)
    BY <1>1, <1>4, <1>6, <2>1
  <2>3. QED BY <1>1, <2>1, <2>2
<1>7. QED BY <1>4, <1>5, <1>6

(* A configuration that is read is of the endorsement that runs.           *)
LEMMA ConfigIsRead ==
  ASSUME endorsement \in Endorsements, NEW f \in FileEntries(endorsement)
  PROVE  LET c == configOf(f) IN
         /\ c \in CloudConfig /\ c.endorsement = endorsement
         /\ endorsement # "entity-event" => c.mode = "unset"
         /\ endorsement = "entity-event" => c.mode \in {"observe", "full"}
<1>1. /\ f.version \in Versions
      /\ f.flags \subseteq RunFlags /\ f.addressed \in BOOLEAN
      /\ f = [version |-> f.version, mode |-> f.mode, flags |-> f.flags, addressed |-> f.addressed]
  BY CloudAssumption
<1>2. /\ endorsement # "entity-event" => f.mode = "unset"
      /\ endorsement = "entity-event" => f.mode \in {"unset", "observe", "full"}
      /\ endorsement \in EndorsementNames
  BY CloudAssumption, CertificationAssumption DEF Modes, EndorsementNames
<1>3. ASSUME NEW g, g.version \in Versions, g.mode = f.mode,
             g.flags \subseteq RunFlags, g.addressed \in BOOLEAN, endorsement # "rcf"
      PROVE  LET c == withFlags(endorsement, g, given) IN
             /\ c \in CloudConfig /\ c.endorsement = endorsement
             /\ endorsement # "entity-event" => c.mode = "unset"
             /\ endorsement = "entity-event" => c.mode \in {"observe", "full"}
  <2>1. CASE endorsement = "dd"
    <3> DEFINE version == IF "older" \in given THEN "older" ELSE coerceVersion(g.version)
               own == g.flags \cap {"limit", "noStrict"}
               flags == (IF "strict" \in given THEN own \ {"noStrict"} ELSE own)
                        \cup (given \cap {"limit", "noStrict", "skipVariations"})
    <3>1. withFlags(endorsement, g, given) =
            [endorsement |-> "dd", version |-> version, mode |-> "unset", flags |-> flags,
             addressed |-> g.addressed]
      BY <2>1 DEF withFlags, configEntryToDD
    <3>2. version \in Versions
      BY <1>3 DEF coerceVersion, Versions
    <3>3. flags \in SUBSET RunFlags
      BY DEF RunFlags
    <3> HIDE DEF version, flags
    <3>4. QED BY <1>3, <2>1, <3>1, <3>2, <3>3 DEF CloudConfig, EndorsementNames, Modes
  <2>2. CASE endorsement = "core"
    <3>1. withFlags(endorsement, g, given) = configEntryToCore(g)
      BY <2>2 DEF withFlags
    <3>2. coerceVersion(g.version) \in Versions
      BY <1>3 DEF coerceVersion, Versions
    <3>3. QED BY <1>3, <2>2, <3>1, <3>2 DEF configEntryToCore, CloudConfig, EndorsementNames, Modes
  <2>3. CASE endorsement = "add-edit"
    <3> DEFINE version == IF g.version = "unset" THEN "latest" ELSE g.version
               flags == (g.flags \cap PayloadFlags) \cup (given \cap {"autoPayloads"})
    <3>1. withFlags(endorsement, g, given) =
            [endorsement |-> "add-edit", version |-> version, mode |-> "unset", flags |-> flags,
             addressed |-> g.addressed]
      BY <2>3 DEF withFlags, configEntryToAddEdit
    <3>2. version \in Versions
      BY <1>3 DEF Versions
    <3>3. flags \in SUBSET RunFlags
      BY <1>3 DEF RunFlags, PayloadFlags
    <3> HIDE DEF version, flags
    <3>4. QED BY <1>3, <2>3, <3>1, <3>2, <3>3 DEF CloudConfig, EndorsementNames, Modes
  <2>4. CASE endorsement = "entity-event"
    <3> DEFINE own == configEntryToEntityEvent(g)
               asked == given \cap {"observe", "full"}
               mode == IF asked = {} THEN own.mode ELSE CHOOSE x \in asked : TRUE
    <3>1. withFlags(endorsement, g, given) = [own EXCEPT !.mode = mode]
      BY <2>4, Zenon DEF withFlags
    <3>2. own.mode \in {"observe", "full"}
      BY <1>2, <1>3, <2>4 DEF configEntryToEntityEvent
    <3>3. mode \in {"observe", "full"}
      BY <3>2
    <3> HIDE DEF mode
    <3>4. QED BY <1>3, <2>4, <3>1, <3>3
             DEF configEntryToEntityEvent, CloudConfig, EndorsementNames, Modes, Versions
  <2>5. QED BY <1>2, <1>3, <2>1, <2>2, <2>3, <2>4 DEF EndorsementNames
<1>4. CASE endorsement = "rcf"
  <2>1. configOf(f) = rcfConfig(f)
    BY <1>4 DEF configOf
  <2>2. coerceVersion(f.version) \in Versions
    BY <1>1 DEF coerceVersion, Versions
  <2>3. ("config" \in given /\ f.addressed) \in BOOLEAN
    BY <1>1
  <2>4. given \cap {"noSchemaValidation", "skipVariations"} \in SUBSET RunFlags
    BY DEF RunFlags
  <2>5. QED BY <1>4, <2>1, <2>2, <2>3, <2>4 DEF rcfConfig, CloudConfig, EndorsementNames, Modes
<1>5. CASE endorsement # "rcf" /\ "config" \in given
  BY <1>1, <1>3, <1>5 DEF configOf
<1>6. CASE endorsement # "rcf" /\ "config" \notin given
  <2> DEFINE g == [f EXCEPT !.addressed = FALSE]
             c == withFlags(endorsement, g, given)
  <2>0. g.version = f.version /\ g.mode = f.mode /\ g.flags = f.flags /\ g.addressed = FALSE
    BY <1>1
  <2> HIDE DEF g
  <2>1. configOf(f) \in {c, [c EXCEPT !.flags = @ \cup {"autoPayloads"}]}
    BY <1>6 DEF configOf, directConfig, g
  <2>2. /\ c \in CloudConfig /\ c.endorsement = endorsement
        /\ endorsement # "entity-event" => c.mode = "unset"
        /\ endorsement = "entity-event" => c.mode \in {"observe", "full"}
    BY <1>1, <1>3, <1>6, <2>0
  <2> HIDE DEF c
  <2>3. CASE configOf(f) = c
    BY <2>2, <2>3
  <2>4. CASE configOf(f) = [c EXCEPT !.flags = @ \cup {"autoPayloads"}]
    <3>1. c.flags \cup {"autoPayloads"} \in SUBSET RunFlags
      BY <2>2 DEF CloudConfig, RunFlags, PayloadFlags
    <3>2. QED BY <2>2, <2>4, <3>1 DEF CloudConfig
  <2>5. QED BY <2>1, <2>3, <2>4
<1>7. QED BY <1>4, <1>5, <1>6

(* A run that does not stop records which run it was.                      *)
LEMMA ResultIsRecorded ==
  ASSUME NEW c \in CloudConfig, disk \in Nat, NEW r \in resultsOf(c)
  PROVE  r \in RunResult /\ (r # stopped => recordOf(c, r))
<1>1. CASE r = stopped
  BY <1>1 DEF RunResult
<1>2. CASE r # stopped
  <2> DEFINE certifies == validForCertification(c, stepsOf(c))
  <2>1. certifies \in BOOLEAN
    BY DEF validForCertification, ddValidForCertification, coreValidForCertification,
           addEditValidForCertification, entityEventValidForCertification,
           rcfValidForCertification, CloudConfig, EndorsementNames, versionCertifies
  <2>2. PICK status \in {"passed", "failed", "incomplete", "unwritten"}, valid \in BOOLEAN,
             recorded \in BOOLEAN :
          /\ r = result(c, status, valid, recorded)
          /\ (caller = "desktop" /\ c.endorsement = "add-edit") \/ recorded = TRUE
    <3> DEFINE recorders == IF caller = "desktop" /\ c.endorsement = "add-edit" THEN BOOLEAN ELSE {TRUE}
               values == {FALSE, certifies}
               fell == {result(c, s, FALSE, TRUE) : s \in {"failed", "incomplete", "unwritten"}}
               went == {result(c, "passed", v, recorded) : v \in values, recorded \in recorders}
    <3>1. resultsOf(c) = {stopped} \cup fell
            \cup (IF c.endorsement = "add-edit" /\ c.flags \cap PayloadFlags = {} THEN {} ELSE went)
      BY DEF resultsOf
    <3>2. CASE r \in fell
      BY <3>2
    <3>3. CASE r \in went
      <4>1. recorders \subseteq BOOLEAN /\ \A x \in recorders :
               (caller = "desktop" /\ c.endorsement = "add-edit") \/ x = TRUE
        OBVIOUS
      <4>0. values \subseteq BOOLEAN
        BY <2>1
      <4> HIDE DEF recorders, values
      <4>2. PICK v \in values, x \in recorders : r = result(c, "passed", v, x)
        BY <3>3
      <4>3. QED BY <4>0, <4>1, <4>2
    <3> HIDE DEF fell, went
    <3>4. QED BY <1>2, <3>1, <3>2, <3>3
  <2>3. readFrom(c, disk) \in Nat
    BY DEF readFrom
  <2>4. modeOfRun(c) \in Modes
    BY DEF modeOfRun, CloudConfig, Modes
  <2>5. r \in RunResult
    BY <2>2, <2>3, <2>4 DEF result, RunResult, CloudConfig, Content
  <2>6. recordOf(c, r)
    <3>1. Nothing \notin Nat
      BY DEF Nothing
    <3>2. readsFiles(c) /\ c.endorsement # "rcf" /\ "payloadsDir" \notin c.flags => readFrom(c, disk) = 0
      BY DEF readFrom
    <3>3. c.endorsement = "rcf" => readsFiles(c)
      BY DEF readsFiles
    <3>4. recorded = TRUE \/ ~(caller = "cli" \/ c.endorsement = "rcf")
      BY <2>2
    <3>5. QED BY <2>2, <2>3, <3>1, <3>2, <3>3, <3>4 DEF result, recordOf
  <2>7. QED BY <2>5, <2>6
<1>3. QED BY <1>1, <1>2

(* An entry that is not refused says what its run was of.                  *)
LEMMA EntryIsFaithful ==
  ASSUME NEW c \in CloudConfig, NEW r, r \in RunResult, r # stopped, recordOf(c, r),
         c.endorsement # "entity-event" => c.mode = "unset",
         NEW upload, upload \in {Nothing, r.files},
         ~cloudEntryOf(c, r, upload, disk).refused
  PROVE  LET e == cloudEntryOf(c, r, upload, disk) IN
         /\ e \in CloudEntries
         /\ e.endorsement = r.endorsement /\ e.version = r.version /\ e.mode = r.mode
         /\ e.flags = c.flags \cap {"noStrict"} /\ e.files = r.ran
<1> DEFINE e == cloudEntryOf(c, r, upload, disk)
<1>1. e # Refused /\ ~pairingRefusal(c, r) /\ c.addressed
  <2>1. e # Refused
    BY DEF Refused
  <2>2. QED BY <2>1 DEF cloudEntryOf
<1>2. ASSUME NEW mode \in Modes, NEW files \in Content
      PROVE  /\ entry(c, mode, files) \in CloudEntries
             /\ entry(c, mode, files).endorsement = c.endorsement
             /\ entry(c, mode, files).version = c.version
             /\ entry(c, mode, files).mode = mode
             /\ entry(c, mode, files).flags = c.flags \cap {"noStrict"}
             /\ entry(c, mode, files).files = files
  BY DEF entry, CloudEntries, CloudConfig
<1>3. SUFFICES \E mode \in Modes, files \in Content :
                 e = entry(c, mode, files) /\ mode = r.mode /\ files = r.ran
  BY <1>2 DEF recordOf
<1>4. /\ r.mode \in Modes /\ r.ran \in Content /\ r.files \in Content
      /\ Nothing \in Content /\ 0 \in Content
  BY DEF RunResult, Content
<1>5. CASE c.endorsement = "core" \/ c.endorsement = "dd"
  <2>1. e = entry(c, "unset", Nothing)
    BY <1>1, <1>5 DEF cloudEntryOf
  <2>2. r.mode = "unset" /\ r.ran = Nothing
    BY <1>5 DEF recordOf, modeOfRun, readsFiles
  <2>3. QED BY <1>4, <2>1, <2>2
<1>6. CASE c.endorsement = "add-edit"
  <2>1. e = addEditPayloadsOf(c, r, disk)
    BY <1>1, <1>6 DEF cloudEntryOf
  <2>2. r.mode = "unset" /\ readsFiles(c)
    BY <1>1, <1>6, <2>1 DEF recordOf, modeOfRun, readsFiles, addEditPayloadsOf
  <2>3. CASE r.files # Nothing
    <3>1. e = entry(c, "unset", r.files) /\ r.files = r.ran
      BY <1>1, <2>1, <2>3 DEF addEditPayloadsOf, recordOf
    <3>2. QED BY <1>4, <2>2, <3>1
  <2>4. CASE r.files = Nothing
    <3>1. e = entry(c, "unset", 0) /\ "payloadsDir" \notin c.flags
      BY <1>1, <2>1, <2>4 DEF addEditPayloadsOf
    <3>2. r.ran = 0
      BY <1>6, <2>2, <3>1 DEF recordOf
    <3>3. QED BY <1>4, <2>2, <3>1, <3>2
  <2>5. QED BY <2>3, <2>4
<1>7. CASE c.endorsement = "entity-event"
  <2>1. e = entry(c, entityEventModeOf(c, r), Nothing)
    BY <1>1, <1>7 DEF cloudEntryOf, entityEventCloudEntryOf
  <2>2. r.mode # "unset" /\ r.ran = Nothing
    BY <1>7 DEF recordOf, modeOfRun, readsFiles
  <2>3. entityEventModeOf(c, r) = r.mode
    BY <2>2 DEF entityEventModeOf
  <2>4. QED BY <1>4, <2>1, <2>2, <2>3
<1>8. CASE c.endorsement = "rcf"
  <2>1. e = entry(c, "unset", upload) /\ upload # Nothing
    BY <1>1, <1>8 DEF cloudEntryOf
  <2>2. upload = r.ran /\ r.mode = "unset"
    BY <1>8, <2>1 DEF recordOf, modeOfRun
  <2>3. QED BY <1>4, <2>1, <2>2
<1>9. QED BY <1>5, <1>6, <1>7, <1>8 DEF CloudConfig, EndorsementNames

(* The checks before a run and those at its end agree.                     *)
LEMMA ChecksAgree ==
  ASSUME NEW c \in CloudConfig, disk \in Nat, caller = "cli",
         c.endorsement = "entity-event" => c.mode \in {"observe", "full"},
         c.endorsement # "rcf" \/ versionCertifies(c)
  PROVE  couldStart(c) = ~whyNoCloudRunBeforeRun(c)
<1> DEFINE certifies == validForCertification(c, stepsOf(c))
           r == result(c, "passed", TRUE, TRUE)
           pays == ~(c.endorsement = "add-edit" /\ c.flags \cap PayloadFlags = {})
           goes == hasRecord(c, r) /\ ~cloudEntryOf(c, r, r.ran, disk).refused
<1>0. SUFFICES couldStart(c) <=> ~whyNoCloudRunBeforeRun(c)
  BY DEF couldStart, whyNoCloudRunBeforeRun
<1>1. couldStart(c) <=> pays /\ certifies /\ goes
  <2>1. \A x \in resultsOf(c) : isSuccessfulRun(x) => pays /\ certifies /\ x = r
    BY DEF resultsOf, isSuccessfulRun, result, stopped
  <2>2. pays /\ certifies => r \in resultsOf(c) /\ isSuccessfulRun(r)
    BY DEF resultsOf, isSuccessfulRun, result
  <2>3. QED BY <2>1, <2>2 DEF couldStart
<1>2. /\ r.endorsement = c.endorsement /\ r.mode = modeOfRun(c)
      /\ r.ran = (IF readsFiles(c) THEN readFrom(c, disk) ELSE Nothing) /\ r.files = r.ran
  BY DEF result
<1>3. readFrom(c, disk) # Nothing
  BY DEF readFrom, Nothing
<1>4. \A mode, files : ~entry(c, mode, files).refused
  BY DEF entry
<1>5. CASE c.endorsement = "dd"
  <2>1. certifies <=> /\ "skipVariations" \notin c.flags /\ versionCertifies(c)
                      /\ c.flags \cap {"noStrict", "limit"} = {}
    BY <1>5 DEF validForCertification, ddValidForCertification, everyStepPassed, stepsOf
  <2>2. goes <=> c.addressed /\ "limit" \notin c.flags
    BY <1>2, <1>4, <1>5 DEF hasRecord, pairingRefusal, cloudEntryOf, ddSampleLimitRefusal, Refused
  <2>3. whyNoCloudRunBeforeRun(c) <=>
          \/ ~c.addressed \/ ~versionCertifies(c) \/ c.flags \cap {"noStrict", "skipVariations"} # {}
          \/ "limit" \in c.flags
    BY <1>5 DEF whyNoCloudRunBeforeRun, uncertifiableBeforeRun, ddSampleLimitRefusal
  <2>4. pays
    BY <1>5
  <2>5. QED BY <1>1, <2>1, <2>2, <2>3, <2>4
<1>6. CASE c.endorsement = "core"
  <2>1. certifies <=> versionCertifies(c)
    BY <1>6 DEF validForCertification, coreValidForCertification, everyStepPassed, stepsOf
  <2>2. goes <=> c.addressed
    BY <1>2, <1>4, <1>6 DEF hasRecord, pairingRefusal, cloudEntryOf
  <2>3. whyNoCloudRunBeforeRun(c) <=> ~c.addressed \/ ~versionCertifies(c)
    BY <1>6 DEF whyNoCloudRunBeforeRun, uncertifiableBeforeRun
  <2>4. QED BY <1>1, <1>6, <2>1, <2>2, <2>3
<1>7. CASE c.endorsement = "add-edit"
  <2>1. certifies <=> versionCertifies(c)
    BY <1>7 DEF validForCertification, addEditValidForCertification, everyStepPassed, stepsOf
  <2>2. goes <=> c.addressed /\ "autoPayloads" \notin c.flags
    BY <1>2, <1>3, <1>4, <1>7
       DEF hasRecord, pairingRefusal, cloudEntryOf, addEditPayloadsOf, readsFiles, Refused
  <2>3. whyNoCloudRunBeforeRun(c) <=>
          \/ ~c.addressed \/ ~versionCertifies(c) \/ "autoPayloads" \in c.flags
          \/ c.flags \cap PayloadFlags = {}
    BY <1>7 DEF whyNoCloudRunBeforeRun, uncertifiableBeforeRun
  <2>4. QED BY <1>1, <1>7, <2>1, <2>2, <2>3
<1>8. CASE c.endorsement = "entity-event"
  <2>1. certifies <=> c.mode = "full"
    BY <1>8 DEF validForCertification, entityEventValidForCertification, everyStepPassed, stepsOf
  <2>2. goes <=> c.addressed /\ ~(c.mode = "full" /\ "payloadsDir" \in c.flags)
    BY <1>2, <1>4, <1>8
       DEF hasRecord, pairingRefusal, cloudEntryOf, entityEventCloudEntryOf, entityEventModeOf,
           modeOfRun, Refused
  <2>3. whyNoCloudRunBeforeRun(c) <=>
          ~c.addressed \/ c.mode # "full" \/ (c.mode = "full" /\ "payloadsDir" \in c.flags)
    BY <1>8 DEF whyNoCloudRunBeforeRun, uncertifiableBeforeRun
  <2>4. QED BY <1>1, <1>8, <2>1, <2>2, <2>3
<1>9. CASE c.endorsement = "rcf"
  <2>1. certifies <=> c.flags \cap {"noSchemaValidation", "skipVariations"} = {}
    BY <1>9 DEF validForCertification, rcfValidForCertification, everyStepPassed, stepsOf
  <2>2. goes <=> c.addressed
    <3>1. r.files # Nothing /\ r.ran # Nothing
      <4>1. readsFiles(c)
        BY <1>9 DEF readsFiles
      <4> HIDE DEF r
      <4>2. r.ran = readFrom(c, disk)
        BY <1>2, <4>1
      <4>3. QED BY <1>2, <1>3, <4>2
    <3>2. hasRecord(c, r) <=> c.addressed
      BY <1>2, <1>9, <3>1 DEF hasRecord, pairingRefusal
    <3>3. c.addressed => cloudEntryOf(c, r, r.ran, disk) = entry(c, "unset", r.ran)
      BY <1>2, <1>9, <3>1 DEF pairingRefusal, cloudEntryOf
    <3>4. QED BY <1>4, <3>2, <3>3
  <2>3. whyNoCloudRunBeforeRun(c) <=>
          ~c.addressed \/ c.flags \cap {"noSchemaValidation", "skipVariations"} # {}
    BY <1>9 DEF whyNoCloudRunBeforeRun, uncertifiableBeforeRun
  <2>4. QED BY <1>1, <1>9, <2>1, <2>2, <2>3
<1>10. QED BY <1>5, <1>6, <1>7, <1>8, <1>9 DEF CloudConfig, EndorsementNames

(* What the CLI lets through is not refused at the end.                    *)
LEMMA LateIsNotRefused ==
  ASSUME NEW c \in CloudConfig, NEW r, r # stopped, recordOf(c, r), caller = "cli",
         ~whyNoCloudRunBeforeRun(c)
  PROVE  /\ hasRecord(c, r)
         /\ \A upload : c.endorsement # "rcf" => ~cloudEntryOf(c, r, upload, disk).refused
<1>1. c.addressed /\ ~pairingRefusal(c, r) /\ (c.endorsement = "rcf" => r.files # Nothing)
  BY DEF whyNoCloudRunBeforeRun, pairingRefusal, recordOf, readsFiles
<1>2. \A mode, files : ~entry(c, mode, files).refused
  BY DEF entry
<1>3. ASSUME NEW upload, c.endorsement # "rcf"
      PROVE  ~cloudEntryOf(c, r, upload, disk).refused
  <2>1. CASE c.endorsement = "core" \/ c.endorsement = "dd"
    BY <1>1, <1>2, <2>1 DEF cloudEntryOf, whyNoCloudRunBeforeRun, uncertifiableBeforeRun
  <2>2. CASE c.endorsement = "add-edit"
    <3>1. "autoPayloads" \notin c.flags
      BY <2>2 DEF whyNoCloudRunBeforeRun, uncertifiableBeforeRun
    <3>2. r.files # Nothing
      BY <2>2, <3>1 DEF recordOf, readsFiles
    <3>3. QED BY <1>1, <1>2, <2>2, <3>1, <3>2 DEF cloudEntryOf, addEditPayloadsOf
  <2>3. CASE c.endorsement = "entity-event"
    <3>1. c.mode = "full" /\ "payloadsDir" \notin c.flags
      BY <2>3 DEF whyNoCloudRunBeforeRun, uncertifiableBeforeRun
    <3>2. QED BY <1>1, <1>2, <2>3, <3>1 DEF cloudEntryOf, entityEventCloudEntryOf
  <2>4. QED BY <1>3, <2>1, <2>2, <2>3 DEF CloudConfig, EndorsementNames
<1>4. QED BY <1>1, <1>3 DEF hasRecord

(***************************************************************************)
(* What a step leaves alone.                                               *)
(***************************************************************************)
LEMMA SameRuns ==
  ASSUME UNCHANGED <<configs, results>>
  PROVE  /\ offered' = offered
         /\ \A i : isOffered(i)' <=> isOffered(i)
         /\ \A i, e : faithful(i, e)' <=> faithful(i, e)
  BY DEF offered, isOffered, faithful

LEMMA SameStarting ==
  ASSUME StartOK, UNCHANGED <<command, results, starting>>
  PROVE  StartOK'
  BY DEF StartOK, command, starting, Service, Submitted

LEMMA SameConfigs ==
  ASSUME ConfigInv, UNCHANGED <<command, configs, results>>, pc' = "run" => pc = "run"
  PROVE  ConfigInv'
  BY DEF ConfigInv, command

LEMMA SameResults ==
  ASSUME ResultInv, UNCHANGED <<command, configs, results>>
  PROVE  ResultInv'
  BY DEF ResultInv, recordOf, command

LEMMA SameBuild ==
  ASSUME BuildInv, UNCHANGED <<command, configs, results, group, reservation, uploads, packed, built>>,
         pc' = "build" => pc = "build"
  PROVE  BuildInv'
<1>1. \A i : check(i)' <=> check(i)
  BY SameRuns DEF check, isOffered
<1>2. QED BY <1>1, SameRuns DEF BuildInv, members, toBuild, needsUpload, current, Range, command

LEMMA SameReservations ==
  ASSUME ReservationInv, UNCHANGED <<command, configs, results, reservation>>,
         left' \subseteq left, UNCHANGED <<service.reserved, service.started>>
  PROVE  ReservationInv'
  BY SameRuns DEF ReservationInv, command

LEMMA SameStart ==
  ASSUME StartInv, UNCHANGED <<left, group, reservation, built, said, service.started>>,
         pc' = "build" /\ allBuilt <=> pc = "build" /\ allBuilt
  PROVE  StartInv'
  BY DEF StartInv, members, Range, allBuilt, startedIds, startedRuns

(***************************************************************************)
(* The steps up to the end of the local runs.                              *)
(***************************************************************************)
LEMMA EarlyQuiet ==
  ASSUME IInv, pc \in {"options", "file", "run"}
  PROVE  /\ left = {} /\ said = {} /\ group = <<>> /\ built = <<>> /\ packed = Nothing
         /\ service = emptyService /\ exitCode = 0
         /\ reservation = [i \in DOMAIN entries |-> 0]
         /\ uploads = [i \in DOMAIN entries |-> Nothing]
  BY DEF IInv, TypeOK, CommandOK, RunsOK, StartOK, PhaseInv, quiet, startsNow

(* While nothing is reserved, sent or said, the last four parts hold.      *)
LEMMA QuietStep ==
  ASSUME IInv, pc \in {"options", "file", "run"}, UNCHANGED <<entries, starting>>,
         pc' \in {"options", "file", "run", "done"},
         pc' = "done" => exitCode' = 2
  PROVE  BuildInv' /\ ReservationInv' /\ StartInv' /\ CliInv'
<1>1. /\ left' = {} /\ said' = {} /\ group' = <<>> /\ built' = <<>> /\ packed' = Nothing
      /\ service' = emptyService
      /\ reservation' = [i \in DOMAIN entries' |-> 0]
      /\ uploads' = [i \in DOMAIN entries' |-> Nothing]
  BY EarlyQuiet DEF starting
<1>2. members' = {}
  BY <1>1 DEF members, Range
<1>3. BuildInv'
  BY <1>1, <1>2 DEF BuildInv
<1>4. ReservationInv'
  BY <1>1 DEF ReservationInv, emptyService
<1>5. StartInv'
  BY <1>1, <1>2 DEF StartInv, emptyService
<1>6. CliInv'
  BY <1>1, <1>2 DEF CliInv, startsNow
<1>7. QED BY <1>3, <1>4, <1>5, <1>6

LEMMA CheckOptionsStep == ASSUME IInv, CheckOptions PROVE IInv'
<1>1. /\ pc = "options" /\ UNCHANGED <<command, configs, results, starting, disk>>
      /\ \/ pc' = "done" /\ exitCode' = 2
         \/ pc' = "file" /\ exitCode' = exitCode
  BY DEF CheckOptions, at, goTo, fail
<1>2. TypeOK'
  BY <1>1, SameStarting DEF IInv, TypeOK, CommandOK, RunsOK, command, Phases
<1>3. PhaseInv'
  BY <1>1, EarlyQuiet DEF IInv, PhaseInv, starting, command, quiet, startsNow
<1>4. ConfigInv' /\ ResultInv'
  BY <1>1, SameConfigs, SameResults DEF IInv
<1>5. QED BY <1>1, <1>2, <1>3, <1>4, QuietStep DEF IInv, command

LEMMA ReadConfigStep == ASSUME IInv, ReadConfig PROVE IInv'
<1>1. /\ pc = "file" /\ UNCHANGED <<command, results, starting, disk>>
      /\ configs' = [i \in DOMAIN entries |-> configOf(entries[i])]
      /\ \/ pc' = "done" /\ exitCode' = 2
         \/ pc' = "run" /\ exitCode' = exitCode /\ ~entriesRefusedBeforeRun(configs')
  BY DEF ReadConfig, at, goTo, fail
<1>2. results = <<>> /\ DOMAIN entries = 1 .. Len(entries) /\ Len(entries) \in Nat \ {0}
  BY <1>1 DEF IInv, TypeOK, CommandOK, RunsOK, StartOK, PhaseInv
<1>3. \A i \in DOMAIN entries :
        /\ configOf(entries[i]) \in CloudConfig /\ configOf(entries[i]).endorsement = endorsement
        /\ endorsement # "entity-event" => configOf(entries[i]).mode = "unset"
        /\ endorsement = "entity-event" => configOf(entries[i]).mode \in {"observe", "full"}
  BY <1>2, ConfigIsRead DEF IInv, TypeOK, CommandOK, RunsOK, StartOK
<1>4. configs' \in Seq(CloudConfig) /\ Len(configs') = Len(entries) /\ configs' # <<>>
  <2>1. configs' \in [1 .. Len(entries) -> CloudConfig]
    BY <1>1, <1>2, <1>3
  <2>2. QED BY <1>2, <2>1
<1>5. TypeOK'
  BY <1>1, <1>2, <1>4, SameStarting
     DEF IInv, TypeOK, CommandOK, RunsOK, command, Phases
<1>6. PhaseInv'
  BY <1>1, <1>4, EarlyQuiet DEF IInv, PhaseInv, starting, command, quiet, startsNow
<1>7. ConfigInv'
  BY <1>1, <1>2, <1>3 DEF ConfigInv, command, entriesRefusedBeforeRun
<1>8. ResultInv'
  BY <1>1, <1>2 DEF ResultInv
<1>9. QED BY <1>1, <1>5, <1>6, <1>7, <1>8, QuietStep DEF IInv, command

LEMMA OpenStep == ASSUME IInv, Open PROVE IInv'
<1>1. /\ pc = "options" /\ pc' = "run" /\ caller = "desktop"
      /\ UNCHANGED <<command, results, exitCode, starting, disk>>
  BY DEF Open, at, goTo
<1>2. results = <<>> /\ DOMAIN entries = 1 .. Len(entries) /\ Len(entries) \in Nat \ {0}
  BY <1>1 DEF IInv, TypeOK, CommandOK, RunsOK, StartOK, PhaseInv
<1>3. ASSUME NEW i \in DOMAIN entries
      PROVE  /\ configs'[i] \in CloudConfig /\ configs'[i].endorsement = endorsement
             /\ endorsement # "entity-event" => configs'[i].mode = "unset"
  <2>1. /\ entries[i].version \in Versions /\ entries[i].flags \in SUBSET RunFlags
        /\ entries[i].addressed \in BOOLEAN
    BY <1>2, CloudAssumption DEF IInv, TypeOK, CommandOK, RunsOK, StartOK
  <2>2. /\ endorsement # "entity-event" => entries[i].mode = "unset"
        /\ entries[i].mode \in Modes
        /\ endorsement \in EndorsementNames
    BY <1>2, CloudAssumption, CertificationAssumption DEF IInv, TypeOK, CommandOK, RunsOK, StartOK, Modes, EndorsementNames
  <2>3. coerceVersion(entries[i].version) \in Versions
    BY <2>1 DEF coerceVersion, Versions
  <2>4. QED BY <2>1, <2>2, <2>3 DEF Open, CloudConfig
<1>4. configs' \in Seq(CloudConfig) /\ Len(configs') = Len(entries) /\ configs' # <<>>
      /\ DOMAIN configs' = DOMAIN entries
  <2>1. configs' \in [1 .. Len(entries) -> CloudConfig]
    BY <1>2, <1>3 DEF Open
  <2>2. QED BY <1>2, <2>1
<1>5. TypeOK'
  BY <1>1, <1>2, <1>4, SameStarting
     DEF IInv, TypeOK, CommandOK, RunsOK, command, Phases
<1>6. PhaseInv'
  BY <1>1, <1>4, EarlyQuiet DEF IInv, PhaseInv, starting, command, quiet, startsNow
<1>7. ConfigInv'
  BY <1>1, <1>3, <1>4 DEF ConfigInv, command
<1>8. ResultInv'
  BY <1>1, <1>2 DEF ResultInv
<1>9. QED BY <1>1, <1>5, <1>6, <1>7, <1>8, QuietStep DEF IInv, command

LEMMA RunEntryStep == ASSUME IInv, RunEntry PROVE IInv'
<1> DEFINE n == Len(results) + 1
<1>1. PICK r \in resultsOf(configs[n]) :
        /\ pc = "run" /\ Len(results) < Len(configs) /\ results' = Append(results, r)
        /\ UNCHANGED <<command, pc, configs, exitCode, starting, disk>>
  BY DEF RunEntry, at
<1>2. /\ configs \in Seq(CloudConfig) /\ results \in Seq(RunResult) /\ disk \in Nat
      /\ n \in 1 .. Len(configs) /\ configs[n] \in CloudConfig
  BY <1>1 DEF IInv, TypeOK, CommandOK, RunsOK, StartOK
<1>3. r \in RunResult /\ (r # stopped => recordOf(configs[n], r))
  BY <1>1, <1>2, ResultIsRecorded
<1>4. /\ results' \in Seq(RunResult) /\ Len(results') = n /\ DOMAIN results' = 1 .. n
      /\ \A i \in DOMAIN results : results'[i] = results[i] /\ i \in 1 .. n
      /\ results'[n] = r /\ \A i \in DOMAIN results' : i = n \/ i \in DOMAIN results
  BY <1>1, <1>2, <1>3
<1>5. TypeOK'
  <2>1. left' \in SUBSET DOMAIN results' /\ group' \in Seq(DOMAIN results') /\ said' = {}
    BY <1>1, EarlyQuiet DEF starting
  <2>2. QED BY <1>1, <1>2, <1>4, <2>1
        DEF IInv, TypeOK, CommandOK, RunsOK, StartOK, command, starting, Phases, Service, Submitted, Content
<1>6. PhaseInv'
  BY <1>1, EarlyQuiet DEF IInv, PhaseInv, starting, command, quiet, startsNow
<1>7. ConfigInv'
  BY <1>1 DEF IInv, ConfigInv, command
<1>8. ResultInv'
  <2>1. \A c, x : recordOf(c, x)' <=> recordOf(c, x)
    BY <1>1 DEF recordOf, command
  <2>2. QED BY <1>1, <1>3, <1>4, <2>1 DEF IInv, ResultInv
<1>9. QED BY <1>1, <1>5, <1>6, <1>7, <1>8, QuietStep DEF IInv, command

(* The exit code says what the runs came to.                               *)
LEMMA ExitCodes ==
  ASSUME IInv, Len(results) = Len(configs), NEW code \in resolveExitCode
  PROVE  /\ code \in 0 .. 2
         /\ code = 0 => \A i \in DOMAIN results :
              \/ results[i].status = "passed"
              \/ endorsement = "rcf" /\ results[i].status = "unwritten"
         /\ code = 1 => \E i \in DOMAIN results : results[i].status # "passed"
<1>1. \A i \in DOMAIN results :
        results[i].status \in {"stopped", "passed", "failed", "incomplete", "unwritten"}
  BY DEF IInv, TypeOK, CommandOK, RunsOK, StartOK, RunResult, stopped
<1>2. CASE endorsement = "rcf"
  <2>1. code \in IF someResult({"stopped", "failed", "incomplete"}) THEN {1, 2} ELSE {0}
    BY <1>2 DEF resolveExitCode, rcfExitCodes
  <2>2. QED BY <1>1, <1>2, <2>1 DEF someResult
<1>3. CASE endorsement # "rcf"
  <2>1. code = IF someResult({"stopped"}) THEN 2
               ELSE IF someResult({"failed", "unwritten", "incomplete"}) THEN 1 ELSE 0
    BY <1>3 DEF resolveExitCode
  <2>2. QED BY <1>1, <1>3, <2>1 DEF someResult
<1>4. QED BY <1>2, <1>3

LEMMA FinishRunsStep == ASSUME IInv, FinishRuns PROVE IInv'
<1>1. /\ pc = "run" /\ Len(results) = Len(configs)
      /\ exitCode' \in IF caller = "cli" THEN resolveExitCode ELSE {0}
      /\ \/ caller = "desktop" /\ pc' = "choose" /\ left' = left
         \/ /\ caller = "cli" /\ pc' = "reserve"
            /\ left' = IF "start" \in given THEN offered ELSE {}
      /\ UNCHANGED <<command, configs, results, group, reservation, uploads, packed, built, said,
                     service, disk>>
  BY DEF FinishRuns, at, goTo, IInv, TypeOK, CommandOK, RunsOK, StartOK, Callers
<1>2. /\ left = {} /\ said = {} /\ group = <<>> /\ built = <<>> /\ packed = Nothing
      /\ service = emptyService
      /\ reservation = [i \in DOMAIN entries |-> 0]
      /\ uploads = [i \in DOMAIN entries |-> Nothing]
  BY <1>1, EarlyQuiet
<1>3. left' \subseteq DOMAIN results /\ exitCode' \in 0 .. 2 /\ pc' \in Phases
  BY <1>1, <1>2, ExitCodes DEF offered, Phases
<1>4. TypeOK'
  BY <1>1, <1>3 DEF IInv, TypeOK, CommandOK, RunsOK, StartOK, command, Service, Submitted, Content
<1>5. PhaseInv'
  BY <1>1, <1>2 DEF IInv, PhaseInv, command, startsNow, emptyService
<1>6. ConfigInv' /\ ResultInv'
  BY <1>1, SameConfigs, SameResults DEF IInv
<1>7. members' = {}
  BY <1>1, <1>2 DEF members, Range
<1>8. BuildInv'
  BY <1>1, SameBuild DEF IInv
<1>9. ReservationInv'
  <2>1. left' \subseteq DOMAIN entries
    BY <1>1, <1>3 DEF IInv, TypeOK, CommandOK, RunsOK, StartOK
  <2>2. QED BY <1>1, <1>2, <2>1 DEF ReservationInv, emptyService, command
<1>10. StartInv'
  BY <1>1, <1>2, <1>7 DEF StartInv, emptyService
<1>11. CliInv'
  <2>1. SUFFICES ASSUME caller = "cli" PROVE CliInv'
    BY <1>1 DEF CliInv, command
  <2>2. offered' = offered /\ left' \subseteq offered'
    BY <1>1, <2>1, SameRuns DEF offered
  <2>3. startedRuns' = {}
    BY <1>1, <1>2 DEF startedRuns, emptyService
  <2>4. configs # <<>>
    BY <1>1 DEF IInv, PhaseInv
  <2>5. /\ exitCode' = 0 => \A i \in DOMAIN results :
             \/ results[i].status = "passed"
             \/ endorsement = "rcf" /\ results[i].status = "unwritten"
        /\ exitCode' = 1 => \E i \in DOMAIN results : results[i].status # "passed"
    BY <1>1, <2>1, ExitCodes
  <2>6. pc' = "reserve" /\ left' = IF "start" \in given THEN offered ELSE {}
    BY <1>1, <2>1 DEF Callers
  <2>7. QED BY <1>1, <1>2, <1>7, <2>2, <2>3, <2>4, <2>5, <2>6 DEF CliInv, startsNow, command
<1>12. QED BY <1>4, <1>5, <1>6, <1>8, <1>9, <1>10, <1>11 DEF IInv

(***************************************************************************)
(* A start that fails.                                                     *)
(***************************************************************************)
LEMMA FailedStart ==
  ASSUME IInv, NEW why \in {"service", "refused", "changed"}, NEW runs \in SUBSET DOMAIN results,
         failStart(why, runs), pc = "reserve" \/ startsNow,
         UNCHANGED <<command, configs, results, reservation, uploads, disk>>,
         left' \subseteq left, ReservationInv', service' \in Service,
         startedRuns' \subseteq startedRuns \cup members,
         why # "service" => runs \subseteq members /\ ~(pc = "build" /\ allBuilt) /\ service' = service,
         why # "service" /\ caller = "cli" => endorsement = "rcf",
         caller = "cli" /\ "start" \notin given => service' = emptyService
  PROVE  IInv'
<1>1. /\ said' = said \cup {[why |-> why, runs |-> runs]}
      /\ exitCode' = (IF caller = "cli" THEN 2 ELSE exitCode)
      /\ group' = <<>> /\ built' = <<>> /\ packed' = Nothing /\ pc' = "reserve"
  BY DEF failStart, goTo
<1>2. TypeOK'
  <2>1. exitCode' \in 0 .. 2 /\ pc' \in Phases /\ Nothing \in Content
    BY <1>1 DEF IInv, TypeOK, CommandOK, RunsOK, StartOK, Phases, Content
  <2>2. said' \in SUBSET [why : {"service", "refused", "changed"}, runs : SUBSET DOMAIN results']
    BY <1>1 DEF IInv, TypeOK, CommandOK, RunsOK, StartOK
  <2>3. left' \in SUBSET DOMAIN results' /\ service' \in Service'
    BY DEF IInv, TypeOK, CommandOK, RunsOK, StartOK, Service, Submitted, command
  <2>4. QED BY <1>1, <2>1, <2>2, <2>3 DEF IInv, TypeOK, CommandOK, RunsOK, StartOK, command
<1>3. PhaseInv'
  BY <1>1 DEF IInv, PhaseInv, command, startsNow
<1>4. ConfigInv' /\ ResultInv'
  BY <1>1, SameConfigs, SameResults DEF IInv
<1>5. members' = {}
  BY <1>1 DEF members, Range
<1>6. BuildInv'
  BY <1>1, <1>5 DEF IInv, BuildInv, command
<1>7. StartInv'
  <2>1. ASSUME NEW s \in said, s.why # "service"
        PROVE  s.runs \cap (left' \cup startedRuns') = {}
    BY <2>1 DEF IInv, TypeOK, CommandOK, RunsOK, StartOK, StartInv
  <2>2. ASSUME why # "service"
        PROVE  runs \cap (left' \cup startedRuns') = {}
    <3>1. startedRuns' = startedRuns
      BY <2>2 DEF startedRuns
    <3>2. members \cap left = {} /\ \A i \in members : reservation[i] \notin startedIds
      BY <2>2 DEF IInv, StartInv
    <3>3. members \cap startedRuns = {}
      BY <3>2 DEF IInv, ReservationInv, startedRuns, startedIds
    <3>4. QED BY <2>2, <3>1, <3>2, <3>3
  <2>3. \A s \in said' : s.why \in {"refused", "changed"} =>
          s.runs \cap (left' \cup members' \cup startedRuns') = {}
    BY <1>1, <1>5, <2>1, <2>2
  <2>4. QED BY <1>5, <2>3 DEF StartInv
<1>8. CliInv'
  <2>1. SUFFICES ASSUME caller = "cli" PROVE CliInv'
    BY DEF CliInv, command
  <2>2. left' \subseteq offered'
    BY <2>1, SameRuns DEF IInv, CliInv
  <2>3. "start" \notin given' => service' = emptyService /\ left' = {} /\ ~startsNow'
    BY <1>1, <2>1 DEF IInv, CliInv, command, startsNow
  <2>4. endorsement' # "rcf" => \A s \in said' : s.why = "service"
    BY <1>1, <2>1 DEF IInv, CliInv, command
  <2>5. Len(results') = Len(configs') /\ configs' # <<>>
    BY DEF IInv, PhaseInv, startsNow
  <2>6. exitCode' = 2 /\ pc' = "reserve"
    BY <1>1, <2>1
  <2>7. QED BY <2>2, <2>3, <2>4, <2>5, <2>6 DEF CliInv, command
<1>9. QED BY <1>2, <1>3, <1>4, <1>6, <1>7, <1>8 DEF IInv

(***************************************************************************)
(* Reservations.                                                           *)
(***************************************************************************)
LEMMA ServiceReserves ==
  ASSUME StartOK, NEW S \in SUBSET DOMAIN entries
  PROVE  LET n == Len(service.reserved) + 1 IN
         /\ reserved(S) \in Service /\ n \in Nat \ {0} /\ n \notin DOMAIN service.reserved
         /\ reserved(S).started = service.started
         /\ DOMAIN reserved(S).reserved = DOMAIN service.reserved \cup {n}
         /\ reserved(S).reserved[n] = S
         /\ \A k \in DOMAIN service.reserved : reserved(S).reserved[k] = service.reserved[k]
<1> DEFINE n == Len(service.reserved) + 1
<1>1. /\ service.reserved \in Seq(SUBSET DOMAIN entries) /\ service.open \in SUBSET Nat
      /\ service.started \in Seq(Submitted)
      /\ service = [reserved |-> service.reserved, open |-> service.open, started |-> service.started]
  BY DEF StartOK, Service
<1>2. n \in Nat \ {0} /\ n \notin DOMAIN service.reserved
  BY <1>1
<1>3. /\ reserved(S).reserved = Append(service.reserved, S)
      /\ reserved(S).open = service.open \cup {n} /\ reserved(S).started = service.started
      /\ reserved(S) = [reserved |-> Append(service.reserved, S), open |-> service.open \cup {n},
                        started |-> service.started]
  <2>1. service \in Service
    BY DEF StartOK
  <2>2. reserved(S) = [service EXCEPT !.reserved = Append(service.reserved, S),
                                      !.open = service.open \cup {n}]
    BY DEF reserved
  <2> HIDE DEF n
  <2>3. QED BY <2>1, <2>2 DEF Service
<1>4. /\ Append(service.reserved, S) \in Seq(SUBSET DOMAIN entries)
      /\ DOMAIN Append(service.reserved, S) = DOMAIN service.reserved \cup {n}
      /\ Append(service.reserved, S)[n] = S
      /\ \A k \in DOMAIN service.reserved : Append(service.reserved, S)[k] = service.reserved[k]
  BY <1>1
<1>5. reserved(S) \in Service
  BY <1>1, <1>2, <1>3, <1>4 DEF Service
<1>6. QED BY <1>2, <1>3, <1>4, <1>5

(* A new reservation for runs that had none keeps what is known of all.    *)
LEMMA ReservationIsMade ==
  ASSUME IInv, NEW S \in SUBSET DOMAIN entries, service' = reserved(S),
         left' \subseteq left, UNCHANGED <<command, configs, results>>,
         \/ UNCHANGED reservation
         \/ /\ \A i \in S : reservation[i] = 0
            /\ left' \cap S = {}
            /\ reservation' = [i \in DOMAIN reservation |->
                 IF i \in S THEN Len(service.reserved) + 1 ELSE reservation[i]]
  PROVE  ReservationInv'
<1> DEFINE n == Len(service.reserved) + 1
<1>1. /\ n \in Nat \ {0} /\ n \notin DOMAIN service.reserved
      /\ service'.started = service.started
      /\ DOMAIN service'.reserved = DOMAIN service.reserved \cup {n}
      /\ service'.reserved[n] = S
      /\ \A k \in DOMAIN service.reserved : service'.reserved[k] = service.reserved[k]
  BY ServiceReserves DEF IInv, TypeOK
<1>2. \A i \in DOMAIN entries : reservation'[i] = reservation[i] \/ (i \in S /\ reservation[i] = 0 /\ reservation'[i] = n)
  BY DEF IInv, TypeOK, StartOK
<1>3. DOMAIN results \subseteq DOMAIN entries
  BY DEF IInv, TypeOK, CommandOK, RunsOK
<1>4. \A i \in DOMAIN entries : reservation'[i] # 0 =>
        reservation'[i] \in DOMAIN service'.reserved /\ i \in service'.reserved[reservation'[i]]
  BY <1>1, <1>2 DEF IInv, ReservationInv
<1>5. \A i \in left' : reservation'[i] = 0
  <2>1. ASSUME NEW i \in left' PROVE reservation'[i] = 0
    <3>1. i \in left /\ i \in DOMAIN entries /\ reservation[i] = 0
      BY <1>3 DEF IInv, TypeOK, StartOK, ReservationInv
    <3>2. QED BY <3>1 DEF IInv, TypeOK, StartOK
  <2>2. QED BY <2>1
<1>6. ASSUME NEW k \in DOMAIN service.started, NEW i \in DOMAIN service.started[k].configs
      PROVE  reservation'[i] = reservation[i]
  <2>1. /\ i \in DOMAIN results /\ reservation[i] = service.started[k].id
        /\ service.started[k].id \in Nat \ {0}
    BY DEF IInv, TypeOK, StartOK, Service, Submitted, ReservationInv
  <2>2. QED BY <1>2, <1>3, <2>1
<1>7. QED BY <1>1, <1>4, <1>5, <1>6, SameRuns DEF IInv, ReservationInv, command

LEMMA ReserveStep == ASSUME IInv, Reserve PROVE IInv'
<1> DEFINE version == configs[Min(left)].version
           runs == {i \in left : configs[i].version = version}
<1>1. /\ pc = "reserve" /\ left # {} /\ left' = left \ runs
      /\ UNCHANGED <<command, configs, results, uploads, disk>>
      /\ \/ /\ service' = reserved(runs)
            /\ reservation' = [i \in DOMAIN reservation |->
                 IF i \in runs THEN Len(service.reserved) + 1 ELSE reservation[i]]
            /\ group' = inOrder(runs)
            /\ pc' = "check"
            /\ UNCHANGED <<exitCode, built, packed, said>>
         \/ /\ service' \in {service, reserved(runs)}
            /\ failStart("service", runs)
            /\ UNCHANGED reservation
  BY DEF Reserve, at, goTo
<1>2. caller = "cli" /\ "start" \in given /\ left \subseteq offered
  BY <1>1 DEF IInv, PhaseInv, CliInv, TypeOK, CommandOK, Callers
<1>3. /\ DOMAIN results = 1 .. Len(results) /\ Len(results) \in Nat
      /\ left \subseteq DOMAIN results /\ DOMAIN results \subseteq DOMAIN entries
  BY DEF IInv, TypeOK, CommandOK, RunsOK, StartOK
<1>4. Min(left) \in runs
  <2>1. left \in SUBSET Nat
    BY <1>3
  <2>2. Min(left) \in left
    BY <1>1, <2>1, MinIsLeast
  <2>3. QED BY <2>2
<1>5. runs \in SUBSET (1 .. Len(results)) /\ runs \in SUBSET DOMAIN entries
  BY <1>3
<1> HIDE DEF version
<1>6. CASE failStart("service", runs) /\ service' \in {service, reserved(runs)} /\ UNCHANGED reservation
  <2>1. service' \in Service /\ service'.started = service.started
    BY <1>5, <1>6, ServiceReserves DEF IInv, TypeOK, StartOK
  <2>2. ReservationInv'
    <3>1. CASE service' = service
      BY <1>1, <1>6, <3>1, SameReservations DEF IInv
    <3>2. CASE service' = reserved(runs)
      BY <1>1, <1>5, <1>6, <3>2, ReservationIsMade
    <3>3. QED BY <1>6, <3>1, <3>2
  <2>3. startedRuns' = startedRuns
    BY <2>1 DEF startedRuns
  <2>4. runs \in SUBSET DOMAIN results
    BY <1>3
  <2>5. QED BY <1>1, <1>2, <1>6, <2>1, <2>2, <2>3, <2>4, FailedStart
<1>7. CASE /\ service' = reserved(runs)
           /\ reservation' = [i \in DOMAIN reservation |->
                IF i \in runs THEN Len(service.reserved) + 1 ELSE reservation[i]]
           /\ group' = inOrder(runs)
           /\ pc' = "check"
           /\ UNCHANGED <<exitCode, built, packed, said>>
  <2> DEFINE n == Len(service.reserved) + 1
  <2>1. /\ service' \in Service /\ n \in Nat \ {0} /\ n \notin DOMAIN service.reserved
        /\ service'.started = service.started
    BY <1>5, <1>7, ServiceReserves DEF IInv, TypeOK
  <2>2. group' \in Seq(runs) /\ members' = runs
        /\ \A j, k \in DOMAIN group' : group'[j] = group'[k] => j = k
    BY <1>3, <1>5, <1>7, InOrder DEF members
  <2>3. \A i \in runs : reservation[i] = 0 /\ reservation'[i] = n
    BY <1>3, <1>7 DEF IInv, TypeOK, StartOK, ReservationInv
  <2>4. built' = <<>> /\ packed' = Nothing
    BY <1>1, <1>7 DEF IInv, PhaseInv
  <2>5. group' \in Seq(DOMAIN results)
    <3>1. runs \subseteq DOMAIN results
      BY <1>3
    <3>2. QED BY <2>2, <3>1, SeqMonotonic
  <2>6. TypeOK'
    <3>1. reservation' \in [DOMAIN entries -> Nat]
      BY <1>7, <2>1 DEF IInv, TypeOK, StartOK
    <3>2. left' \in SUBSET DOMAIN results
      BY <1>1, <1>3
    <3>3. Len(built') <= Len(group')
      BY <2>4, <2>5
    <3>4. service' \in Service'
      BY <1>1, <2>1 DEF Service, Submitted, command
    <3>5. StartOK'
      BY <1>1, <1>7, <2>5, <3>1, <3>2, <3>3, <3>4 DEF IInv, TypeOK, StartOK, command
    <3>6. QED BY <1>1, <1>7, <3>5 DEF IInv, TypeOK, CommandOK, RunsOK, Phases, command
  <2>7. PhaseInv'
    BY <1>1, <1>2, <1>7, <2>4 DEF IInv, PhaseInv, startsNow, command
  <2>8. ConfigInv' /\ ResultInv'
    BY <1>1, <1>7, SameConfigs, SameResults DEF IInv
  <2>9. BuildInv'
    BY <1>1, <1>7, <2>2, <2>4 DEF IInv, BuildInv
  <2>10. ReservationInv'
    <3>1. left' \cap runs = {} /\ left' \subseteq left
      BY <1>1
    <3>2. QED BY <1>1, <1>5, <1>7, <2>3, <3>1, ReservationIsMade
  <2>11. StartInv'
    <3>1. n \notin startedIds' /\ startedIds' = startedIds /\ startedRuns' = startedRuns
      BY <2>1 DEF IInv, ReservationInv, startedIds, startedRuns
    <3>2. left' \cap members' = {} /\ left' \cup members' \subseteq left
      BY <1>1, <2>2
    <3>3. \A i \in members' : reservation'[i] \notin startedIds'
      BY <2>2, <2>3, <3>1
    <3>4. QED BY <1>7, <2>1, <3>1, <3>2, <3>3 DEF IInv, StartInv, startedIds
  <2>12. CliInv'
    <3>1. offered' = offered /\ startedRuns' = startedRuns
      BY <1>1, <2>1, SameRuns DEF startedRuns
    <3>2. left' \cup members' = left
      BY <1>1, <2>2
    <3>3. \A i \in members' : check(i)'
      <4>1. group' # <<>> /\ group'[1] \in runs
        <5>1. members' # {}
          BY <1>4, <2>2
        <5>2. group' # <<>>
          BY <5>1 DEF members, Range
        <5>3. QED BY <2>2, <5>2
      <4>2. ASSUME NEW i \in runs PROVE isOffered(i)'
        BY <1>1, <1>2, SameRuns DEF offered
      <4>3. QED BY <1>1, <2>1, <2>2, <2>3, <4>1, <4>2 DEF check
    <3>4. members = {}
      BY <1>1 DEF IInv, PhaseInv, startsNow, members, Range
    <3>5. QED BY <1>1, <1>2, <1>7, <3>1, <3>2, <3>3, <3>4 DEF IInv, CliInv, command, startsNow
  <2>13. QED BY <2>6, <2>7, <2>8, <2>9, <2>10, <2>11, <2>12 DEF IInv
<1>8. QED BY <1>1, <1>6, <1>7

(***************************************************************************)
(* The desktop, and the end.                                               *)
(***************************************************************************)
LEMMA FinishStep == ASSUME IInv, Finish PROVE IInv'
<1>1. /\ pc = "choose" \/ (pc = "reserve" /\ left = {})
      /\ pc' = "done" /\ UNCHANGED <<command, configs, results, exitCode, starting, disk>>
  BY DEF Finish, at, goTo
<1>2. group = <<>> /\ ~startsNow /\ left = {}
  BY <1>1 DEF IInv, PhaseInv, startsNow
<1>3. TypeOK'
  BY <1>1, SameStarting DEF IInv, TypeOK, CommandOK, RunsOK, command, Phases
<1>4. PhaseInv'
  BY <1>1, <1>2 DEF IInv, PhaseInv, startsNow, starting, command
<1>5. ConfigInv' /\ ResultInv' /\ BuildInv' /\ ReservationInv' /\ StartInv'
  <2>1. pc' # "build" /\ pc # "build"
    BY <1>1
  <2>2. ConfigInv' /\ ResultInv'
    BY <1>1, SameConfigs, SameResults DEF IInv
  <2>3. BuildInv'
    BY <1>1, <2>1, SameBuild DEF IInv, starting
  <2>4. ReservationInv'
    BY <1>1, SameReservations DEF IInv, starting
  <2>5. StartInv'
    BY <1>1, <2>1, SameStart DEF IInv, starting
  <2>6. QED BY <2>2, <2>3, <2>4, <2>5
<1>6. CliInv'
  <2>1. SUFFICES ASSUME caller = "cli" PROVE CliInv'
    BY <1>1 DEF CliInv, command
  <2>2. pc = "reserve"
    BY <1>1, <2>1 DEF IInv, PhaseInv
  <2>3. offered' = offered /\ startedRuns' = startedRuns /\ members' = members
    BY <1>1, SameRuns DEF startedRuns, members, Range, starting
  <2>4. QED BY <1>1, <1>2, <2>1, <2>2, <2>3 DEF IInv, CliInv, startsNow, starting, command
<1>7. QED BY <1>3, <1>4, <1>5, <1>6 DEF IInv

LEMMA ReserveForLocalRunStep ==
  ASSUME IInv, NEW i \in DOMAIN results, reserveForLocalRun(i)
  PROVE  IInv'
<1>1. /\ pc = "choose" /\ reservation[i] = 0 /\ service' = reserved({i})
      /\ reservation' = [reservation EXCEPT ![i] = Len(service.reserved) + 1]
      /\ UNCHANGED <<command, pc, configs, results, exitCode, left, group, uploads, packed, built,
                     said, disk>>
  BY DEF reserveForLocalRun, at
<1>2. /\ caller = "desktop" /\ said = {} /\ service.started = <<>> /\ left = {} /\ group = <<>>
      /\ built = <<>> /\ packed = Nothing
  BY <1>1 DEF IInv, PhaseInv, startsNow
<1>3. DOMAIN results \subseteq DOMAIN entries
  BY DEF IInv, TypeOK, CommandOK, RunsOK
<1>4. /\ service' \in Service /\ Len(service.reserved) + 1 \in Nat \ {0}
      /\ service'.started = service.started
  BY <1>1, <1>3, ServiceReserves DEF IInv, TypeOK
<1>5. TypeOK'
  <2>1. reservation' \in [DOMAIN entries -> Nat]
    BY <1>1, <1>4 DEF IInv, TypeOK, StartOK
  <2>2. service' \in Service'
    BY <1>1, <1>4 DEF Service, Submitted, command
  <2>3. StartOK'
    BY <1>1, <2>1, <2>2 DEF IInv, TypeOK, StartOK, command
  <2>4. QED BY <1>1, <2>3 DEF IInv, TypeOK, CommandOK, RunsOK, command
<1>6. PhaseInv'
  BY <1>1, <1>2, <1>4 DEF IInv, PhaseInv, startsNow, command
<1>7. ConfigInv' /\ ResultInv'
  BY <1>1, SameConfigs, SameResults DEF IInv
<1>8. members' = {}
  BY <1>1, <1>2 DEF members, Range
<1>9. BuildInv'
  BY <1>1, <1>2, <1>8 DEF IInv, BuildInv, command
<1>10. ReservationInv'
  <2>1. reservation' = [j \in DOMAIN reservation |->
          IF j \in {i} THEN Len(service.reserved) + 1 ELSE reservation[j]]
    BY <1>1 DEF IInv, TypeOK, StartOK
  <2>2. left' \cap {i} = {} /\ left' \subseteq left /\ {i} \in SUBSET DOMAIN entries
    BY <1>1, <1>2, <1>3
  <2>3. QED BY <1>1, <2>1, <2>2, ReservationIsMade
<1>11. StartInv'
  BY <1>1, <1>2, <1>4, <1>8 DEF StartInv
<1>12. CliInv'
  BY <1>1, <1>2 DEF CliInv, command
<1>13. QED BY <1>5, <1>6, <1>7, <1>9, <1>10, <1>11, <1>12 DEF IInv

LEMMA DesktopStartsStep == ASSUME IInv, DesktopStarts PROVE IInv'
<1>1. PICK S \in SUBSET {i \in DOMAIN results : results[i].status # "stopped"} :
        S # {} /\ group' = inOrder(S)
  BY DEF DesktopStarts
<1>2. /\ pc = "choose" /\ pc' = "check"
      /\ UNCHANGED <<command, configs, results, exitCode, left, reservation, uploads, packed, built,
                     said, service, disk>>
  BY DEF DesktopStarts, at, goTo
<1>3. /\ caller = "desktop" /\ said = {} /\ service.started = <<>> /\ left = {}
      /\ built = <<>> /\ packed = Nothing /\ configs # <<>>
  BY <1>2 DEF IInv, PhaseInv, startsNow
<1>4. DOMAIN results = 1 .. Len(results) /\ Len(results) \in Nat
  BY DEF IInv, TypeOK, RunsOK
<1>5. /\ group' \in Seq(S) /\ members' = S
      /\ \A j, k \in DOMAIN group' : group'[j] = group'[k] => j = k
  <2>1. S \in SUBSET (1 .. Len(results))
    BY <1>4
  <2>2. QED BY <1>1, <1>4, <2>1, InOrder DEF members
<1>6. TypeOK'
  <2>1. group' \in Seq(DOMAIN results)
    BY <1>5, SeqMonotonic
  <2>2. Len(built') <= Len(group')
    BY <1>2, <1>3, <2>1
  <2>3. StartOK'
    BY <1>2, <2>1, <2>2 DEF IInv, TypeOK, StartOK, Service, Submitted, command
  <2>4. QED BY <1>2, <2>3 DEF IInv, TypeOK, CommandOK, RunsOK, Phases, command
<1>7. PhaseInv'
  BY <1>2, <1>3 DEF IInv, PhaseInv, startsNow, command
<1>8. ConfigInv' /\ ResultInv'
  BY <1>2, SameConfigs, SameResults DEF IInv
<1>9. BuildInv'
  BY <1>2, <1>3, <1>5 DEF IInv, BuildInv, command
<1>10. ReservationInv'
  BY <1>2, SameReservations DEF IInv
<1>11. StartInv'
  BY <1>2, <1>3 DEF StartInv, startedIds
<1>12. CliInv'
  BY <1>2, <1>3 DEF CliInv, command
<1>13. QED BY <1>6, <1>7, <1>8, <1>9, <1>10, <1>11, <1>12 DEF IInv

LEMMA CheckRunsStep == ASSUME IInv, CheckRuns PROVE IInv'
<1>1. /\ pc = "check"
      /\ UNCHANGED <<command, configs, results, left, reservation, uploads, service, disk>>
  BY DEF CheckRuns, at
<1>2. built = <<>> /\ packed = Nothing /\ caller \in Callers
  BY <1>1 DEF IInv, PhaseInv, TypeOK, CommandOK
<1>3. CASE (\A i \in members : check(i)) /\ pc' = "build" /\ UNCHANGED <<group, built, packed, exitCode, said>>
  <2>1. TypeOK'
    BY <1>1, <1>3, SameStarting DEF IInv, TypeOK, CommandOK, RunsOK, command, Phases, starting
  <2>2. PhaseInv'
    BY <1>1, <1>3 DEF IInv, PhaseInv, startsNow, command
  <2>3. ConfigInv' /\ ResultInv' /\ ReservationInv'
    BY <1>1, <1>3, SameConfigs, SameResults, SameReservations DEF IInv
  <2>4. BuildInv'
    <3>1. \A i : check(i)' <=> check(i)
      BY <1>1, <1>3, SameRuns DEF check
    <3>2. members' = members
      BY <1>3 DEF members, Range
    <3>3. QED BY <1>1, <1>2, <1>3, <3>1, <3>2 DEF IInv, BuildInv, command
  <2>5. StartInv'
    BY <1>1, <1>3 DEF IInv, StartInv, members, Range, startedIds, startedRuns
  <2>6. CliInv'
    <3>1. offered' = offered /\ startedRuns' = startedRuns /\ members' = members
      BY <1>1, <1>3, SameRuns DEF startedRuns, members, Range
    <3>2. QED BY <1>1, <1>3, <3>1 DEF IInv, CliInv, startsNow, command
  <2>7. QED BY <2>1, <2>2, <2>3, <2>4, <2>5, <2>6 DEF IInv
<1>4. CASE ~(\A i \in members : check(i)) /\ failStart("refused", members)
  <2>1. caller # "cli"
    BY <1>1, <1>4 DEF IInv, CliInv
  <2>2. members \in SUBSET DOMAIN results
    BY DEF IInv, TypeOK, StartOK, members, Range
  <2>3. ReservationInv' /\ service' \in Service /\ startedRuns' = startedRuns
    BY <1>1, SameReservations DEF IInv, TypeOK, StartOK, startedRuns
  <2>4. startsNow /\ pc # "build"
    BY <1>1 DEF startsNow
  <2>5. QED BY <1>1, <1>4, <2>1, <2>2, <2>3, <2>4, FailedStart
<1>5. QED BY <1>1, <1>3, <1>4 DEF CheckRuns, goTo

(***************************************************************************)
(* Packing, uploading and building.                                        *)
(***************************************************************************)
(* The run an entry is built for has passed its checks.                    *)
LEMMA CurrentIsChecked ==
  ASSUME IInv, pc = "build", toBuild
  PROVE  /\ Len(built) + 1 \in DOMAIN group /\ current \in members /\ current \in DOMAIN results
         /\ current \in DOMAIN entries /\ check(current)
         /\ results[current] \in RunResult /\ results[current] # stopped
         /\ configs[current] \in CloudConfig /\ configs[current].endorsement = endorsement
         /\ recordOf(configs[current], results[current])
<1>1. /\ group \in Seq(DOMAIN results) /\ built \in Seq(CloudEntries)
      /\ DOMAIN group = 1 .. Len(group) /\ DOMAIN results = 1 .. Len(results)
      /\ Len(results) = Len(configs) /\ Len(configs) \in {0, Len(entries)}
      /\ configs \in Seq(CloudConfig) /\ results \in Seq(RunResult)
      /\ entries \in Seq(FileEntries(endorsement))
  BY DEF IInv, TypeOK, CommandOK, RunsOK, StartOK, PhaseInv
<1>2. Len(built) + 1 \in DOMAIN group
  BY <1>1 DEF toBuild
<1>3. current \in members /\ current \in DOMAIN results
  <2>1. group[Len(built) + 1] \in DOMAIN results
    BY <1>1, <1>2
  <2>2. group[Len(built) + 1] \in members
    BY <1>2 DEF members, Range
  <2>3. QED BY <2>1, <2>2 DEF current
<1>4. current \in DOMAIN entries /\ current \in DOMAIN configs
  BY <1>1, <1>3
<1>5. check(current)
  BY <1>3 DEF IInv, BuildInv
<1>6. results[current] # stopped
  BY <1>5 DEF check, isOffered, isSuccessfulRun, stopped
<1>7. QED BY <1>1, <1>2, <1>3, <1>4, <1>5, <1>6 DEF IInv, ConfigInv, ResultInv

LEMMA PackRcfInputStep == ASSUME IInv, PackRcfInput PROVE IInv'
<1>1. /\ pc = "build" /\ toBuild /\ needsUpload /\ packed = Nothing
      /\ UNCHANGED <<command, configs, results, left, reservation, uploads, service, disk>>
      /\ \/ /\ disk = results[current].files /\ packed' = disk
            /\ UNCHANGED <<pc, group, built, exitCode, said>>
         \/ \E why \in {"changed", "refused"} : failStart(why, members)
  BY DEF PackRcfInput, at
<1>2. CASE /\ disk = results[current].files /\ packed' = disk
           /\ UNCHANGED <<pc, group, built, exitCode, said>>
  <2>1. TypeOK'
    <3>1. packed' \in Content
      BY <1>2 DEF IInv, TypeOK, CommandOK, Content
    <3>2. StartOK'
      BY <1>1, <1>2, <3>1 DEF IInv, TypeOK, StartOK, Service, Submitted, command
    <3>3. QED BY <1>1, <1>2, <3>2 DEF IInv, TypeOK, CommandOK, RunsOK, command
  <2>2. PhaseInv'
    BY <1>1, <1>2 DEF IInv, PhaseInv, startsNow, command
  <2>3. ConfigInv' /\ ResultInv' /\ ReservationInv'
    BY <1>1, <1>2, SameConfigs, SameResults, SameReservations DEF IInv
  <2>4. BuildInv'
    <3>1. \A i : check(i)' <=> check(i)
      BY <1>1, <1>2, SameRuns DEF check
    <3>2. members' = members /\ current' = current /\ toBuild' /\ needsUpload'
      BY <1>1, <1>2 DEF members, Range, current, toBuild, needsUpload, command
    <3>3. packed' = results'[current'].files
      BY <1>1, <1>2, <3>2
    <3>4. \A k \in DOMAIN built' : faithful(group[k], built[k])'
      BY <1>1, <1>2, SameRuns DEF IInv, BuildInv
    <3>5. QED BY <1>1, <1>2, <3>1, <3>2, <3>3, <3>4 DEF IInv, BuildInv
  <2>5. StartInv'
    BY <1>1, <1>2, SameStart DEF IInv, allBuilt
  <2>6. CliInv'
    <3>1. offered' = offered /\ startedRuns' = startedRuns /\ members' = members
      BY <1>1, <1>2, SameRuns DEF startedRuns, members, Range
    <3>2. QED BY <1>1, <1>2, <3>1 DEF IInv, CliInv, startsNow, command
  <2>7. QED BY <2>1, <2>2, <2>3, <2>4, <2>5, <2>6 DEF IInv
<1>3. ASSUME NEW why \in {"changed", "refused"}, failStart(why, members)
      PROVE  IInv'
  <2>1. members \in SUBSET DOMAIN results
    BY DEF IInv, TypeOK, StartOK, members, Range
  <2>2. ReservationInv' /\ service' \in Service /\ startedRuns' = startedRuns
    BY <1>1, SameReservations DEF IInv, TypeOK, StartOK, startedRuns
  <2>3. startsNow /\ ~allBuilt /\ endorsement = "rcf"
    BY <1>1 DEF startsNow, toBuild, allBuilt, needsUpload, IInv, TypeOK, StartOK
  <2>4. caller = "cli" /\ "start" \notin given => service' = emptyService
    BY <1>1 DEF IInv, CliInv
  <2>5. QED BY <1>1, <1>3, <2>1, <2>2, <2>3, <2>4, FailedStart
<1>4. QED BY <1>1, <1>2, <1>3

LEMMA UploadToSlotStep == ASSUME IInv, UploadToSlot PROVE IInv'
<1>1. /\ pc = "build" /\ toBuild /\ needsUpload /\ packed # Nothing
      /\ UNCHANGED <<command, configs, results, left, reservation, service, disk>>
      /\ \/ /\ uploads' = [uploads EXCEPT ![current] = packed]
            /\ packed' = Nothing
            /\ UNCHANGED <<pc, group, built, exitCode, said>>
         \/ failStart("service", members) /\ UNCHANGED uploads
  BY DEF UploadToSlot, at
<1>2. CASE /\ uploads' = [uploads EXCEPT ![current] = packed]
           /\ packed' = Nothing
           /\ UNCHANGED <<pc, group, built, exitCode, said>>
  <2>1. TypeOK'
    <3>1. packed' \in Content /\ uploads' \in [DOMAIN entries -> Content]
      BY <1>2 DEF IInv, TypeOK, StartOK, Content
    <3>2. StartOK'
      BY <1>1, <1>2, <3>1 DEF IInv, TypeOK, StartOK, Service, Submitted, command
    <3>3. QED BY <1>1, <1>2, <3>2 DEF IInv, TypeOK, CommandOK, RunsOK, command
  <2>2. PhaseInv'
    BY <1>1, <1>2 DEF IInv, PhaseInv, startsNow, command
  <2>3. ConfigInv' /\ ResultInv' /\ ReservationInv'
    BY <1>1, <1>2, SameConfigs, SameResults, SameReservations DEF IInv
  <2>4. BuildInv'
    <3>1. \A i : check(i)' <=> check(i)
      BY <1>1, <1>2, SameRuns DEF check
    <3>2. members' = members
      BY <1>1, <1>2 DEF members, Range
    <3>3. packed = results[current].files /\ current \in DOMAIN results
      BY <1>1, CurrentIsChecked DEF IInv, BuildInv
    <3>4. \A i \in DOMAIN uploads' : uploads'[i] # Nothing =>
            i \in DOMAIN results' /\ uploads'[i] = results'[i].files
      BY <1>1, <1>2, <3>3 DEF IInv, BuildInv, TypeOK, StartOK
    <3>5. \A k \in DOMAIN built' : faithful(group[k], built[k])'
      BY <1>1, <1>2, SameRuns DEF IInv, BuildInv
    <3>6. QED BY <1>1, <1>2, <3>1, <3>2, <3>4, <3>5 DEF IInv, BuildInv
  <2>5. StartInv'
    BY <1>1, <1>2, SameStart DEF IInv, allBuilt
  <2>6. CliInv'
    <3>1. offered' = offered /\ startedRuns' = startedRuns /\ members' = members
      BY <1>1, <1>2, SameRuns DEF startedRuns, members, Range
    <3>2. QED BY <1>1, <1>2, <3>1 DEF IInv, CliInv, startsNow, command
  <2>7. QED BY <2>1, <2>2, <2>3, <2>4, <2>5, <2>6 DEF IInv
<1>3. CASE failStart("service", members) /\ UNCHANGED uploads
  <2>1. members \in SUBSET DOMAIN results
    BY DEF IInv, TypeOK, StartOK, members, Range
  <2>2. ReservationInv' /\ service' \in Service /\ startedRuns' = startedRuns
    BY <1>1, SameReservations DEF IInv, TypeOK, StartOK, startedRuns
  <2>3. startsNow /\ (caller = "cli" /\ "start" \notin given => service' = emptyService)
    BY <1>1 DEF startsNow, IInv, CliInv
  <2>4. QED BY <1>1, <1>3, <2>1, <2>2, <2>3, FailedStart
<1>4. QED BY <1>1, <1>2, <1>3

LEMMA BuildEntryStep == ASSUME IInv, BuildEntry PROVE IInv'
<1> DEFINE c == configs[current]
           r == results[current]
           e == cloudEntryOf(c, r, uploads[current], disk)
<1>1. /\ pc = "build" /\ toBuild /\ ~needsUpload
      /\ UNCHANGED <<command, configs, results, left, reservation, uploads, service, disk>>
      /\ \/ e.refused /\ failStart("refused", members)
         \/ ~e.refused /\ built' = Append(built, e) /\ UNCHANGED <<pc, group, packed, exitCode, said>>
  BY DEF BuildEntry, at
<1>2. /\ Len(built) + 1 \in DOMAIN group /\ current \in members /\ current \in DOMAIN results
      /\ current \in DOMAIN entries /\ check(current)
      /\ r \in RunResult /\ r # stopped /\ c \in CloudConfig /\ c.endorsement = endorsement
      /\ recordOf(c, r)
  BY <1>1, CurrentIsChecked
<1>3. packed = Nothing
  BY <1>1 DEF IInv, BuildInv
<1>4. CASE ~e.refused /\ built' = Append(built, e) /\ UNCHANGED <<pc, group, packed, exitCode, said>>
  <2>1. e \in CloudEntries /\ faithful(current, e)
    <3>1. uploads[current] \in {Nothing, r.files}
      BY <1>2 DEF IInv, BuildInv, TypeOK, StartOK
    <3>2. c.endorsement # "entity-event" => c.mode = "unset"
      BY <1>2 DEF IInv, ConfigInv, PhaseInv, TypeOK, RunsOK
    <3>3. QED BY <1>2, <1>4, <3>1, <3>2, EntryIsFaithful DEF faithful
  <2>2. /\ built \in Seq(CloudEntries) /\ group \in Seq(DOMAIN results)
        /\ Len(built) < Len(group)
    BY <1>1 DEF IInv, TypeOK, StartOK, toBuild
  <2> HIDE DEF e, c, r
  <2>3. /\ built' \in Seq(CloudEntries) /\ Len(built') = Len(built) + 1
        /\ DOMAIN built' = DOMAIN built \cup {Len(built) + 1}
        /\ \A k \in DOMAIN built : built'[k] = built[k]
        /\ built'[Len(built) + 1] = e
    BY <1>4, <2>1, <2>2
  <2>4. TypeOK'
    <3>1. Len(built') <= Len(group')
      BY <1>4, <2>2, <2>3
    <3>2. StartOK'
      BY <1>1, <1>4, <2>3, <3>1 DEF IInv, TypeOK, StartOK, Service, Submitted, command
    <3>3. QED BY <1>1, <1>4, <3>2 DEF IInv, TypeOK, CommandOK, RunsOK, command
  <2>5. PhaseInv'
    BY <1>1, <1>4 DEF IInv, PhaseInv, startsNow, command
  <2>6. ConfigInv' /\ ResultInv' /\ ReservationInv'
    BY <1>1, <1>4, SameConfigs, SameResults, SameReservations DEF IInv
  <2>7. BuildInv'
    <3>1. \A i : check(i)' <=> check(i)
      BY <1>1, <1>4, SameRuns DEF check
    <3>2. members' = members
      BY <1>1, <1>4 DEF members, Range
    <3>3. group'[Len(built) + 1] = current
      BY <1>4 DEF current
    <3>4. \A k \in DOMAIN built' : faithful(group[k], built[k])'
      BY <1>1, <1>4, <2>1, <2>3, <3>3, SameRuns DEF IInv, BuildInv
    <3>5. QED BY <1>1, <1>3, <1>4, <3>1, <3>2, <3>4 DEF IInv, BuildInv
  <2>8. StartInv'
    <3>1. ~allBuilt
      BY <2>2 DEF allBuilt
    <3>2. members' = members /\ startedIds' = startedIds /\ startedRuns' = startedRuns
      BY <1>1, <1>4 DEF members, Range, startedIds, startedRuns
    <3>3. QED BY <1>1, <1>4, <3>1, <3>2 DEF IInv, StartInv
  <2>9. CliInv'
    <3>1. offered' = offered /\ startedRuns' = startedRuns /\ members' = members
      BY <1>1, <1>4, SameRuns DEF startedRuns, members, Range
    <3>2. QED BY <1>1, <1>4, <3>1 DEF IInv, CliInv, startsNow, command
  <2>10. QED BY <2>4, <2>5, <2>6, <2>7, <2>8, <2>9 DEF IInv
<1>5. CASE e.refused /\ failStart("refused", members)
  <2>1. members \in SUBSET DOMAIN results
    BY DEF IInv, TypeOK, StartOK, members, Range
  <2>2. ReservationInv' /\ service' \in Service /\ startedRuns' = startedRuns
    BY <1>1, SameReservations DEF IInv, TypeOK, StartOK, startedRuns
  <2>3. startsNow /\ ~allBuilt
    BY <1>1 DEF startsNow, toBuild, allBuilt, IInv, TypeOK, StartOK
  <2>4. caller = "cli" => endorsement = "rcf" /\ "start" \in given
    <3>1. SUFFICES ASSUME caller = "cli" PROVE endorsement = "rcf" /\ "start" \in given
      OBVIOUS
    <3>2. "start" \in given
      BY <2>3, <3>1 DEF IInv, CliInv
    <3>3. results # <<>> /\ current \in DOMAIN configs
      BY <1>1, <1>2 DEF IInv, PhaseInv, TypeOK, RunsOK
    <3>4. ~whyNoCloudRunBeforeRun(c)
      BY <3>1, <3>2, <3>3 DEF IInv, ConfigInv
    <3>5. endorsement = "rcf"
      BY <1>2, <1>5, <3>1, <3>4, LateIsNotRefused
    <3>6. QED BY <3>2, <3>5
  <2>5. QED BY <1>1, <1>5, <2>1, <2>2, <2>3, <2>4, FailedStart
<1>6. QED BY <1>1, <1>4, <1>5

(***************************************************************************)
(* Submitting.                                                             *)
(***************************************************************************)
accepted(id) ==
  [service EXCEPT !.started = Append(@, request(id)), !.open = @ \ {id}]

(* The next request is of all the runs that hold its reservation, none of  *)
(* which has been sent.                                                    *)
LEMMA NextRequest ==
  ASSUME IInv, pc = "build", allBuilt, nextToSubmit # 0
  PROVE  LET id == nextToSubmit  sent == request(id).configs IN
         /\ id \notin startedIds /\ id \in DOMAIN service.reserved
         /\ request(id) \in Submitted /\ request(id).id = id
         /\ DOMAIN sent = {i \in members : reservation[i] = id}
         /\ \A i \in DOMAIN sent : faithful(i, sent[i])
<1> DEFINE id == nextToSubmit
           waiting == {k \in DOMAIN built : reservation[group[k]] \notin startedIds}
           shared == {group[k] : k \in {x \in DOMAIN built : reservation[group[x]] = id}}
           sent == request(id).configs
<1>1. /\ group \in Seq(DOMAIN results) /\ built \in Seq(CloudEntries) /\ Len(built) = Len(group)
      /\ DOMAIN group = DOMAIN built /\ DOMAIN built = 1 .. Len(built)
      /\ DOMAIN results \subseteq DOMAIN entries
      /\ \A k \in DOMAIN group : group[k] \in DOMAIN results
      /\ \A k \in DOMAIN built : built[k] \in CloudEntries
  BY DEF IInv, TypeOK, CommandOK, RunsOK, StartOK, allBuilt
<1>2. waiting # {} /\ id = reservation[group[Min(waiting)]]
  BY DEF nextToSubmit
<1>3. Min(waiting) \in waiting
  <2>1. waiting \in SUBSET Nat
    BY <1>1
  <2>2. QED BY <1>2, <2>1, MinIsLeast
<1>4. id \notin startedIds
  BY <1>2, <1>3
<1>5. id \in DOMAIN service.reserved /\ id \in Nat \ {0}
  <2>1. group[Min(waiting)] \in DOMAIN entries
    BY <1>1, <1>3
  <2>2. id \in Nat
    BY <1>2, <2>1 DEF IInv, TypeOK, StartOK
  <2>3. QED BY <1>2, <2>1, <2>2 DEF IInv, ReservationInv
<1> HIDE DEF id
<1>6. shared = {i \in members : reservation[i] = id}
  BY <1>1 DEF members, Range
<1>7. shared \subseteq DOMAIN entries
  BY <1>1
<1>8. request(id).id = id /\ sent = [i \in shared |-> built[CHOOSE k \in DOMAIN built : group[k] = i]]
  BY DEF request
<1> HIDE DEF sent
<1>9. ASSUME NEW i \in shared
      PROVE  sent[i] \in CloudEntries /\ faithful(i, sent[i])
  <2>1. PICK k \in DOMAIN built : group[k] = i
    OBVIOUS
  <2> DEFINE j == CHOOSE x \in DOMAIN built : group[x] = i
  <2>2. j \in DOMAIN built /\ group[j] = i
    BY <2>1
  <2>3. sent[i] = built[j]
    BY <1>8
  <2> HIDE DEF j
  <2>4. QED BY <1>1, <2>2, <2>3 DEF IInv, BuildInv
<1>10. request(id) \in Submitted
  <2>1. sent \in [shared -> CloudEntries]
    BY <1>8, <1>9
  <2>2. sent \in UNION {[S -> CloudEntries] : S \in SUBSET DOMAIN entries}
    BY <1>7, <2>1
  <2>3. request(id) = [id |-> id, configs |-> sent]
    BY DEF request, sent
  <2>4. QED BY <1>5, <2>2, <2>3 DEF Submitted
<1>11. DOMAIN sent = shared
  BY <1>8
<1>12. QED BY <1>4, <1>5, <1>6, <1>8, <1>9, <1>10, <1>11 DEF id, sent

LEMMA ServiceAccepts ==
  ASSUME IInv, pc = "build", allBuilt, nextToSubmit # 0
  PROVE  LET id == nextToSubmit  n == Len(service.started) + 1 IN
         /\ accepted(id) \in Service
         /\ accepted(id).reserved = service.reserved
         /\ DOMAIN accepted(id).started = DOMAIN service.started \cup {n}
         /\ n \notin DOMAIN service.started
         /\ accepted(id).started[n] = request(id)
         /\ \A k \in DOMAIN service.started : accepted(id).started[k] = service.started[k]
<1> DEFINE id == nextToSubmit
           n == Len(service.started) + 1
<1>1. request(id) \in Submitted
  BY NextRequest
<1> HIDE DEF id
<1>2. service \in Service /\ service.started \in Seq(Submitted) /\ service.open \in SUBSET Nat
  BY DEF IInv, TypeOK, StartOK, Service
<1>3. /\ accepted(id).started = Append(service.started, request(id))
      /\ accepted(id).reserved = service.reserved
      /\ accepted(id).open = service.open \ {id}
      /\ accepted(id) = [reserved |-> service.reserved, open |-> service.open \ {id},
                         started |-> Append(service.started, request(id))]
  <2>1. accepted(id) = [service EXCEPT !.started = Append(service.started, request(id)),
                                       !.open = service.open \ {id}]
    BY DEF accepted
  <2> HIDE DEF accepted
  <2>2. QED BY <1>2, <2>1 DEF Service
<1>4. /\ Append(service.started, request(id)) \in Seq(Submitted)
      /\ DOMAIN Append(service.started, request(id)) = DOMAIN service.started \cup {n}
      /\ n \notin DOMAIN service.started
      /\ Append(service.started, request(id))[n] = request(id)
      /\ \A k \in DOMAIN service.started :
           Append(service.started, request(id))[k] = service.started[k]
  BY <1>1, <1>2
<1>5. accepted(id) \in Service
  BY <1>2, <1>3, <1>4 DEF Service
<1>6. QED BY <1>3, <1>4, <1>5 DEF id

LEMMA SubmitCloudRunStep == ASSUME IInv, SubmitCloudRun PROVE IInv'
<1> DEFINE id == nextToSubmit
           n == Len(service.started) + 1
           sent == request(id).configs
<1>1. /\ pc = "build" /\ allBuilt /\ id # 0
      /\ UNCHANGED <<command, configs, results, left, reservation, uploads, disk>>
      /\ \/ service' = accepted(id) /\ UNCHANGED <<pc, group, built, packed, exitCode, said>>
         \/ service' \in {service, accepted(id)} /\ failStart("service", members)
  BY DEF SubmitCloudRun, at, accepted
<1>2. /\ id \notin startedIds /\ id \in DOMAIN service.reserved
      /\ request(id).id = id
      /\ DOMAIN sent = {i \in members : reservation[i] = id}
      /\ \A i \in DOMAIN sent : faithful(i, sent[i])
  BY <1>1, NextRequest
<1>3. /\ accepted(id) \in Service
      /\ accepted(id).reserved = service.reserved
      /\ DOMAIN accepted(id).started = DOMAIN service.started \cup {n}
      /\ n \notin DOMAIN service.started
      /\ accepted(id).started[n] = request(id)
      /\ \A k \in DOMAIN service.started : accepted(id).started[k] = service.started[k]
  BY <1>1, ServiceAccepts
<1>4. members \in SUBSET DOMAIN results
  BY DEF IInv, TypeOK, StartOK, members, Range
<1> HIDE DEF id, n, sent
<1>5. ASSUME service' = accepted(id)
      PROVE  ReservationInv'
  <2>1. \A i \in members : isSuccessfulRun(results[i])
    BY <1>1 DEF IInv, BuildInv, check, isOffered
  <2>2. ASSUME NEW k \in DOMAIN service'.started, NEW i \in DOMAIN service'.started[k].configs
        PROVE  /\ i \in DOMAIN results /\ isSuccessfulRun(results[i])
               /\ reservation[i] = service'.started[k].id
               /\ faithful(i, service'.started[k].configs[i])
    <3>1. CASE k = n
      BY <1>2, <1>3, <1>4, <1>5, <2>1, <2>2, <3>1 DEF sent
    <3>2. CASE k # n
      BY <1>3, <1>5, <2>2, <3>2 DEF IInv, ReservationInv
    <3>3. QED BY <3>1, <3>2
  <2>3. ASSUME NEW k \in DOMAIN service'.started
        PROVE  /\ service'.started[k].id \in DOMAIN service.reserved
               /\ k = n \/ service'.started[k].id \in startedIds
    BY <1>2, <1>3, <1>5 DEF IInv, ReservationInv, startedIds
  <2>4. ASSUME NEW j \in DOMAIN service'.started, NEW k \in DOMAIN service'.started,
               service'.started[j].id = service'.started[k].id
        PROVE  j = k
    BY <1>2, <1>3, <1>5, <2>3, <2>4 DEF IInv, ReservationInv
  <2>5. \A i, e : faithful(i, e)' <=> faithful(i, e)
    BY <1>1, SameRuns
  <2>6. service'.reserved = service.reserved
    BY <1>3, <1>5
  <2>7. UNCHANGED <<left, reservation, entries, results>>
    BY <1>1 DEF command
  <2>8. \A i \in DOMAIN entries' : reservation'[i] # 0 =>
          reservation'[i] \in DOMAIN service'.reserved /\ i \in service'.reserved[reservation'[i]]
    BY <2>6, <2>7 DEF IInv, ReservationInv
  <2>9. \A i \in left' : reservation'[i] = 0
    BY <2>7 DEF IInv, ReservationInv
  <2>10. QED BY <2>2, <2>3, <2>4, <2>5, <2>6, <2>7, <2>8, <2>9 DEF ReservationInv
<1>6. ASSUME service' = accepted(id)
      PROVE  startedRuns' = startedRuns \cup DOMAIN sent
  BY <1>3, <1>6 DEF startedRuns, sent
<1>7. CASE service' = accepted(id) /\ UNCHANGED <<pc, group, built, packed, exitCode, said>>
  <2>1. members' = members
    BY <1>7 DEF members, Range
  <2>2. TypeOK'
    <3>1. service' \in Service'
      BY <1>1, <1>3, <1>7 DEF Service, Submitted, command
    <3>2. StartOK'
      BY <1>1, <1>7, <3>1 DEF IInv, TypeOK, StartOK, command
    <3>3. QED BY <1>1, <1>7, <3>2 DEF IInv, TypeOK, CommandOK, RunsOK, command
  <2>3. PhaseInv'
    BY <1>1, <1>7 DEF IInv, PhaseInv, startsNow, command
  <2>4. ConfigInv' /\ ResultInv' /\ BuildInv'
    BY <1>1, <1>7, SameConfigs, SameResults, SameBuild DEF IInv
  <2>5. StartInv'
    <3>1. pc' = "build" /\ allBuilt'
      BY <1>1, <1>7 DEF allBuilt
    <3>2. ASSUME NEW k \in DOMAIN service'.started, NEW i \in members',
                 reservation'[i] = service'.started[k].id
          PROVE  i \in DOMAIN service'.started[k].configs
      <4>1. CASE k = n
        BY <1>1, <1>2, <1>3, <1>7, <2>1, <3>2, <4>1 DEF sent
      <4>2. CASE k # n
        BY <1>1, <1>3, <1>7, <2>1, <3>2, <4>2 DEF IInv, StartInv
      <4>3. QED BY <4>1, <4>2
    <3>3. startedRuns' \subseteq startedRuns \cup members
      BY <1>2, <1>6, <1>7
    <3>4. \A s \in said' : s.why \in {"refused", "changed"} =>
            s.runs \cap (left' \cup members' \cup startedRuns') = {}
      BY <1>1, <1>7, <2>1, <3>3 DEF IInv, StartInv
    <3>5. left' \cap members' = {}
      BY <1>1, <2>1 DEF IInv, StartInv
    <3>6. QED BY <3>1, <3>2, <3>4, <3>5 DEF StartInv
  <2>6. CliInv'
    <3>1. SUFFICES ASSUME caller = "cli" PROVE CliInv'
      BY <1>1 DEF CliInv, command
    <3>2. offered' = offered /\ startedRuns' = startedRuns \cup DOMAIN sent /\ DOMAIN sent \subseteq members
      BY <1>1, <1>2, <1>6, <1>7, SameRuns
    <3>3. "start" \in given /\ startsNow
      BY <1>1, <3>1 DEF IInv, CliInv, startsNow
    <3>4. left' \cup members' \cup startedRuns' = left \cup members \cup startedRuns
      BY <1>1, <2>1, <3>2
    <3>5. QED BY <1>1, <1>7, <2>1, <3>1, <3>2, <3>3, <3>4 DEF IInv, CliInv, startsNow, command
  <2>7. QED BY <1>5, <1>7, <2>2, <2>3, <2>4, <2>5, <2>6 DEF IInv
<1>8. CASE service' \in {service, accepted(id)} /\ failStart("service", members)
  <2>1. ReservationInv'
    <3>1. CASE service' = service
      BY <1>1, <3>1, SameReservations DEF IInv
    <3>2. QED BY <1>5, <1>8, <3>1
  <2>2. startedRuns' \subseteq startedRuns \cup members
    <3>1. CASE service' = service
      BY <3>1 DEF startedRuns
    <3>2. CASE service' = accepted(id)
      BY <1>2, <1>6, <3>2
    <3>3. QED BY <1>8, <3>1, <3>2
  <2>3. service' \in Service
    BY <1>3, <1>8 DEF IInv, TypeOK, StartOK
  <2>4. startsNow /\ (caller = "cli" => "start" \in given)
    BY <1>1 DEF startsNow, IInv, CliInv
  <2>5. QED BY <1>1, <1>4, <1>8, <2>1, <2>2, <2>3, <2>4, FailedStart
<1>9. QED BY <1>1, <1>7, <1>8

LEMMA StartedStep == ASSUME IInv, Started PROVE IInv'
<1>1. /\ pc = "build" /\ allBuilt /\ nextToSubmit = 0
      /\ group' = <<>> /\ built' = <<>> /\ pc' = "reserve"
      /\ UNCHANGED <<command, configs, results, exitCode, left, reservation, uploads, packed, said,
                     service, disk>>
  BY DEF Started, at, goTo
<1>2. members' = {}
  BY <1>1 DEF members, Range
<1>3. packed = Nothing
  BY <1>1 DEF IInv, BuildInv, toBuild, allBuilt, TypeOK, StartOK
<1>4. members \subseteq startedRuns
  <2> DEFINE waiting == {k \in DOMAIN built : reservation[group[k]] \notin startedIds}
  <2>1. /\ group \in Seq(DOMAIN results) /\ DOMAIN group = DOMAIN built
        /\ DOMAIN built = 1 .. Len(built)
    BY <1>1 DEF allBuilt, IInv, TypeOK, StartOK
  <2>2. \A i \in members : reservation[i] # 0
    BY <1>1 DEF IInv, BuildInv, check
  <2>3. waiting = {}
    <3>1. ASSUME waiting # {} PROVE FALSE
      <4>1. waiting \in SUBSET Nat
        BY <2>1
      <4>2. Min(waiting) \in waiting
        BY <3>1, <4>1, MinIsLeast
      <4>3. reservation[group[Min(waiting)]] = 0
        BY <1>1, <3>1 DEF nextToSubmit
      <4>4. group[Min(waiting)] \in members
        BY <2>1, <4>2 DEF members, Range
      <4>5. QED BY <2>2, <4>3, <4>4
    <3>2. QED BY <3>1
  <2>4. ASSUME NEW i \in members PROVE i \in startedRuns
    <3>1. reservation[i] \in startedIds
      BY <2>1, <2>3 DEF members, Range
    <3>2. PICK k \in DOMAIN service.started : reservation[i] = service.started[k].id
      BY <3>1 DEF startedIds
    <3>3. QED BY <3>2 DEF IInv, StartInv, startedRuns
  <2>5. QED BY <2>4
<1>5. TypeOK'
  <2>1. StartOK'
    BY <1>1 DEF IInv, TypeOK, StartOK, Service, Submitted, command
  <2>2. QED BY <1>1, <2>1 DEF IInv, TypeOK, CommandOK, RunsOK, Phases, command
<1>6. PhaseInv'
  BY <1>1, <1>3 DEF IInv, PhaseInv, startsNow, command
<1>7. ConfigInv' /\ ResultInv' /\ ReservationInv'
  BY <1>1, SameConfigs, SameResults, SameReservations DEF IInv
<1>8. BuildInv'
  BY <1>1, <1>2, <1>3 DEF IInv, BuildInv, command
<1>9. StartInv'
  BY <1>1, <1>2 DEF IInv, StartInv, startedRuns
<1>10. CliInv'
  <2>1. SUFFICES ASSUME caller = "cli" PROVE CliInv'
    BY <1>1 DEF CliInv, command
  <2>2. offered' = offered /\ startedRuns' = startedRuns
    BY <1>1, SameRuns DEF startedRuns
  <2>3. left \cup members \cup startedRuns = left' \cup members' \cup startedRuns'
    BY <1>1, <1>2, <1>4, <2>2
  <2>4. startsNow /\ "start" \in given
    BY <1>1, <2>1 DEF IInv, CliInv, startsNow
  <2>5. QED BY <1>1, <1>2, <2>1, <2>2, <2>3, <2>4 DEF IInv, CliInv, startsNow, command
<1>11. QED BY <1>5, <1>6, <1>7, <1>8, <1>9, <1>10 DEF IInv

(***************************************************************************)
(* Outside of the code.                                                    *)
(***************************************************************************)
LEMMA ExpiresStep == ASSUME IInv, Expires PROVE IInv'
<1>1. PICK id \in service.open : service' = [service EXCEPT !.open = @ \ {id}]
  BY DEF Expires
<1>2. /\ pc \in {"choose", "check", "build"}
      /\ UNCHANGED <<command, pc, configs, results, exitCode, left, group, reservation, uploads,
                     packed, built, said, disk>>
  BY DEF Expires
<1>3. /\ service' \in Service /\ service'.reserved = service.reserved
      /\ service'.started = service.started
  BY <1>1 DEF IInv, TypeOK, StartOK, Service
<1>4. caller = "cli" => "start" \in given
  BY <1>2 DEF IInv, PhaseInv, CliInv, startsNow
<1>5. TypeOK'
  <2>1. service' \in Service'
    BY <1>2, <1>3 DEF Service, Submitted, command
  <2>2. StartOK'
    BY <1>2, <2>1 DEF IInv, TypeOK, StartOK, command
  <2>3. QED BY <1>2, <2>2 DEF IInv, TypeOK, CommandOK, RunsOK, command
<1>6. PhaseInv'
  BY <1>2, <1>3 DEF IInv, PhaseInv, startsNow, command
<1>7. ConfigInv' /\ ResultInv' /\ BuildInv'
  BY <1>2, SameConfigs, SameResults, SameBuild DEF IInv
<1>8. ReservationInv'
  BY <1>2, <1>3, SameReservations DEF IInv
<1>9. StartInv'
  BY <1>2, <1>3, SameStart DEF IInv, allBuilt
<1>10. CliInv'
  <2>1. offered' = offered /\ startedRuns' = startedRuns /\ members' = members
    BY <1>2, <1>3, SameRuns DEF startedRuns, members, Range
  <2>2. \A i : check(i)' <=> check(i)
    BY <1>2, SameRuns DEF check
  <2>3. QED BY <1>2, <1>4, <2>1, <2>2 DEF IInv, CliInv, startsNow, command
<1>11. QED BY <1>5, <1>6, <1>7, <1>8, <1>9, <1>10 DEF IInv

LEMMA ProviderEditsStep ==
  ASSUME IInv, UNCHANGED <<command, pc, configs, results, exitCode, starting>>,
         disk' \in Nat
  PROVE  IInv'
<1>1. TypeOK'
  BY SameStarting DEF IInv, TypeOK, CommandOK, RunsOK, command
<1>2. PhaseInv'
  BY DEF IInv, PhaseInv, quiet, startsNow, command, starting
<1>3. ConfigInv' /\ ResultInv' /\ BuildInv'
  BY SameConfigs, SameResults, SameBuild DEF IInv, starting
<1>4. ReservationInv'
  BY SameReservations DEF IInv, starting
<1>5. StartInv'
  BY SameStart DEF IInv, allBuilt, starting
<1>6. CliInv'
  <2>1. offered' = offered /\ startedRuns' = startedRuns /\ members' = members
    BY SameRuns DEF startedRuns, members, Range, starting
  <2>2. \A i : check(i)' <=> check(i)
    BY SameRuns DEF check, starting
  <2>3. QED BY <2>1, <2>2 DEF IInv, CliInv, startsNow, command, starting
<1>7. QED BY <1>1, <1>2, <1>3, <1>4, <1>5, <1>6 DEF IInv

LEMMA InitInv == Init => IInv
<1>1. SUFFICES ASSUME Init PROVE IInv
  OBVIOUS
<1>2. entries \in Seq(FileEntries(endorsement)) /\ Len(entries) > 0
  <2>1. PICK n \in Nat \ {0} : entries \in [1 .. n -> FileEntries(endorsement)]
    <3>1. ASSUME entries \in [1 .. 1 -> FileEntries(endorsement)] PROVE \E n \in Nat \ {0} : entries \in [1 .. n -> FileEntries(endorsement)]
      BY <3>1
    <3>2. ASSUME entries \in UNION {[1 .. n -> FileEntries(endorsement)] : n \in 1 .. MaxEntries}
          PROVE  \E n \in Nat \ {0} : entries \in [1 .. n -> FileEntries(endorsement)]
      BY <3>2
    <3>3. QED BY <1>1, <3>1, <3>2 DEF Init
  <2>2. QED BY <2>1
<1>3. /\ pc = "options" /\ configs = <<>> /\ results = <<>> /\ exitCode = 0
      /\ left = {} /\ group = <<>> /\ packed = Nothing /\ built = <<>> /\ said = {}
      /\ service = emptyService /\ disk = 0
      /\ reservation = [i \in DOMAIN entries |-> 0] /\ uploads = [i \in DOMAIN entries |-> Nothing]
      /\ caller \in Callers /\ endorsement \in Endorsements
  BY <1>1 DEF Init
<1>4. TypeOK
  <2>1. service \in Service
    BY <1>3 DEF Service, emptyService
  <2>2. CommandOK /\ RunsOK
    BY <1>2, <1>3 DEF CommandOK, RunsOK, Phases
  <2>3. StartOK
    BY <1>3, <2>1 DEF StartOK, Content
  <2>4. QED BY <2>2, <2>3 DEF TypeOK
<1>5. members = {}
  BY <1>3 DEF members, Range
<1>6. PhaseInv /\ ConfigInv /\ ResultInv
  BY <1>3 DEF PhaseInv, ConfigInv, ResultInv, quiet, startsNow
<1>7. BuildInv /\ ReservationInv /\ StartInv /\ CliInv
  BY <1>3, <1>5 DEF BuildInv, ReservationInv, StartInv, CliInv, startsNow, emptyService
<1>8. QED BY <1>4, <1>6, <1>7 DEF IInv

LEMMA NextInv == IInv /\ [Next]_vars => IInv'
<1>1. SUFFICES ASSUME IInv, [Next]_vars PROVE IInv'
  OBVIOUS
<1>2. CASE CheckOptions BY <1>1, <1>2, CheckOptionsStep
<1>3. CASE ReadConfig BY <1>1, <1>3, ReadConfigStep
<1>4. CASE Open BY <1>1, <1>4, OpenStep
<1>5. CASE RunEntry BY <1>1, <1>5, RunEntryStep
<1>6. CASE FinishRuns BY <1>1, <1>6, FinishRunsStep
<1>7. CASE Reserve BY <1>1, <1>7, ReserveStep
<1>8. CASE Finish BY <1>1, <1>8, FinishStep
<1>9. CASE \E i \in DOMAIN results : reserveForLocalRun(i) BY <1>1, <1>9, ReserveForLocalRunStep
<1>10. CASE DesktopStarts BY <1>1, <1>10, DesktopStartsStep
<1>11. CASE CheckRuns BY <1>1, <1>11, CheckRunsStep
<1>12. CASE PackRcfInput BY <1>1, <1>12, PackRcfInputStep
<1>13. CASE UploadToSlot BY <1>1, <1>13, UploadToSlotStep
<1>14. CASE BuildEntry BY <1>1, <1>14, BuildEntryStep
<1>15. CASE SubmitCloudRun BY <1>1, <1>15, SubmitCloudRunStep
<1>16. CASE Started BY <1>1, <1>16, StartedStep
<1>17. CASE Expires BY <1>1, <1>17, ExpiresStep
<1>18. CASE ProviderEdits
  BY <1>1, <1>18, ProviderEditsStep DEF ProviderEdits, IInv, TypeOK, CommandOK
<1>19. CASE UNCHANGED vars
  BY <1>1, <1>19, ProviderEditsStep DEF vars, command, starting, IInv, TypeOK, CommandOK
<1>20. QED
  BY <1>1, <1>2, <1>3, <1>4, <1>5, <1>6, <1>7, <1>8, <1>9, <1>10, <1>11, <1>12, <1>13, <1>14,
     <1>15, <1>16, <1>17, <1>18, <1>19 DEF Next, Done

LEMMA Invariant == Spec => []IInv
  BY InitInv, NextInv, PTL DEF Spec

(***************************************************************************)
(* What follows for the service and the caller.                            *)
(***************************************************************************)
(* Every run of every recorded request passed and can be certified, and    *)
(* its entry says what that run was of (cloud/start.ts 138-240).           *)
THEOREM StartedRunsPassed == Spec => []WhatStartsIsWhatPassed
<1>1. IInv => WhatStartsIsWhatPassed
  <2>1. SUFFICES ASSUME IInv, NEW k \in DOMAIN service.started
                 PROVE  LET req == service.started[k] IN
                   /\ \A i \in DOMAIN req.configs :
                        /\ isSuccessfulRun(results[i]) /\ i \in service.reserved[req.id]
                        /\ faithful(i, req.configs[i])
                   /\ \A j \in DOMAIN service.started \ {k} :
                        DOMAIN req.configs \cap DOMAIN service.started[j].configs = {}
    BY DEF WhatStartsIsWhatPassed, faithful
  <2>2. ASSUME NEW i \in DOMAIN service.started[k].configs
        PROVE  /\ isSuccessfulRun(results[i]) /\ faithful(i, service.started[k].configs[i])
               /\ reservation[i] = service.started[k].id
               /\ i \in service.reserved[service.started[k].id]
    <3>1. /\ isSuccessfulRun(results[i]) /\ faithful(i, service.started[k].configs[i])
          /\ reservation[i] = service.started[k].id /\ i \in DOMAIN entries
      BY <2>1 DEF IInv, ReservationInv, TypeOK, CommandOK, RunsOK
    <3>2. service.started[k].id # 0
      <4>1. service.started \in Seq(Submitted)
        BY <2>1 DEF IInv, TypeOK, StartOK, Service
      <4>2. service.started[k] \in Submitted
        BY <2>1, <4>1
      <4>3. service.started[k].id \in Nat \ {0}
        BY <4>2 DEF Submitted
      <4>4. QED BY <4>3
    <3>3. QED BY <2>1, <3>1, <3>2 DEF IInv, ReservationInv
  <2>3. ASSUME NEW j \in DOMAIN service.started \ {k},
               NEW i \in DOMAIN service.started[k].configs \cap DOMAIN service.started[j].configs
        PROVE  FALSE
    BY <2>1 DEF IInv, ReservationInv
  <2>4. QED BY <2>2, <2>3
<1>2. QED BY <1>1, Invariant, PTL

(* The checks before a run and those at its end agree, whatever the file   *)
(* and the options say (cli/index.ts, cloud/local-run.ts).                 *)
THEOREM ChecksBeforeAndAfterAgree == Spec => []EarlyAndLateAgree
<1>1. IInv => EarlyAndLateAgree
  <2>1. SUFFICES ASSUME IInv, caller = "cli", "start" \in given, configs # <<>>
                 PROVE  EarlyAndLateAgree
    BY DEF EarlyAndLateAgree
  <2>2. /\ \A i \in DOMAIN configs : configs[i] \in CloudConfig
        /\ DOMAIN results \subseteq DOMAIN configs
        /\ disk \in Nat
    BY <2>1 DEF IInv, TypeOK, CommandOK, RunsOK
  <2>3. ASSUME NEW i \in DOMAIN configs
        PROVE  \/ couldStart(configs[i]) = ~whyNoCloudRunBeforeRun(configs[i])
               \/ endorsement = "rcf" /\ ~versionCertifies(configs[i])
    <3>1. /\ configs[i].endorsement = endorsement
          /\ configs[i].endorsement = "entity-event" => configs[i].mode \in {"observe", "full"}
      BY <2>1 DEF IInv, ConfigInv
    <3>2. QED BY <2>1, <2>2, <3>1, ChecksAgree
  <2>4. ASSUME NEW i \in DOMAIN results, isSuccessfulRun(results[i])
        PROVE  i \in offered
    <3>1. results # <<>>
      BY DEF isSuccessfulRun
    <3>2. /\ configs[i] \in CloudConfig /\ ~whyNoCloudRunBeforeRun(configs[i])
          /\ results[i] # stopped
      BY <2>1, <2>2, <2>4, <3>1 DEF IInv, ConfigInv, isSuccessfulRun, stopped
    <3>3. recordOf(configs[i], results[i])
      BY <2>1, <3>2 DEF IInv, ResultInv
    <3>4. hasRecord(configs[i], results[i])
      BY <2>1, <3>2, <3>3, LateIsNotRefused
    <3>5. QED BY <2>4, <3>4 DEF offered, isOffered
  <2>5. endorsement # "rcf" => \A s \in said : s.why = "service"
    BY <2>1 DEF IInv, CliInv
  <2>6. QED BY <2>3, <2>4, <2>5 DEF EarlyAndLateAgree
<1>2. QED BY <1>1, Invariant, PTL

(* The exit code is true of the runs and of what was started               *)
(* (cli/index.ts, resolveExitCode and the cloud command).                  *)
THEOREM ExitCodeTells == Spec => []ExitCodeIsTrue
<1>1. IInv => ExitCodeIsTrue
  <2>1. SUFFICES ASSUME IInv, pc = "done", caller = "cli" PROVE ExitCodeIsTrue
    BY DEF ExitCodeIsTrue, at
  <2>2. members = {}
    BY <2>1 DEF IInv, PhaseInv, startsNow, members, Range
  <2>3. "start" \notin given => service = emptyService
    BY <2>1 DEF IInv, CliInv
  <2>4. ASSUME exitCode # 2
        PROVE  /\ Len(results) = Len(configs) /\ configs # <<>> /\ left = {} /\ said = {}
               /\ exitCode = 0 => \A i \in DOMAIN results :
                    \/ results[i].status = "passed"
                    \/ endorsement = "rcf" /\ results[i].status = "unwritten"
               /\ exitCode = 1 => \E i \in DOMAIN results : results[i].status # "passed"
               /\ exitCode = 0 /\ "start" \in given => offered = left \cup members \cup startedRuns
    BY <2>1, <2>4 DEF IInv, CliInv
  <2>5. ASSUME exitCode # 2 PROVE results # <<>>
    BY <2>1, <2>4, <2>5 DEF IInv, TypeOK, RunsOK
  <2>6. exitCode = 0 /\ "start" \in given => offered = startedRuns
    BY <2>2, <2>4
  <2>7. QED BY <2>3, <2>4, <2>5, <2>6 DEF ExitCodeIsTrue
<1>2. QED BY <1>1, Invariant, PTL

(* A start refused on this side has sent none of its runs                  *)
(* (cloud/start.ts 100, "No cloud run was started").                       *)
THEOREM RefusedMeansNotStarted == Spec => []RefusalMeansNothingStarted
<1>1. IInv => RefusalMeansNothingStarted
  BY DEF IInv, StartInv, RefusalMeansNothingStarted
<1>2. QED BY <1>1, Invariant, PTL
=============================================================================
