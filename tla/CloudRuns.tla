------------------------------ MODULE CloudRuns ------------------------------
(***************************************************************************)
(* A command of the CLI that runs an endorsement over the entries of a     *)
(* configuration file, or over one server, and at the end may start cloud  *)
(* runs of what passed (cli/index.ts, cli/render.ts, cli/cloud-command.ts, *)
(* cloud/start.ts, cloud/runs.ts, cloud/rcf-pack.ts).  The desktop starts  *)
(* through the same functions: it reserves for one run at a time, and may  *)
(* hand over any runs it has, so it is the second caller here.             *)
(*                                                                         *)
(* Outside of the code and free: the service (it may refuse any call, and  *)
(* its answer may be lost after it did what was asked), reservations that  *)
(* expire, and the provider, who may change the files a run read.          *)
(***************************************************************************)
EXTENDS CloudEntry

CONSTANTS
  CommandLines(_),   \* the sets of options given to the command of an endorsement
  FileEntries(_),    \* what an entry of a configuration file may say
  MaxEntries,        \* the most entries of a file
  MaxEdits           \* bounds how often the provider changes the files

(* Only an EntityEvent entry has a mode.                                   *)
ASSUME CloudAssumption ==
  \A e \in Endorsements : FileEntries(e) \subseteq
    [version : Versions, mode : IF e = "entity-event" THEN Modes ELSE {"unset"},
     flags : SUBSET RunFlags, addressed : BOOLEAN]

Callers == {"cli", "desktop"}

VARIABLES
  caller, endorsement,
  given,         \* the options given: "start" is --start-cloud-run
  entries,       \* the entries of the file, as written
  pc,
  configs,       \* the configurations that run
  results,       \* what each came to
  exitCode,
  left,          \* the runs whose start is still to come
  group,         \* the runs of the start under way, in order
  reservation,   \* of each run, the request ID reserved for it, 0 for none
  uploads,       \* of each run, the content uploaded for it
  packed,        \* the content in the temporary folder
  built,         \* the entries built so far, in the order of the group
  said,          \* how the starts that failed did, and of which runs
  service,       \* what the service holds
  disk           \* the content of the provider's files

vars == <<caller, endorsement, given, entries, pc, configs, results, exitCode, left, group,
          reservation, uploads, packed, built, said, service, disk>>

command == <<caller, endorsement, given, entries>>
starting == <<left, group, reservation, uploads, packed, built, said, service>>

(* reserved: of each request ID, the runs it names; open: those whose      *)
(* window lasts; started: the requests recorded, in order.                 *)
emptyService == [reserved |-> <<>>, open |-> {}, started |-> <<>>]

Init ==
  /\ caller \in Callers
  /\ endorsement \in Endorsements
  /\ given \in IF caller = "cli" THEN CommandLines(endorsement) ELSE {{"start", "config"}}
  /\ entries \in IF caller = "cli" /\ ("config" \notin given \/ endorsement = "rcf")
                 THEN [1..1 -> FileEntries(endorsement)]
                 ELSE UNION {[1..n -> FileEntries(endorsement)] : n \in 1..MaxEntries}
  /\ pc = "options"
  /\ configs = <<>> /\ results = <<>> /\ exitCode = 0
  /\ left = {} /\ group = <<>>
  /\ reservation = [i \in DOMAIN entries |-> 0]
  /\ uploads = [i \in DOMAIN entries |-> Nothing]
  /\ packed = Nothing /\ built = <<>> /\ said = {}
  /\ service = emptyService
  /\ disk = 0

at(p) == pc = p
goTo(p) == pc' = p

-----------------------------------------------------------------------------
(* Options, file and entries: what is refused before anything runs. *)

startCloudRunRefusal ==
  "start" \in given /\ ("config" \notin given \/ "noService" \in given)

ddFlagsRefusedBeforeRun ==
  /\ endorsement = "dd"
  /\ "start" \in given
  /\ given \cap {"noStrict", "skipVariations", "limit"} # {}

(* The cloud tests the provider's own server, with the provider's payloads. *)
ownServerOnly ==
  /\ "start" \in given
  /\ endorsement \in {"add-edit", "entity-event"}
  /\ given \cap {"autoPayloads", "mock"} # {}

(* An error that ends the command is reported by its catch. *)
fail == goTo("done") /\ exitCode' = 2

CheckOptions ==
  /\ at("options")
  /\ caller = "cli"
  /\ IF startCloudRunRefusal \/ ddFlagsRefusedBeforeRun \/ ownServerOnly THEN fail
     ELSE goTo("file") /\ UNCHANGED exitCode
  /\ UNCHANGED <<command, configs, results, starting, disk>>

rcfConfig(f) ==
  [endorsement |-> "rcf", version |-> coerceVersion(f.version), mode |-> "unset",
   flags |-> given \cap {"noSchemaValidation", "skipVariations"},
   addressed |-> "config" \in given /\ f.addressed]

(* Without a file: the server, and payloads for an Add/Edit run.           *)
directConfig(f) ==
  LET c == withFlags(endorsement, [f EXCEPT !.addressed = FALSE], given) IN
  IF endorsement = "add-edit" /\ "mock" \in given /\ "payloadsDir" \notin c.flags
  THEN [c EXCEPT !.flags = @ \cup {"autoPayloads"}] ELSE c

configOf(f) ==
  IF endorsement = "rcf" THEN rcfConfig(f)
  ELSE IF "config" \in given THEN withFlags(endorsement, f, given)
  ELSE directConfig(f)

entriesRefusedBeforeRun(cs) ==
  "start" \in given /\ \E i \in DOMAIN cs : whyNoCloudRunBeforeRun(cs[i])

(* A file that cannot be read, or names no provider to start a cloud run   *)
(* for, ends the command too.                                              *)
ReadConfig ==
  /\ at("file")
  /\ configs' = [i \in DOMAIN entries |-> configOf(entries[i])]
  /\ \E readable \in IF "config" \in given THEN BOOLEAN ELSE {TRUE} :
       IF ~readable \/ entriesRefusedBeforeRun(configs') THEN fail
       ELSE goTo("run") /\ UNCHANGED exitCode
  /\ UNCHANGED <<command, results, starting, disk>>

(* The desktop runs what it is given. *)
Open ==
  /\ at("options")
  /\ caller = "desktop"
  /\ configs' = [i \in DOMAIN entries |->
       [endorsement |-> endorsement, version |-> coerceVersion(entries[i].version), mode |-> entries[i].mode,
        flags |-> entries[i].flags, addressed |-> entries[i].addressed]]
  /\ goTo("run")
  /\ UNCHANGED <<command, results, exitCode, starting, disk>>

-----------------------------------------------------------------------------
(* The local runs. *)

stepsOf(c) ==
  <<IF c.endorsement = "dd" /\ "skipVariations" \in c.flags THEN "skipped" ELSE "passed">>

stopped == [status |-> "stopped", valid |-> FALSE]

result(c, status, valid, recorded) ==
  [status |-> status, valid |-> valid, endorsement |-> c.endorsement,
   version |-> c.version, mode |-> modeOfRun(c),
   ran |-> IF readsFiles(c) THEN readFrom(c, disk) ELSE Nothing,
   files |-> IF readsFiles(c) /\ recorded THEN readFrom(c, disk) ELSE Nothing]

(* An Add/Edit run without payloads fails before it writes anything.  A    *)
(* run that passed certifies by the rule of its endorsement, unless a step *)
(* came to less than that.  "unwritten" is a run whose reports could not   *)
(* be written and which failed of nothing else.  Only the desktop can hold *)
(* a result of an engine that did not record its payloads.                 *)
resultsOf(c) ==
  {stopped} \cup {result(c, s, FALSE, TRUE) : s \in {"failed", "incomplete", "unwritten"}}
  \cup (IF c.endorsement = "add-edit" /\ c.flags \cap PayloadFlags = {} THEN {}
        ELSE {result(c, "passed", v, recorded) :
                v \in {FALSE, validForCertification(c, stepsOf(c))},
                recorded \in IF caller = "desktop" /\ c.endorsement = "add-edit"
                             THEN BOOLEAN ELSE {TRUE}})

(* One entry at a time; one that stops is kept as stopped, and the next    *)
(* runs.                                                                   *)
RunEntry ==
  /\ at("run")
  /\ Len(results) < Len(configs)
  /\ \E r \in resultsOf(configs[Len(results) + 1]) : results' = Append(results, r)
  /\ UNCHANGED <<command, pc, configs, exitCode, starting, disk>>

someResult(statuses) == \E i \in DOMAIN results : results[i].status \in statuses

(* rcf exits on what was inferred, not on how the run ended: 1 for schema  *)
(* errors, 2 for no records or variations that could not be checked.       *)
rcfExitCodes == IF someResult({"stopped", "failed", "incomplete"}) THEN {1, 2} ELSE {0}

(* Plausible bug: entries that stopped have no result, and are not counted. *)
FaultyResolveExitCode == {IF someResult({"failed", "unwritten", "incomplete"}) THEN 1 ELSE 0}

resolveExitCode ==
  IF endorsement = "rcf" THEN rcfExitCodes
  ELSE {IF someResult({"stopped"}) THEN 2
        ELSE IF someResult({"failed", "unwritten", "incomplete"}) THEN 1 ELSE 0}

isOffered(i) == isSuccessfulRun(results[i]) /\ hasRecord(configs[i], results[i])

offered == {i \in DOMAIN results : isOffered(i)}

(* Only a run that names its provider, system and recipient is offered,    *)
(* and without --start-cloud-run nothing is sent.                          *)
FinishRuns ==
  /\ at("run")
  /\ Len(results) = Len(configs)
  /\ exitCode' \in IF caller = "cli" THEN resolveExitCode ELSE {0}
  /\ IF caller = "desktop" THEN goTo("choose") /\ UNCHANGED left
     ELSE /\ left' = IF "start" \in given THEN offered ELSE {}
          /\ goTo("reserve")
  /\ UNCHANGED <<command, configs, results, group, reservation, uploads, packed, built, said,
                 service, disk>>

-----------------------------------------------------------------------------
(* Reservations. *)

reserved(S) ==
  [service EXCEPT !.reserved = Append(@, S), !.open = @ \cup {Len(service.reserved) + 1}]

inOrder(S) ==
  CHOOSE s \in [1..Cardinality(S) -> S] :
    Range(s) = S /\ \A j, k \in DOMAIN s : j < k => s[j] < s[k]

members == Range(group)

(* A start that fails is said, and the groups after it are still sent; the *)
(* CLI exits with 2 whatever the local runs came to.                       *)
failStart(why, runs) ==
  /\ said' = said \cup {[why |-> why, runs |-> runs]}
  /\ exitCode' = IF caller = "cli" THEN 2 ELSE exitCode
  /\ group' = <<>> /\ built' = <<>> /\ packed' = Nothing
  /\ goTo("reserve")

(* One reservation for the entries that passed at one version.  What the   *)
(* service recorded is not known to the caller when the answer is lost.    *)
Reserve ==
  /\ at("reserve")
  /\ left # {}
  /\ LET version == configs[Min(left)].version
         runs == {i \in left : configs[i].version = version}
     IN /\ left' = left \ runs
        /\ \/ /\ service' = reserved(runs)
              /\ reservation' = [i \in DOMAIN reservation |->
                   IF i \in runs THEN Len(service.reserved) + 1 ELSE reservation[i]]
              /\ group' = inOrder(runs)
              /\ goTo("check")
              /\ UNCHANGED <<exitCode, built, packed, said>>
           \/ /\ service' \in {service, reserved(runs)}
              /\ failStart("service", runs)
              /\ UNCHANGED reservation
  /\ UNCHANGED <<command, configs, results, uploads, disk>>

(* The command is over when nothing is left to send. *)
Finish ==
  /\ at("choose") \/ (at("reserve") /\ left = {})
  /\ goTo("done")
  /\ UNCHANGED <<command, configs, results, exitCode, starting, disk>>

(* The desktop reserves for a run when it ends. *)
reserveForLocalRun(i) ==
  /\ at("choose")
  /\ results[i].status # "stopped" /\ reservation[i] = 0
  /\ isOffered(i) /\ ~ddSampleLimitRefusal(configs[i])
  /\ service' = reserved({i})
  /\ reservation' = [reservation EXCEPT ![i] = Len(service.reserved) + 1]
  /\ UNCHANGED <<command, pc, configs, results, exitCode, left, group, uploads, packed, built,
                 said, disk>>

(* It hands over any runs it has a result of, as one start for the version *)
(* of the first.                                                           *)
DesktopStarts ==
  /\ at("choose")
  /\ \E S \in SUBSET {i \in DOMAIN results : results[i].status # "stopped"} :
       /\ S # {}
       /\ group' = inOrder(S)
  /\ goTo("check")
  /\ UNCHANGED <<command, configs, results, exitCode, left, reservation, uploads, packed, built,
                 said, service, disk>>

-----------------------------------------------------------------------------
(* startCloudRun. *)

check(i) ==
  /\ reservation[i] # 0
  /\ isOffered(i)
  /\ configs[i].version = configs[group[1]].version

(* Every run is checked before anything is packed or sent. *)
CheckRuns ==
  /\ at("check")
  /\ IF \A i \in members : check(i)
     THEN goTo("build") /\ UNCHANGED <<group, built, packed, exitCode, said>>
     ELSE failStart("refused", members)
  /\ UNCHANGED <<command, configs, results, left, reservation, uploads, service, disk>>

toBuild == Len(built) < Len(group)

(* Plausible bug: a request goes as soon as an entry of it is built.       *)
FaultyAllBuilt == built # <<>>

allBuilt == Len(built) = Len(group)

current == group[Len(built) + 1]

needsUpload == endorsement = "rcf" /\ uploads[current] = Nothing

(* The zip is made from the files as they are now, compared with what the  *)
(* run recorded, and refused when it is over the size the service takes.   *)
PackRcfInput ==
  /\ at("build") /\ toBuild /\ needsUpload /\ packed = Nothing
  /\ \/ /\ disk = results[current].files
        /\ packed' = disk
        /\ UNCHANGED <<pc, group, built, exitCode, said>>
     \/ /\ disk # results[current].files
        /\ failStart("changed", members)
     \/ failStart("refused", members)
  /\ UNCHANGED <<command, configs, results, left, reservation, uploads, service, disk>>

(* A slot is given for a reservation that is open; the folder is removed   *)
(* however the upload ends.                                                *)
UploadToSlot ==
  /\ at("build") /\ toBuild /\ needsUpload /\ packed # Nothing
  /\ \/ /\ reservation[current] \in service.open
        /\ uploads' = [uploads EXCEPT ![current] = packed]
        /\ packed' = Nothing
        /\ UNCHANGED <<pc, group, built, exitCode, said>>
     \/ /\ failStart("service", members)
        /\ UNCHANGED uploads
  /\ UNCHANGED <<command, configs, results, left, reservation, service, disk>>

BuildEntry ==
  /\ at("build") /\ toBuild /\ ~needsUpload
  /\ LET e == cloudEntryOf(configs[current], results[current], uploads[current], disk) IN
     IF e.refused THEN failStart("refused", members)
     ELSE built' = Append(built, e) /\ UNCHANGED <<pc, group, packed, exitCode, said>>
  /\ UNCHANGED <<command, configs, results, left, reservation, uploads, service, disk>>

startedIds == {service.started[k].id : k \in DOMAIN service.started}

(* The requests still to submit, one per reservation in the order first    *)
(* seen.                                                                   *)
nextToSubmit ==
  LET waiting == {k \in DOMAIN built : reservation[group[k]] \notin startedIds} IN
  IF waiting = {} THEN 0 ELSE reservation[group[Min(waiting)]]

request(id) ==
  [id |-> id,
   configs |-> [i \in {group[k] : k \in {x \in DOMAIN built : reservation[group[x]] = id}} |->
                  built[CHOOSE k \in DOMAIN built : group[k] = i]]]

(* The first refusal ends the start; what was accepted before it runs.     *)
SubmitCloudRun ==
  /\ at("build") /\ allBuilt /\ nextToSubmit # 0
  /\ LET id == nextToSubmit
         accepted == [service EXCEPT !.started = Append(@, request(id)), !.open = @ \ {id}]
     IN \/ /\ id \in service.open
           /\ service' = accepted
           /\ \/ UNCHANGED <<pc, group, built, packed, exitCode, said>>
              \/ failStart("service", members)
        \/ failStart("service", members) /\ UNCHANGED service
  /\ UNCHANGED <<command, configs, results, left, reservation, uploads, disk>>

(* Every request was accepted. *)
Started ==
  /\ at("build") /\ allBuilt /\ nextToSubmit = 0
  /\ group' = <<>> /\ built' = <<>>
  /\ goTo("reserve")
  /\ UNCHANGED <<command, configs, results, exitCode, left, reservation, uploads, packed, said,
                 service, disk>>

-----------------------------------------------------------------------------
(* Outside of the code. *)

Expires ==
  /\ pc \in {"choose", "check", "build"}
  /\ \E id \in service.open : service' = [service EXCEPT !.open = @ \ {id}]
  /\ UNCHANGED <<command, pc, configs, results, exitCode, left, group, reservation, uploads,
                 packed, built, said, disk>>

ProviderEdits ==
  /\ pc # "done"
  /\ endorsement \in {"rcf", "add-edit"}
  /\ disk < MaxEdits
  /\ disk' = disk + 1
  /\ UNCHANGED <<command, pc, configs, results, exitCode, starting>>

Done == at("done") /\ UNCHANGED vars

Next ==
  \/ CheckOptions \/ ReadConfig \/ Open
  \/ RunEntry \/ FinishRuns
  \/ Reserve \/ Finish
  \/ \E i \in DOMAIN results : reserveForLocalRun(i)
  \/ DesktopStarts
  \/ CheckRuns \/ PackRcfInput \/ UploadToSlot \/ BuildEntry \/ SubmitCloudRun \/ Started
  \/ Expires \/ ProviderEdits
  \/ Done

Spec == Init /\ [][Next]_vars

-----------------------------------------------------------------------------
(* Properties. *)

startedRuns == UNION {DOMAIN service.started[k].configs : k \in DOMAIN service.started}

(* What starts is what passed: every run of every recorded request ended   *)
(* passed and certifiable, under the reservation made for it, and its      *)
(* entry names the version, mode and strictness it ran with and the very   *)
(* content it read, whatever has become of the files since.  No run is in  *)
(* two requests.                                                           *)
WhatStartsIsWhatPassed ==
  \A k \in DOMAIN service.started :
    LET req == service.started[k] IN
    /\ \A i \in DOMAIN req.configs :
         /\ isSuccessfulRun(results[i])
         /\ i \in service.reserved[req.id]
         /\ LET e == req.configs[i]  c == configs[i]  r == results[i] IN
            /\ e.endorsement = r.endorsement
            /\ e.version = r.version
            /\ e.mode = r.mode
            /\ e.flags = c.flags \cap {"noStrict"}
            /\ e.files = r.ran
    /\ \A j \in DOMAIN service.started \ {k} :
         DOMAIN req.configs \cap DOMAIN service.started[j].configs = {}

couldStart(c) ==
  \E r \in resultsOf(c) :
    /\ isSuccessfulRun(r)
    /\ hasRecord(c, r)
    /\ ~cloudEntryOf(c, r, r.ran, disk).refused

(* The checks before a CLI run and those at its end agree, for every       *)
(* configuration: one that is refused early could not have started, and    *)
(* one that is let through can start if it passes, is offered when it did, *)
(* and is not refused by a check of its own side after that, except that   *)
(* the files of an RCF run may be too large.  An RCF run of an older       *)
(* version is let through although it cannot certify.                      *)
EarlyAndLateAgree ==
  (caller = "cli" /\ "start" \in given /\ configs # <<>>) =>
    /\ \A i \in DOMAIN configs :
         \/ couldStart(configs[i]) = ~whyNoCloudRunBeforeRun(configs[i])
         \/ endorsement = "rcf" /\ ~versionCertifies(configs[i])
    /\ \A i \in DOMAIN results : isSuccessfulRun(results[i]) => i \in offered
    /\ endorsement # "rcf" => \A s \in said : s.why = "service"

(* An exit code of 0 means that every run passed, and with                 *)
(* --start-cloud-run that every run that can be certified was started, and *)
(* that happens only with it; 2 says that something stopped or was not     *)
(* started.  An RCF run whose reports could not be written exits 0 too.    *)
ExitCodeIsTrue ==
  (at("done") /\ caller = "cli") =>
    /\ exitCode = 0 =>
         /\ Len(results) = Len(configs) /\ results # <<>>
         /\ \A i \in DOMAIN results :
              \/ results[i].status = "passed"
              \/ endorsement = "rcf" /\ results[i].status = "unwritten"
         /\ "start" \in given => offered = startedRuns
    /\ exitCode = 1 => ~(\A i \in DOMAIN results : results[i].status = "passed") /\ said = {}
    /\ "start" \notin given => service = emptyService

(* A refusal that says "No cloud run was started" says so rightly: no run  *)
(* of that start is with the service.                                      *)
RefusalMeansNothingStarted ==
  \A s \in said : s.why \in {"refused", "changed"} => s.runs \cap startedRuns = {}

=============================================================================
