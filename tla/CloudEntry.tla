------------------------------ MODULE CloudEntry ------------------------------
(***************************************************************************)
(* What a cloud run is started from: a local run that passed               *)
(* (cloud/local-run.ts), and how the configuration of that run comes from  *)
(* a configuration file and the command line (sdk/config.ts,               *)
(* cli/index.ts).                                                          *)
(*                                                                         *)
(* A configuration carries what decides whether its run certifies and can  *)
(* be sent: version, mode, the flags below, and whether it names provider, *)
(* system and recipient.  The servers, credentials and scopes it copies    *)
(* are left out, and so is the wording of a refusal.  "autoPayloads",      *)
(* "payloadsDir" and "payloads" are the sources of an Add/Edit run's       *)
(* payloads; an EntityEvent run may have a "payloadsDir" too.              *)
(***************************************************************************)
EXTENDS Certification, SequencesExt, FiniteSetsExt

PayloadFlags == {"autoPayloads", "payloadsDir", "payloads"}

RunFlags == PayloadFlags \cup {"limit", "noStrict", "skipVariations", "noSchemaValidation"}

Versions == {"unset", "unknown", "latest", "older"}

Modes == {"unset", "observe", "full"}

-----------------------------------------------------------------------------
(* From the file to a configuration.  A version or mode the file leaves    *)
(* out is "unset", one that names no version of the standard "unknown".    *)

coerceVersion(v) == IF v \in {"unset", "unknown"} THEN "latest" ELSE v

configEntryToDD(f) ==
  [endorsement |-> "dd", version |-> coerceVersion(f.version), mode |-> "unset",
   flags |-> f.flags \cap {"limit", "noStrict"}, addressed |-> f.addressed]

configEntryToCore(f) ==
  [endorsement |-> "core", version |-> coerceVersion(f.version), mode |-> "unset",
   flags |-> {}, addressed |-> f.addressed]

configEntryToAddEdit(f) ==
  [endorsement |-> "add-edit",
   version |-> IF f.version = "unset" THEN "latest" ELSE f.version,
   mode |-> "unset", flags |-> f.flags \cap PayloadFlags, addressed |-> f.addressed]

configEntryToEntityEvent(f) ==
  [endorsement |-> "entity-event", version |-> "latest",
   mode |-> IF f.mode = "unset" THEN "observe" ELSE f.mode,
   flags |-> {}, addressed |-> f.addressed]

(* A flag given on the command line goes over what every entry says.       *)
withFlags(e, f, given) ==
  CASE e = "dd" ->
         LET c == configEntryToDD(f) IN
         [c EXCEPT !.version = IF "older" \in given THEN "older" ELSE @,
                   !.flags = (IF "strict" \in given THEN @ \ {"noStrict"} ELSE @)
                             \cup (given \cap {"limit", "noStrict", "skipVariations"})]
    [] e = "core" -> configEntryToCore(f)
    [] e = "add-edit" ->
         LET c == configEntryToAddEdit(f) IN
         [c EXCEPT !.flags = @ \cup (given \cap {"autoPayloads"})]
    [] e = "entity-event" ->
         LET c == configEntryToEntityEvent(f)  m == given \cap {"observe", "full"} IN
         [c EXCEPT !.mode = IF m = {} THEN @ ELSE CHOOSE x \in m : TRUE]

-----------------------------------------------------------------------------
(* Before the run. *)

ddSampleLimitRefusal(c) == c.endorsement = "dd" /\ "limit" \in c.flags

uncertifiableBeforeRun(c) ==
  CASE c.endorsement = "core" -> ~versionCertifies(c)
    [] c.endorsement = "dd" ->
         \/ ~versionCertifies(c)
         \/ c.flags \cap {"noStrict", "skipVariations"} # {}
         \/ ddSampleLimitRefusal(c)
    [] c.endorsement = "add-edit" ->
         \/ ~versionCertifies(c)
         \/ "autoPayloads" \in c.flags
         \/ c.flags \cap PayloadFlags = {}
    [] c.endorsement = "entity-event" ->
         \/ c.mode # "full"
         \/ c.mode = "full" /\ "payloadsDir" \in c.flags
    [] c.endorsement = "rcf" -> c.flags \cap {"noSchemaValidation", "skipVariations"} # {}

FaultyWhyNoCloudRunBeforeRun(c) == ~c.addressed

whyNoCloudRunBeforeRun(c) == ~c.addressed \/ uncertifiableBeforeRun(c)

-----------------------------------------------------------------------------
(* After the run.  A result says how it ended, whether it certifies, which *)
(* endorsement it is of, and what it records of what ran: the version, the *)
(* mode, and the content of the files it read.  "none" is nothing          *)
(* recorded: Add/Edit records no payloads it wrote itself, and an earlier  *)
(* engine recorded none at all.                                            *)

Nothing == -1

(* What the pipeline resolves a configuration to when the run starts. *)
modeOfRun(c) ==
  IF c.endorsement = "entity-event" /\ c.mode = "unset" THEN "observe" ELSE c.mode

readsFiles(c) ==
  c.endorsement = "rcf" \/ (c.endorsement = "add-edit" /\ "autoPayloads" \notin c.flags)

(* A folder is read at the run; payloads written into the configuration    *)
(* are as old as the configuration, 0.                                     *)
readFrom(c, disk) ==
  IF c.endorsement = "rcf" \/ "payloadsDir" \in c.flags THEN disk ELSE 0

isSuccessfulRun(r) == r.status = "passed" /\ r.valid

pairingRefusal(c, r) == r.endorsement # c.endorsement

entityEventModeOf(c, r) == IF r.mode = "unset" THEN c.mode ELSE r.mode

(* undefined when it is not addressed, or an RCF run did not record what   *)
(* it read.                                                                *)
hasRecord(c, r) ==
  ~pairingRefusal(c, r) /\ c.addressed /\ (c.endorsement = "rcf" => r.files # Nothing)

Refused == [refused |-> TRUE]

(* The entry says what the cloud is to run: files is the content it tests. *)
entry(c, mode, files) ==
  [refused |-> FALSE, endorsement |-> c.endorsement, version |-> c.version,
   mode |-> mode, flags |-> c.flags \cap {"noStrict"}, files |-> files]

(* Plausible bug: the folder is read again when the entry is built. *)
FaultyAddEditPayloadsOf(c, r, disk) ==
  IF "autoPayloads" \in c.flags THEN Refused
  ELSE IF "payloadsDir" \in c.flags THEN entry(c, "unset", disk)
  ELSE entry(c, "unset", 0)

addEditPayloadsOf(c, r, disk) ==
  IF "autoPayloads" \in c.flags THEN Refused
  ELSE IF r.files # Nothing THEN entry(c, "unset", r.files)
  ELSE IF "payloadsDir" \in c.flags \/ "payloads" \notin c.flags THEN Refused
  ELSE entry(c, "unset", 0)

entityEventCloudEntryOf(c, r) ==
  IF entityEventModeOf(c, r) = "full" /\ "payloadsDir" \in c.flags THEN Refused
  ELSE entry(c, entityEventModeOf(c, r), Nothing)

cloudEntryOf(c, r, upload, disk) ==
  IF pairingRefusal(c, r) \/ ~c.addressed THEN Refused
  ELSE CASE c.endorsement = "core"         -> entry(c, "unset", Nothing)
         [] c.endorsement = "dd"           -> IF ddSampleLimitRefusal(c) THEN Refused
                                              ELSE entry(c, "unset", Nothing)
         [] c.endorsement = "add-edit"     -> addEditPayloadsOf(c, r, disk)
         [] c.endorsement = "entity-event" -> entityEventCloudEntryOf(c, r)
         [] c.endorsement = "rcf"          -> IF upload = Nothing THEN Refused
                                              ELSE entry(c, "unset", upload)

=============================================================================
