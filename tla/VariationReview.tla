--------------------------- MODULE VariationReview --------------------------
(***************************************************************************)
(* The commands around a variations review: the check that writes a report *)
(* (find-variations, or a run of an endorsement), submit-variations-report *)
(* and submit-variation-decisions that start or refresh the review,        *)
(* list-variation-reviews that exports it as a sheet, and                  *)
(* update-variations that writes people's mappings to the canonical store. *)
(*                                                                         *)
(* Outside of the code and free: the Variations Service (it may refuse any *)
(* call, be locked by another user, or do what is asked and lose the       *)
(* answer), the reviewer who fills in the sheet, and the provider, who     *)
(* may change the metadata between commands.                               *)
(***************************************************************************)
EXTENDS Variations, TLC

CONSTANTS
  StandardMetadata,    \* the reference metadata
  Compared,            \* metadata and mappings the two walks are compared on
  Reviewed,            \* the metadata whose variations are reviewed
  Sheets(_),           \* the sheets a reviewer may make of the rows at hand
  UpdateSheets,        \* the suggestions given to update-variations
  ChunkSizes, UpdateFlags,
  MappingOf(_),        \* the path and mapping a stored suggestion stands for
  CurrentMajor,        \* the Data Dictionary in force
  MaxCommands          \* bounds the commands run

(* What metadata hold has a name, and the values of a lookup are all of    *)
(* one kind: a lookup is an enumeration of the metadata, which has the     *)
(* name of its namespace, or is made of records of the Lookup Resource     *)
(* (serializer.ts 197, lookup-resource.ts 165).                            *)
ASSUME ReviewAssumption ==
  /\ \A report \in Reviewed :
       /\ \A d \in report.fields : None \notin {d.resource, d.field}
       /\ \A l \in report.lookups : l.value # None
       /\ \A l, m \in report.lookups : l.lookup = m.lookup => l.string = m.string
  /\ ChunkSizes \subseteq Nat \ {0}
  /\ \A items \in UpdateSheets : items \in Seq({items[i] : i \in DOMAIN items})

VARIABLES
  provider,      \* the metadata served
  store,         \* the canonical store: mappings by path
  reportFile,    \* the report on disk: addressed, and the marks of its entries
  pool,          \* the review rows the service holds
  lockHeld,      \* another user is reviewing
  update,        \* the update under way, or the last one
  last,          \* the last command, how it ended, and the sheet given to it
  commands

vars == <<provider, store, reportFile, pool, lockHeld, update, last, commands>>

Actions == {"ignore", "remove", "submit-to-ft"}

Unmarked == [actions |-> {}, target |-> None, thread |-> {}]

Init ==
  /\ \E start \in Compared \cup (Reviewed \X {<<>>}) : provider = start[1] /\ store = start[2]
  /\ reportFile = None
  /\ pool = <<>>
  /\ lockHeld = FALSE
  /\ update = None
  /\ last = [command |-> "none", exit |-> 0, sheet |-> None]
  /\ commands = 0

idle == update # None => update.outcome # "running"
mayRun == idle /\ commands < MaxCommands /\ provider \in Reviewed

ends(command, exit, sheet) ==
  /\ last' = [command |-> command, exit |-> exit, sheet |-> sheet]
  /\ commands' = commands + 1

-----------------------------------------------------------------------------
(* The check. *)

(* How asking for it may end (service.ts): through the service, or through *)
(* a module that the host names in its place.                              *)
computeVariationsViaService == {"report", "noToken", "rejected", "tooLarge", "failed"}

computeViaHandler == {"report", "cannotBeLoaded", "noFunction", "threw", "notAReport"}

Variation(metadata, mappings) ==
  computeVariationsV2([provider |-> MetadataMap(metadata), standard |-> MetadataMap(StandardMetadata),
                       mappings |-> mappings, applyIntEnumFix |-> TRUE])

(* find-variations.ts writes the report only when it has a variation, so   *)
(* an earlier one stays when there is none; an endorsement's run writes it *)
(* always, with the four coordinates a submission needs.                   *)
written(addressed, entries) ==
  IF addressed \/ entries # {}
  THEN [addressed |-> addressed, marks |-> [e \in entries |-> Unmarked]]
  ELSE reportFile

FindVariations(addressed) ==
  /\ mayRun
  /\ \E answer \in computeVariationsViaService \cup computeViaHandler, records \in {Variation(provider, store)} :
       \E entries \in {prepareResults(records, CurrentMajor)} :
       /\ reportFile' = IF answer = "report" THEN written(addressed, entries) ELSE reportFile
       /\ ends("find-variations", IF answer = "report" THEN 0 ELSE 2, None)
  /\ UNCHANGED <<provider, store, pool, lockHeld, update>>

-----------------------------------------------------------------------------
(* The sheet (variations/csv.ts parseDecisionsCsv). *)

(* A sheet is not well formed when a quote in it does not close, or a row  *)
(* is longer than its header.                                              *)
tokenizeCsv(sheet) == IF sheet.wellFormed THEN sheet.rows ELSE None

(* The column of a comment has two spellings; a column that is not known   *)
(* is passed over.                                                         *)
Cell(sheet, headers, value) == IF headers \cap sheet.columns = {} THEN None ELSE value

ParsedRow(sheet, row) ==
  [row EXCEPT !.action = Cell(sheet, {"Action"}, row.action),
              !.comment = Cell(sheet, {"Comment", "Comments"}, row.comment)]

asksNothing(row) == row.action = None /\ row.comment = None

asking(items) ==
  LET kept[i \in 0..Len(items)] ==
        IF i = 0 THEN <<>>
        ELSE IF asksNothing(items[i]) THEN kept[i - 1] ELSE Append(kept[i - 1], items[i])
  IN kept[Len(items)]

parseDecisionsCsv(sheet) ==
  LET items == [i \in DOMAIN sheet.rows |-> ParsedRow(sheet, sheet.rows[i])]
  IN IF \/ tokenizeCsv(sheet) = None
        \/ "Resource Name" \notin sheet.columns
        \/ \E i \in DOMAIN items : items[i].resource = None
        \/ \A i \in DOMAIN items : asksNothing(items[i])
     THEN None
     ELSE asking(items)

-----------------------------------------------------------------------------
(* Marking a report (variations/decisions.ts). *)

NamedDepths(row) ==
  {d \in 1..3 : \/ d = 1 /\ row.target.resource # None
                \/ d = 2 /\ row.target.field # None
                \/ d = 3 /\ row.target.value # None}

(* The target is named whole, and no deeper than the element. *)
depthMismatch(row) ==
  LET depth == IF row.value # None THEN 3 ELSE IF row.field # None THEN 2 ELSE 1
  IN NamedDepths(row) \notin {{}, 1..depth}

mappingFrom(row) == IF NamedDepths(row) = {} THEN None ELSE row.target

(* What a row leaves out is a wildcard; a value may be either form. *)
matchEntries(entries, row) ==
  {e \in entries :
    /\ e.resource = row.resource
    /\ row.field # None => e.field = row.field
    /\ row.value # None => row.value \in {e.lookup, e.odata}}

(* The rows up to i that were taken up, as edits of the entries they name; *)
(* wrong tells whether a row could not be.                                 *)
NoEdit == [action |-> None, target |-> None, comments |-> {}]

(* Plausible bug: of several entries the first is taken. *)
FaultyUnusable(matched) == matched = {}

unusable(matched) == \A e \in matched : matched # {e}

ApplyRow(state, row) ==
  LET matched == matchEntries(DOMAIN state.edits, row)
      mapping == mappingFrom(row)
      refused == [state EXCEPT !.wrong = TRUE]
  IN IF row.action \notin Actions \cup {None} \/ depthMismatch(row) THEN refused
     ELSE IF asksNothing(row) /\ mapping = None THEN state
     ELSE IF unusable(matched) THEN refused
     ELSE LET entry == CHOOSE e \in matched : TRUE
              existing == state.edits[entry]
          IN IF \/ None \notin {row.action, existing.action} /\ row.action # existing.action
                \/ None \notin {mapping, existing.target} /\ mapping # existing.target
             THEN refused
             ELSE [state EXCEPT !.edits[entry] =
                    [action |-> IF row.action # None THEN row.action ELSE existing.action,
                     target |-> IF mapping # None THEN mapping ELSE existing.target,
                     comments |-> existing.comments \cup ({row.comment} \ {None})]]

Edits(entries, rows) ==
  LET after[i \in 0..Len(rows)] ==
        IF i = 0 THEN [edits |-> [e \in entries |-> NoEdit], wrong |-> FALSE]
        ELSE ApplyRow(after[i - 1], rows[i])
  IN after[Len(rows)]

MarkedBy(marks, edit) ==
  [actions |-> marks.actions \cup ({edit.action} \ {None}),
   target |-> IF edit.target # None THEN edit.target ELSE marks.target,
   thread |-> marks.thread \cup edit.comments]

(* None when a row is unusable, a comment having nobody to go to included. *)
applySheetToReport(report, rows) ==
  LET result == Edits(DOMAIN report.marks, rows)
      unaddressed == ~report.addressed /\ \E i \in DOMAIN rows : rows[i].comment # None
  IN IF unaddressed \/ result.wrong THEN None
     ELSE [report EXCEPT !.marks = [e \in DOMAIN report.marks |-> MarkedBy(report.marks[e], result.edits[e])]]

-----------------------------------------------------------------------------
(* Submitting (variations/submit.ts). *)

(* What the service may answer a submission; a lock always refuses.        *)
(* "lost": it did what was asked, and the caller does not hear of it.      *)
SubmitAnswers == IF lockHeld THEN {"locked", "rejected", "unsent"}
                 ELSE {"ok", "lost", "rejected", "unverifiable", "unsent"}

(* The service replaces the rows it holds, and keeps what was said.        *)
Stored(marks) ==
  [e \in DOMAIN marks |->
    [marks[e] EXCEPT !.thread = @ \cup (IF e \in DOMAIN pool THEN pool[e].thread ELSE {})]]

(* The report names the provider, the system, the recipient and the        *)
(* version it is for.                                                      *)
coordinatesOf(report) == report.addressed

(* Exit codes: 3 is a lock, which is not a fault. *)
Submit(command, report, sheet) ==
  IF ~coordinatesOf(report)
  THEN pool' = pool /\ ends(command, 2, sheet)
  ELSE \E answer \in SubmitAnswers \cup {"noToken"} :
         /\ pool' = IF answer \in {"ok", "lost"} THEN Stored(report.marks) ELSE pool
         /\ ends(command, CASE answer = "ok" -> 0 [] answer = "locked" -> 3 [] OTHER -> 2, sheet)

SubmitVariationsReport(dryRun) ==
  /\ mayRun
  /\ reportFile # None
  /\ IF dryRun THEN pool' = pool /\ ends("submit-report", IF coordinatesOf(reportFile) THEN 0 ELSE 2, None)
     ELSE Submit("submit-report", reportFile, None)
  /\ UNCHANGED <<provider, store, reportFile, lockHeld, update>>

(* --dry-run and --json end before anything is sent. *)
SubmitVariationDecisions(sheet, preview) ==
  /\ \E rows \in {parseDecisionsCsv(sheet)} :
     IF rows = None THEN pool' = pool /\ ends("decisions", 2, sheet)
     ELSE \E marked \in {applySheetToReport(reportFile, rows)} :
          IF marked = None THEN pool' = pool /\ ends("decisions", 2, sheet)
          ELSE IF preview THEN pool' = pool /\ ends("decisions", 0, sheet)
          ELSE Submit("decisions", marked, sheet)
  /\ UNCHANGED <<provider, store, reportFile, lockHeld, update>>

-----------------------------------------------------------------------------
(* Exporting the review as a sheet (variations/review.ts,                  *)
(* cli/variations-review-command.ts): every page of the pool is followed,  *)
(* and a page that fails, or pages without end, fail the command.          *)

NoTarget == [resource |-> None, field |-> None, value |-> None]

ValueOf(e) == IF e.lookup # None THEN e.lookup ELSE e.odata

(* What the pool says of an element: the target somebody chose, else the   *)
(* first suggestion.  Nothing is inferred: a match of a field says nothing *)
(* of the resource, and the row says nothing of it either.                 *)
TargetOf(e, marks) ==
  IF marks.target # None THEN marks.target
  ELSE IF e.suggestions = {} THEN NoTarget
  ELSE LET s == CHOOSE s \in e.suggestions : TRUE
       IN [resource |-> s.resource, field |-> s.field, value |-> IF s.lookup # None THEN s.lookup ELSE s.odata]

ReviewRow(e, marks) ==
  [resource |-> e.resource, field |-> e.field, value |-> ValueOf(e),
   action |-> None, comment |-> None, target |-> TargetOf(e, marks)]

ReviewRows == {ReviewRow(e, pool[e]) : e \in DOMAIN pool}

-----------------------------------------------------------------------------
(* Writing people's mappings (variations/service.ts, csv.ts).  A           *)
(* suggestion: [path, outcome, target]; it must say something.             *)

parseVariationsCsv(items) ==
  IF items = <<>> \/ \E i \in DOMAIN items : \/ items[i].path = <<>>
                                             \/ items[i].outcome = None /\ items[i].target = None
  THEN None ELSE items

(* Plausible bug: the rest that does not fill a chunk is not sent. *)
FaultyChunk(items, size) ==
  [i \in 1..(Len(items) \div size) |-> SubSeq(items, (i - 1) * size + 1, i * size)]

chunk(items, size) ==
  [i \in 1..((Len(items) + size - 1) \div size) |->
    SubSeq(items, (i - 1) * size + 1, IF i * size < Len(items) THEN i * size ELSE Len(items))]

(* What was said of the items, summed over the chunks.                     *)
NothingSaid == [denied |-> 0, overwriteRequired |-> 0, invalid |-> 0, corrected |-> 0]

(* flags: adminReview, fastTrack, overwrite; adminSecret is the credential *)
(* a fast-track submission needs.                                          *)
UpdateRefused(flags, token) ==
  \/ {"adminReview", "fastTrack"} \subseteq flags
  \/ "fastTrack" \in flags /\ "adminSecret" \notin flags
  \/ ~token

StartUpdate(items, size, flags, token) ==
  /\ mayRun
  /\ IF parseVariationsCsv(items) = None \/ UpdateRefused(flags, token)
     THEN /\ ends("update", 2, None)
          /\ UNCHANGED update
     ELSE /\ update' = [chunks |-> chunk(items, size), flags |-> flags, next |-> 1,
                       said |-> NothingSaid, submitted |-> 0, told |-> 0,
                       items |-> items, landed |-> 0, committed |-> 0, outcome |-> "running"]
          /\ UNCHANGED <<last, commands>>
  /\ UNCHANGED <<provider, store, reportFile, pool, lockHeld>>

Batch == update.chunks[update.next]

(* What may become of an item: it lands, as it is or corrected, or is      *)
(* refused for want of permission, because there is one already and the    *)
(* overwrite flag was not given, or as not valid.                          *)
Fates(item) ==
  {"denied", "invalid"} \cup
    (IF item.path \in DOMAIN store /\ "overwrite" \notin update.flags THEN {"exists"} ELSE {"landed", "corrected"})

Count(fate, which) == Cardinality({i \in DOMAIN fate : fate[i] \in which})

Landed(fate) ==
  LET paths == {Batch[i].path : i \in {j \in DOMAIN fate : fate[j] \in {"landed", "corrected"}}}
  IN [p \in paths |-> MappingOf(Batch[CHOOSE i \in DOMAIN Batch :
                                    Batch[i].path = p /\ fate[i] \in {"landed", "corrected"}])] @@ store

(* Chunks go one after the other.  A chunk that is refused tells how many  *)
(* were committed before; a call that throws does not.                     *)
UpdateChunk ==
  /\ update # None
  /\ update.outcome = "running"
  /\ update.next <= Len(update.chunks)
  /\ \/ \E fate \in {f \in [DOMAIN Batch -> {"landed", "corrected", "denied", "invalid", "exists"}] :
                     \A i \in DOMAIN Batch : f[i] \in Fates(Batch[i])} :
          /\ store' = Landed(fate)
          /\ update' = [update EXCEPT
                          !.next = @ + 1,
                          !.said = [denied |-> @.denied + Count(fate, {"denied"}),
                                    overwriteRequired |-> @.overwriteRequired + Count(fate, {"exists"}),
                                    invalid |-> @.invalid + Count(fate, {"invalid"}),
                                    corrected |-> @.corrected + Count(fate, {"corrected"})],
                          !.landed = @ + Count(fate, {"landed", "corrected"}),
                          !.committed = @ + 1]
          /\ UNCHANGED <<last, commands>>
     \/ /\ update' = [update EXCEPT !.outcome = "refused", !.told = update.next - 1]
        /\ ends("update", 2, None)
        /\ UNCHANGED store
     \/ /\ update' = [update EXCEPT !.outcome = "threw"]
        /\ ends("update", 2, None)
        /\ store' \in {store, Landed([i \in DOMAIN Batch |-> "landed"])}
  /\ UNCHANGED <<provider, reportFile, pool, lockHeld>>

UpdateEnds ==
  /\ update # None
  /\ update.outcome = "running"
  /\ update.next > Len(update.chunks)
  /\ update' = [update EXCEPT !.outcome = "done", !.submitted = Len(update.items)]
  /\ ends("update", 0, None)
  /\ UNCHANGED <<provider, store, reportFile, pool, lockHeld>>

-----------------------------------------------------------------------------
(* The others: the reviewer, another user, the provider. *)

(* The reviewer makes a sheet of rows exported from the review, or written *)
(* by hand of the report.                                                  *)
RowsAtHand ==
  ReviewRows \cup {[ReviewRow(e, Unmarked) EXCEPT !.target = NoTarget] : e \in DOMAIN reportFile.marks}

Decide ==
  /\ mayRun
  /\ reportFile # None
  /\ \E sheet \in Sheets(RowsAtHand), preview \in BOOLEAN : SubmitVariationDecisions(sheet, preview)

OtherUser ==
  /\ mayRun
  /\ pool # <<>>
  /\ lockHeld' = ~lockHeld
  /\ UNCHANGED <<provider, store, reportFile, pool, update, last, commands>>

ProviderChanges ==
  /\ mayRun
  /\ provider' \in Reviewed \ {provider}
  /\ UNCHANGED <<store, reportFile, pool, lockHeld, update, last, commands>>

-----------------------------------------------------------------------------
Next ==
  \/ \E addressed \in BOOLEAN : FindVariations(addressed)
  \/ \E dryRun \in BOOLEAN : SubmitVariationsReport(dryRun)
  \/ Decide
  \/ \E items \in UpdateSheets, size \in ChunkSizes, flags \in UpdateFlags, token \in BOOLEAN :
       StartUpdate(items, size, flags, token)
  \/ UpdateChunk
  \/ UpdateEnds
  \/ OtherUser
  \/ ProviderChanges

Spec == Init /\ [][Next]_vars

-----------------------------------------------------------------------------
(* Properties. *)

(* The walk the backend runs claims to be the one it replaces: with the    *)
(* type-aware gate off it reports exactly what that one reports.  It does  *)
(* not: some are lost, some are added.  (compute.ts: "faithful to legacy   *)
(* EXCEPT the type-aware annotation gate ... Set applyIntEnumFix: false to *)
(* reproduce legacy exactly".)                                             *)
BeforeAnything == commands = 0 /\ reportFile = None

WithoutTheGate ==
  [provider |-> MetadataMap(provider), standard |-> MetadataMap(StandardMetadata),
   mappings |-> store, applyIntEnumFix |-> FALSE]

V2ReproducesLegacy ==
  BeforeAnything => \A ctx \in {WithoutTheGate} : computeVariationsV2(ctx) = computeVariations(ctx)

(* What the later walk loses of the earlier one's report: the finding that  *)
(* a standard expansion is declared as something else; what people mapped   *)
(* an expansion to, as a field; an OData name that is near a standard one   *)
(* only as written, where the distance allowed is rounded and not cut off;  *)
(* and what stands beside an exact match of the same element.               *)
MachineNear(v) == v.odata # None /\ v.suggestion.strategy = "Edit Distance"

Lost(v, legacy, ctx) ==
  \/ v.suggestion = MustBeExpansion
  \/ v.bucket = "fields" /\ ctx.provider[v.resource][v.field].expansion
  \/ MachineNear(v) /\ <<v.odata, v.suggestion.odata>> \notin NearPairs
  \/ /\ ~v.suggestion.exact
     /\ \E w \in legacy : w.suggestion.exact /\ [w EXCEPT !.suggestion = v.suggestion] = v

(* What it adds: variations of expansions, as expansions; all that is said  *)
(* of a standard expansion declared as something else, at which the earlier *)
(* looks no further; and an OData name that is near only when normalised.   *)
Added(v, ctx) ==
  \/ v.bucket = "expansions"
  \/ /\ v.bucket # "resources" /\ HasField(ctx.standard, v.resource, v.field)
     /\ ctx.standard[v.resource][v.field].expansion
     /\ ~ctx.provider[v.resource][v.field].expansion
  \/ MachineNear(v) /\ <<v.odata, v.suggestion.odata>> \notin RawNearPairs

(* How far that claim is off, exactly: for any metadata and any mappings,   *)
(* the reports of the two walks differ in what is Lost and in what is       *)
(* Added, in all of it, and in nothing else.  Each of the seven ways is a   *)
(* way in which the code breaks its own claim, V2ReproducesLegacy.          *)
V2DiffersAsNamed ==
  BeforeAnything =>
    \A ctx \in {WithoutTheGate} :
    \A v2 \in {computeVariationsV2(ctx)}, legacy \in {computeVariations(ctx)} :
      /\ legacy \ v2 = {v \in legacy : Lost(v, legacy, ctx)}
      /\ v2 \ legacy = {v \in v2 : Added(v, ctx)}

(* A sheet can speak of every entry of a report, and of each of them       *)
(* alone: the row of an entry's own coordinates matches that entry only.   *)
(* (decisions.ts matchEntries on what compute.ts writes.)                  *)
EveryEntryIsAddressable ==
  reportFile # None =>
    \A entries \in {DOMAIN reportFile.marks} : \A e \in entries :
      matchEntries(entries, ReviewRow(e, Unmarked)) = {e}

(* A sheet lands whole or not at all.  When decisions were submitted and   *)
(* the service took them, each row that asked for something names one      *)
(* entry of the review, which has the action and the comment; no entry has *)
(* an action nobody asked for, nor two that one sheet asked for; and       *)
(* nothing that was said before is gone.  (decisions.ts, submit.ts)        *)
Names(row, e) ==
  /\ row.resource = e.resource
  /\ row.field \in {None, e.field}
  /\ row.value \in {None, e.lookup, e.odata}

Asked(sheet) ==
  LET heard == {[row EXCEPT !.action = IF "Action" \in sheet.columns THEN @ ELSE None,
                            !.comment = IF {"Comment", "Comments"} \cap sheet.columns # {} THEN @ ELSE None] :
                  row \in {sheet.rows[i] : i \in DOMAIN sheet.rows}}
  IN {row \in heard : <<row.action, row.comment>> # <<None, None>>}

SheetLandsWhole ==
  [][last'.command = "decisions" /\ commands' = commands + 1 /\ pool' # pool =>
      \A asked \in {Asked(last'.sheet)} : \A held \in {reportFile.marks} :
        /\ DOMAIN pool' = DOMAIN held
        /\ \A row \in asked : \E e \in DOMAIN held :
             /\ {o \in DOMAIN held : Names(row, o)} = {e}
             /\ row.action \in pool'[e].actions \cup {None}
             /\ row.comment \in pool'[e].thread \cup {None}
             /\ row.target \in {NoTarget, pool'[e].target}
        /\ \A e \in DOMAIN held :
             /\ \A a \in pool'[e].actions \ held[e].actions : \E row \in asked : Names(row, e) /\ row.action = a
             /\ Cardinality(pool'[e].actions \ held[e].actions) <= 1
             /\ e \in DOMAIN pool => pool[e].thread \subseteq pool'[e].thread]_vars

(* What update-variations says of the store is so: when it ends well, each *)
(* suggestion of the sheet landed or is counted as refused; when a chunk   *)
(* is refused, it tells how many chunks were committed before.             *)
(* (service.ts updateVariationsViaService; a call that throws tells        *)
(* nothing.)                                                               *)
CommittedIsCounted ==
  update # None =>
    /\ update.outcome = "done" =>
         update.submitted = update.landed + update.said.denied + update.said.overwriteRequired + update.said.invalid
    /\ update.outcome = "refused" => update.told = update.committed
=============================================================================
