----------------------------- MODULE CoreWalks ------------------------------
(***************************************************************************)
(* The scenarios of the Web API Core test that look at the form of what a  *)
(* server returns (web-api-core/test-runner.ts): the pass over the         *)
(* provider with the decision it leads to, the structural scenarios, the   *)
(* walk along the server's own pages, and $expand with its second leg      *)
(* through the navigation path.  CoreScenarios has the ones that compare   *)
(* data; a behaviour of CoreSpec is of either kind.                        *)
(*                                                                         *)
(* A server holds records and related items, and may deviate in one way    *)
(* from what OData asks of it; besides, any request may be refused, be     *)
(* answered without the headers of OData, or be lost.                      *)
(***************************************************************************)
EXTENDS CoreScenarios

CONSTANTS
  Servers,     \* what a run may meet: see Server
  TopAsked,    \* the 5 of $top=5 and $skip=5
  WalkBound,   \* PAGING_WALK_TOP_BOUND
  WalkPages    \* PAGING_WALK_MAX_PAGES

ASSUME WalkBounds == TopAsked \in Nat \ {0} /\ WalkBound \in Nat \ {0} /\ WalkPages \in Nat \ {0}

Keyless == "undefined"     \* the key of a record that has none, as text
End == -1                  \* no nextLink
Blank == -2                \* a nextLink that is the empty string

Deviations ==
  {"none", "ignores-top", "ignores-skip", "unstable", "links-on", "repeats", "stops", "loops",
   "blank", "keyless", "no-count", "undercounts", "other-record", "silent", "lenient"}

NavDeviations ==
  {"none", "refuses", "null", "null-item", "absent", "path-refuses", "path-204", "path-null",
   "path-empty", "path-more"}

(* An expanded item, and what its ResourceRecordKey says.                  *)
Item == [kind : {"valid", "invalid", "null"}, rrk : {"own", "other", "none"}]

(* A collection navigation property: its type, the related items of each   *)
(* record expanded, and whether it is paged, which lets a first page be    *)
(* empty as long as it links on.                                           *)
Nav == [target : STRING, parents : Seq([key : BOOLEAN, items : Seq(Item)]), paged : BOOLEAN,
        deviation : NavDeviations]

(* report is the metadata as the schema generator sees it: the types in    *)
(* the order of their declaration, and whether each compiles.              *)
Server ==
  [version : {"2.0.0", "2.1.0"}, odata : {"4.0", "4.01", "none"}, kind : {"required", "known", "unknown"},
   document : [context : BOOLEAN, paged : BOOLEAN, entries : Nat, names : BOOLEAN, lists : BOOLEAN],
   declared : Presence, table : Seq(STRING), pageSize : Nat, canWalk : BOOLEAN,
   deviation : Deviations, navs : Seq(Nav), report : Seq([name : STRING, compiles : BOOLEAN])]

VARIABLES
  server,   \* what the run meets, fixed
  left,     \* the scenarios not yet recorded, in order
  probe,    \* the scenario under way
  report    \* what is recorded: the last result, what it rests on, and the verdict

walkVars == <<server, left, probe, report>>

Faults == {"answered", "refused", "unsound", "lost"}

NoProbe ==
  [sent |-> 0, keys |-> <<>>, at |-> 0, failed |-> FALSE, unsure |-> FALSE, earlier |-> FALSE,
   nav |-> 1, warned |-> FALSE, inline |-> <<>>, path |-> <<>>, faults |-> {}]

NoWalk ==
  /\ server = "none" /\ left = <<>> /\ probe = NoProbe
  /\ report = [scenario |-> "none", outcome |-> "none", evidence |-> NoProbe, served |-> "indeterminate",
               failed |-> FALSE, untested |-> FALSE, dropped |-> FALSE, verdict |-> "none"]

structural == <<"fetch-by-key", "select", "top", "skip", "count", "response-code-400", "response-code-404">>

WalksInit ==
  /\ server \in Servers
  /\ left = <<"metadata", "service-document", "serving">> \o structural
              \o (IF isCore21OrLater(server.version) THEN <<"server-driven-paging", "expand">> ELSE <<>>)
  /\ probe = NoProbe
  /\ report = [scenario |-> "none", outcome |-> "none", evidence |-> NoProbe, served |-> "indeterminate",
               failed |-> FALSE, untested |-> FALSE, dropped |-> FALSE, verdict |-> "none"]

(* A result is recorded; with the last one the verdict is reached.         *)
Note(outcome, evidence) ==
  LET failed == report.failed \/ reports(outcome) \/ evidence.earlier
  IN  /\ left' = Tail(left)
      /\ probe' = NoProbe
      /\ report' = [report EXCEPT !.scenario = Head(left), !.outcome = outcome, !.evidence = evidence,
                                  !.failed = failed,
                                  !.verdict = IF Len(left) = 1 THEN coreVerdict(failed, FALSE, FALSE) ELSE @]

after(fault) == [probe EXCEPT !.sent = @ + 1, !.faults = @ \cup {fault}]

-----------------------------------------------------------------------------
(***************************************************************************)
(* The server's pages.  A page of the records from position at, of which   *)
(* at most top are asked for, and where its link leads.                    *)
(***************************************************************************)
lesserOf(a, b) == IF a < b THEN a ELSE b

page(at, top) ==
  LET size == Len(server.table)
      limit == IF server.deviation = "ignores-top" THEN size ELSE lesserOf(top, size)
      to == lesserOf(at + server.pageSize, limit)
      order == IF server.deviation = "unstable" /\ at > 0 THEN Reverse(server.table) ELSE server.table
      rows == CASE server.deviation \in {"silent", "loops"} -> <<>>
                [] server.deviation = "keyless" -> [i \in 1..(to - at) |-> Keyless]
                [] OTHER -> SubSeq(order, at + 1, to)
      next == CASE server.deviation = "loops" -> at
                [] server.deviation = "stops" -> End
                [] server.deviation = "links-on" -> to
                [] to >= limit -> (IF server.deviation = "blank" THEN Blank ELSE End)
                [] server.deviation = "repeats" -> to - 1
                [] OTHER -> to
  IN  [rows |-> rows, next |-> next]

(* Records asked for with $skip; an answer that is an error is taken for   *)
(* one record without a key.                                               *)
rowsSkipping(skip, fault) ==
  LET from == IF server.deviation = "ignores-skip" THEN 0 ELSE lesserOf(skip, Len(server.table))
  IN  IF fault = "refused" THEN <<Keyless>>
      ELSE IF from = Len(server.table) THEN <<>> ELSE page(from, from + TopAsked).rows

-----------------------------------------------------------------------------
(***************************************************************************)
(* The pass over the provider.                                             *)
(***************************************************************************)
(* assertODataResponse for a status of 200.                                *)
assertODataResponse(fault) == fault = "answered"

Metadata(fault) ==
  /\ Head(left) = "metadata"
  /\ Note(IF assertODataResponse(fault) /\ server.odata # "none" THEN "passed" ELSE "failed", after(fault))

(* Only a document that is whole tells that a resource is not served.      *)
parseServiceDocument(document) ==
  IF ~document.context \/ document.paged \/ document.entries = 0 \/ ~document.names THEN "indeterminate"
  ELSE IF document.lists THEN "present" ELSE "absent"

ServiceDocument(fault) ==
  LET passes == assertODataResponse(fault) /\ server.document.entries > 0
  IN  /\ Head(left) = "service-document"
      /\ left' = Tail(left)
      /\ report' = [report EXCEPT !.scenario = "service-document",
                                  !.outcome = IF passes THEN "passed" ELSE "failed", !.evidence = after(fault),
                                  !.failed = @ \/ ~passes,
                                  !.served = IF passes THEN parseServiceDocument(server.document) ELSE @]
      /\ UNCHANGED probe

(* The resource is tested unless neither surface has it.                   *)
Serving ==
  LET decision == resolveServingDecision(server.kind, server.version, report.served, server.declared)
      failed == report.failed \/ decision = "fail"
  IN  /\ Head(left) = "serving"
      /\ \/ /\ decision = "run"
            /\ left' = Tail(left)
            /\ UNCHANGED report
         \/ /\ decision # "run"
            /\ left' = <<>>
            /\ report' = [report EXCEPT !.scenario = "serving", !.evidence = NoProbe, !.failed = failed,
                                        !.outcome = IF decision = "fail" THEN "failed" ELSE "skipped",
                                        !.verdict = coreVerdict(failed, FALSE, FALSE)]
      /\ UNCHANGED probe

-----------------------------------------------------------------------------
(***************************************************************************)
(* runStructuralScenario, and the scenarios that must be refused.          *)
(***************************************************************************)
(* buildStructuralUrl: $select alone is asked for without $top.            *)
topOf(s) == IF s = "select" THEN Len(server.table) ELSE TopAsked

holdsForm(s) ==
  LET rows == page(0, topOf(s)).rows
  IN  CASE s = "fetch-by-key" -> server.deviation \notin {"other-record", "keyless", "silent"}
        [] s = "select" -> rows # <<>>
        [] s = "top" -> Len(rows) <= TopAsked
        [] s = "count" -> /\ server.deviation # "no-count"
                          /\ server.deviation = "undercounts" => Len(rows) <= Len(server.table) - 1

Structural(fault) ==
  /\ Head(left) \in {"fetch-by-key", "select", "top", "count"}
  /\ Note(IF assertODataResponse(fault) /\ holdsForm(Head(left)) THEN "passed" ELSE "failed", after(fault))

(* An error needs no headers to be the error that was asked for.           *)
Refusal(fault) ==
  /\ Head(left) \in {"response-code-400", "response-code-404"}
  /\ Note(CASE fault = "lost" -> "errored"
            [] fault \in {"answered", "unsound"} /\ server.deviation # "lenient" -> "passed"
            [] OTHER -> "failed", after(fault))

Skip(fault) ==
  /\ Head(left) = "skip"
  /\ \/ /\ fault = "lost"
        /\ Note("failed", after(fault))
     \/ /\ fault # "lost" /\ probe.sent = 0
        /\ probe' = [after(fault) EXCEPT !.keys = rowsSkipping(0, fault), !.failed = ~assertODataResponse(fault)]
        /\ UNCHANGED <<left, report>>
     \/ /\ fault # "lost" /\ probe.sent = 1
        /\ LET rows == rowsSkipping(TopAsked, fault)
               overlap == Range(rows) \cap Range(probe.keys)
           IN  Note(IF probe.failed \/ ~assertODataResponse(fault) \/ overlap # {} THEN "failed" ELSE "passed",
                    [after(fault) EXCEPT !.keys = @ \o rows])

-----------------------------------------------------------------------------
(***************************************************************************)
(* runPagingScenario: $top=1 must not link on; then a walk of the server's *)
(* pages under a $top of its own, for a resource with timestamps to filter *)
(* by.  Only the status of a page is looked at.                            *)
(***************************************************************************)
TopOne(fault) ==
  /\ Head(left) = "server-driven-paging" /\ probe.sent = 0
  /\ LET links == page(0, 1).next \notin {End, Blank}
         failed == fault \in {"refused", "lost"} \/ links
     IN  IF server.canWalk
         THEN probe' = [after(fault) EXCEPT !.failed = failed] /\ UNCHANGED <<left, report>>
         ELSE Note(IF failed THEN "failed" ELSE "passed", after(fault))

walkPasses(keys, total, linked) ==
  /\ IsInjective(keys)
  /\ ~(total > WalkBound \/ (total >= WalkBound /\ linked))

WalkPage(fault) ==
  /\ Head(left) = "server-driven-paging" /\ probe.sent > 0
  /\ LET here == page(probe.at, WalkBound)
         keys == probe.keys \o here.rows
         linked == here.next # End
         evidence == [after(fault) EXCEPT !.keys = keys, !.at = here.next]
         goesOn == linked /\ here.next # Blank /\ probe.sent < WalkPages /\ Len(keys) < WalkBound
     IN  \/ /\ fault \in {"refused", "lost"}
            /\ Note("failed", after(fault))
         \/ /\ fault \notin {"refused", "lost"} /\ goesOn
            /\ probe' = evidence
            /\ UNCHANGED <<left, report>>
         \/ /\ fault \notin {"refused", "lost"} /\ ~goesOn
            /\ Note(IF ~probe.failed /\ walkPasses(keys, Len(keys), linked) THEN "passed" ELSE "failed", evidence)

-----------------------------------------------------------------------------
(***************************************************************************)
(* The validator of expanded items (sdk/expand-schema.ts), built from the  *)
(* metadata: the types before the first that compiles are known not to;    *)
(* one after it shows when an item of it is validated.                     *)
(***************************************************************************)
buildExpandSchema(types) ==
  LET good == {i \in DOMAIN types : types[i].compiles}
  IN  [built |-> good # {},
       undeterminable |-> {types[i].name : i \in {j \in DOMAIN types : \A g \in good : j < g}}]

validate(item, target) ==
  LET types == server.report
      compiles == \E i \in DOMAIN types : types[i].name = target /\ types[i].compiles
  IN  IF target \in buildExpandSchema(types).undeterminable \/ ~compiles THEN "indeterminate"
      ELSE IF item.kind = "valid" THEN "valid" ELSE "invalid"

(* summarizeItemValidation: one invalid item fails, one not evaluated      *)
(* leaves open.                                                            *)
summarize(items, target) ==
  LET found == {validate(items[i], target) : i \in DOMAIN items}
  IN  IF "invalid" \in found THEN "invalid" ELSE IF "indeterminate" \in found THEN "indeterminate" ELSE "valid"

(* The value of the navigation property on a record, and of its path.      *)
Value(shape, items, linked) == [shape |-> shape, items |-> items, linked |-> linked]

NullItem == [kind |-> "null", rrk |-> "none"]
related(nav, parent) ==
  IF nav.paged THEN Value("list", <<>>, parent.items # <<>>) ELSE Value("list", parent.items, FALSE)

expanded(nav, parent) ==
  CASE nav.deviation = "absent" -> Value("absent", <<>>, FALSE)
    [] nav.deviation = "null" /\ parent.items = <<>> -> Value("null", <<>>, FALSE)
    [] nav.deviation = "null-item" -> Value("list", Append(parent.items, NullItem), FALSE)
    [] OTHER -> related(nav, parent)

pathValue(nav, parent) ==
  CASE nav.deviation = "path-null" -> Value("null", <<>>, FALSE)
    [] nav.deviation = "path-empty" -> Value("list", <<>>, FALSE)
    [] nav.deviation = "path-more" -> Value("list", Append(parent.items, [kind |-> "valid", rrk |-> "own"]), FALSE)
    [] OTHER -> related(nav, parent)

collectionShapeError(value) ==
  value.shape # "list" \/ \E i \in DOMAIN value.items : value.items[i].kind = "null"

hasRecords(value) == value.items # <<>> \/ value.linked

(* The record whose path is taken: one with items, or else any with a key. *)
chosenParent(nav) ==
  LET keyed == {i \in DOMAIN nav.parents : nav.parents[i].key}
      withItems == {i \in keyed : expanded(nav, nav.parents[i]).items # <<>>}
      from == IF withItems # {} THEN withItems ELSE keyed
  IN  IF from = {} THEN 0 ELSE CHOOSE i \in from : \A j \in from : i <= j

(* expandRrkWarnings: an item that names another record than its own.      *)
rrkWarns(nav) ==
  \E i \in DOMAIN nav.parents : LET items == expanded(nav, nav.parents[i]).items
                                IN  nav.parents[i].key /\ \E j \in DOMAIN items : items[j].rrk = "other"

-----------------------------------------------------------------------------
(***************************************************************************)
(* runExpandNavScenarios: one result for each property.  They reach the    *)
(* report together, when the last one is there.                            *)
(***************************************************************************)
NavDone(outcome, evidence) ==
  IF probe.nav = Len(server.navs) THEN Note(outcome, evidence)
  ELSE /\ probe' = [NoProbe EXCEPT !.nav = probe.nav + 1, !.earlier = evidence.earlier \/ outcome = "failed"]
       /\ report' = [report EXCEPT !.scenario = "expand", !.outcome = outcome, !.evidence = evidence]
       /\ UNCHANGED left

ExpandNothing ==
  /\ Head(left) = "expand" /\ server.navs = <<>>
  /\ Note("skipped", NoProbe)

navOutcome(failed, unsure) == IF failed THEN "failed" ELSE IF unsure THEN "skipped" ELSE "passed"

Expand(fault) ==
  /\ Head(left) = "expand" /\ server.navs # <<>> /\ probe.sent = 0
  /\ LET nav == server.navs[probe.nav]
         values == [i \in DOMAIN nav.parents |-> expanded(nav, nav.parents[i])]
         items == FlattenSeq([i \in DOMAIN values |-> values[i].items])
         malformed == \E i \in DOMAIN values : values[i].shape # "absent" /\ collectionShapeError(values[i])
         built == buildExpandSchema(server.report).built
         found == summarize(items, nav.target)
         seen == [after(fault) EXCEPT !.inline = items, !.warned = rrkWarns(nav)]
     IN  \/ /\ fault \in {"lost", "refused"} \/ nav.deviation = "refuses"
            /\ NavDone("skipped", after(fault))
         \/ /\ fault \in {"answered", "unsound"} /\ nav.deviation # "refuses"
            /\ fault = "unsound" \/ malformed
            /\ NavDone("failed", after(fault))
         \/ /\ fault = "answered" /\ nav.deviation # "refuses" /\ ~malformed
            /\ ~built
            /\ NavDone("skipped", seen)
         \/ /\ fault = "answered" /\ nav.deviation # "refuses" /\ ~malformed
            /\ built /\ chosenParent(nav) = 0
            /\ NavDone(navOutcome(found = "invalid", found = "indeterminate"), seen)
         \/ /\ fault = "answered" /\ nav.deviation # "refuses" /\ ~malformed
            /\ built /\ chosenParent(nav) # 0
            /\ probe' = [seen EXCEPT !.failed = found = "invalid", !.unsure = found = "indeterminate"]
            /\ UNCHANGED <<left, report>>

(* The second leg: the path must agree with the expansion on whether there *)
(* is anything.  When it is lost, so is what the first leg found.          *)
ExpandPath(fault) ==
  /\ Head(left) = "expand" /\ probe.sent = 1
  /\ LET nav == server.navs[probe.nav]
         parent == nav.parents[chosenParent(nav)]
         value == pathValue(nav, parent)
         refuses == fault = "refused" \/ nav.deviation = "path-refuses"
         wrongForm == \/ fault = "unsound"
                      \/ nav.deviation = "path-204" /\ parent.items = <<>>
                      \/ collectionShapeError(value)
         disagrees == hasRecords(expanded(nav, parent)) # hasRecords(value)
         found == summarize(value.items, nav.target)
     IN  \/ /\ fault = "lost"
            /\ NavDone("skipped", after(fault))
         \/ /\ fault # "lost" /\ refuses
            /\ NavDone(navOutcome(probe.failed, probe.unsure), after(fault))
         \/ /\ fault # "lost" /\ ~refuses
            /\ NavDone(navOutcome(probe.failed \/ wrongForm \/ disagrees \/ found = "invalid",
                                  probe.unsure \/ found = "indeterminate"),
                       [after(fault) EXCEPT !.path = value.items])

(* Out of time: the scenario under way and those left are not tested.      *)
WalkDeadline ==
  /\ left # <<>> /\ Head(left) # "serving"
  /\ Head(left) = "expand" => server.navs # <<>>
  /\ left' = <<>> /\ probe' = NoProbe
  /\ report' = [report EXCEPT !.untested = TRUE, !.dropped = probe.failed \/ probe.earlier,
                              !.verdict = coreVerdict(report.failed, FALSE, TRUE)]

WalksNext ==
  /\ left # <<>>
  /\ \/ \E fault \in Faults :
          \/ Metadata(fault) \/ ServiceDocument(fault) \/ Structural(fault) \/ Refusal(fault) \/ Skip(fault)
          \/ TopOne(fault) \/ WalkPage(fault) \/ Expand(fault) \/ ExpandPath(fault)
     \/ Serving \/ ExpandNothing \/ WalkDeadline
  /\ UNCHANGED server

(* The run: the scenarios that compare data, or those that look at form.   *)
(* They share the server and the verdict, nothing else.                    *)
NoScenario ==
  /\ env = "none" /\ phase = "done" /\ sample = [records |-> <<>>, pages |-> 0, stop |-> "none"]
  /\ todo = <<>> /\ walk = Idle /\ lookupFailed = FALSE /\ last = NoResult
  /\ tally = [failed |-> FALSE, untested |-> FALSE] /\ verdict = "none"

CoreInit == (Init /\ NoWalk) \/ (NoScenario /\ WalksInit)
CoreNext == (Next /\ UNCHANGED walkVars) \/ (WalksNext /\ UNCHANGED vars)
CoreSpec == CoreInit /\ [][CoreNext]_<<vars, walkVars>>

-----------------------------------------------------------------------------
(***************************************************************************)
(* Properties.                                                             *)
(***************************************************************************)
(* A walk that passes saw no record twice, no more of them than it asked   *)
(* for, and of a right server all there is, unless the pages ran out; and  *)
(* a page after $skip repeats nothing of the page before it                *)
(* (runPagingScenario, runStructuralScenario).                             *)
PassedWalksAreWhole ==
  /\ report.outcome = "passed" /\ report.scenario = "server-driven-paging" /\ server.canWalk =>
       /\ IsInjective(report.evidence.keys) /\ Len(report.evidence.keys) <= WalkBound
       /\ server.deviation = "none" =>
            \/ report.evidence.keys = firstOf(server.table, WalkBound)
            \/ report.evidence.sent = WalkPages + 1
       /\ report.evidence.at \in {End, Blank} \/ report.evidence.sent = WalkPages + 1
  /\ report.outcome = "passed" /\ report.scenario = "skip" =>
       \A i, j \in DOMAIN report.evidence.keys :
         i < j /\ report.evidence.keys[i] = report.evidence.keys[j] => report.evidence.keys[i] = Keyless

(* An expansion that passes was served only items of its type that are     *)
(* valid, judged by a schema that compiles, on every record and by the     *)
(* path; and where both legs answered they agree on whether the record     *)
(* has any (runOneExpandNav).                                              *)
PassedExpansionsAreSound ==
  report.outcome = "passed" /\ report.scenario = "expand" =>
    LET nav == server.navs[report.evidence.nav]
        parent == nav.parents[chosenParent(nav)]
    IN  /\ \A item \in Range(report.evidence.inline) \cup Range(report.evidence.path) : item.kind = "valid"
        /\ report.evidence.inline # <<>> =>
             \E i \in DOMAIN server.report : server.report[i].name = nav.target /\ server.report[i].compiles
        /\ report.evidence.sent = 2 /\ nav.deviation # "path-refuses" /\ "refused" \notin report.evidence.faults =>
             (parent.items = <<>> <=> ~hasRecords(pathValue(nav, parent)))

NoFalsePass == NoFalseDataPass /\ PassedWalksAreWhole /\ PassedExpansionsAreSound

(* What fails is the server's doing: a request was refused or lost, the    *)
(* server deviates from OData, an item it served is invalid, or neither    *)
(* surface has a required resource.  A server that pages as it likes,      *)
(* pages an expansion, or refuses to expand, does not fail; one that       *)
(* leaves it out fails only where there was something to expand.           *)
WalkFailureIsTheServers ==
  reports(report.outcome) =>
    \/ report.evidence.faults \ {"answered"} # {}
    \/ report.scenario = "metadata" /\ server.odata = "none"
    \/ report.scenario = "service-document" /\ server.document.entries = 0
    \/ report.scenario = "serving" /\ server.kind = "required" /\ server.declared = "absent"
         /\ ~server.document.lists /\ ~server.document.paged
    \/ report.scenario = "expand" /\
         LET nav == server.navs[report.evidence.nav]
         IN  \/ nav.deviation \notin {"none", "refuses", "path-refuses", "absent"}
             \/ nav.deviation = "absent" /\ \E i \in DOMAIN nav.parents : nav.parents[i].items # <<>>
             \/ \E item \in Range(report.evidence.inline) \cup Range(report.evidence.path) : item.kind = "invalid"
    \/ report.scenario \notin {"metadata", "service-document", "serving", "expand"} /\ server.deviation # "none"

FailureIsTheServers == DataFailureIsTheServers /\ WalkFailureIsTheServers

(* A failure that was seen is reported: "a determinate failure anywhere    *)
(* still fails" (test-runner.ts:778), and running out of time "does not    *)
(* soften it" (core.ts:288).  It does not hold: see the README.            *)
FailuresStand ==
  /\ report.scenario = "expand" /\ report.evidence.failed => report.outcome = "failed"
  /\ report.dropped => report.verdict = "failed"
=============================================================================
