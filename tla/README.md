# A TLA+ verification of reso-tools

This directory models the parts of [reso-tools](../src) in which behaviour over
time, concurrency, failure or a verdict can go wrong, checks them with TLC on
small instances, and proves with TLAPS what matters most for every instance.
Line numbers below are those of the files under `src/`.

## 1. The system

reso-tools is a TypeScript monorepo around the RESO Web API and Data Dictionary
standards. Three programs do most of the work:

- the **client SDK** (`reso-client`): OData requests with authentication,
  pacing, retries and circuit breaking;
- the **reference server** (`reso-reference-server`): an OData service over
  PostgreSQL, SQLite or MongoDB with a change feed, the *EntityEvent* resource;
- the **certification tools** (`reso-certification`): test a provider's server
  (or a set of files) against an endorsement, write reports and decide whether
  the run certifies.

Around them are the expression parser, the metadata utilities, shared helpers,
business-rule validation and an MCP server that exposes the tools.

### Inventory

| Component | State it keeps | Operations | What is hard about it | What makes it correct |
|---|---|---|---|---|
| Resilient request path (`reso-client/src/http/resilience`) | per key: breaker entry, token bucket and its promise chain; per run: start time; per call: attempt number and timers | `resilientSend`, `acquire`, `canProceed`, `onSuccess`, `onFailure`, `withTimeout` | many calls interleave at each `await`; answers race timers; a mutation may have been performed although no answer came | mutations at most once; pacing holds whoever draws; breaker trips only on unreachability; every call settles |
| OData client, token provider (`http/client.ts`, `http/auth.ts`) | current token, pending refresh | `createClient`, `request`, the token provider | concurrent refreshes, expiry and revocation in flight, a hanging endpoint | one refresh at a time, no expired token, one revocation is invisible |
| Change feed (`reso-reference-server/src/db/entity-event-*`) | records, events, sequence counter | insert, update, delete, compaction, admin reset | record and event are two calls; sequence numbers appear out of order; compaction runs on a timer | every change is announced; compaction loses nothing; a polling consumer converges |
| OData handlers and data-access layers | the database | GET, POST, PATCH, DELETE, paging | upsert races; paging by offset under writes | see the change feed and the replication |
| Certification pipeline (`reso-certification/src/sdk/pipeline.ts`) | step results, context, status | `run` | thrown steps, breaks, finalizers that describe a run that is not over | report and result agree; a failure outranks everything; every run reports |
| Endorsements (`sdk/dd.ts`, `core.ts`, `add-edit.ts`, `entity-event.ts`, `rcf.ts`) | what steps deliver to one another | declared steps, verdicts, rules | skipped against omitted steps, relaxed configurations, parallel strategies | nothing certifies that was not tested in full |
| Replication: the SDK's iterator and Lookup walk, the legacy engine (`legacy/lib/replication`) and its state service | per walk: cursor, last request, error count; per process: hashes of what was scored, counts | the four paging strategies, `replicate`, `scorePayload`, rate-limit waits, `fetchLookupResource` | short pages, boundaries shared by many records, concurrent writers, a singleton that outlives a run | nothing that keeps still is skipped, nothing counts twice, every walk ends |
| Core test (`web-api-core/`, `sdk/core.ts`, `sdk/expand-schema.ts`) | the sample, ranked fields, the scenarios left, latches (Lookup Resource failed, OData version), run budget | sampling page by page, scenarios with ladders of fields, structural scenarios, the walk of pages, `$expand` with a second leg | an answer without records proves something or nothing; partial samples; lost requests among answered ones; servers that page as they like | what passes is right, what fails is the server's doing, a gap is neither |
| Add/Edit runner (`add-edit/`) | payloads, keys of created records | plan, scenarios, clean-up, report | the server performs, ignores, refuses or loses any write | the provider's own records are left alone; what was made is accounted for |
| EntityEvent runner (`entity-event/`) | the canary, the last sequence seen | create, update, delete with reads of the feed, incremental sync | announcements come late, or are another client's | a pass stands on an announcement |
| Cloud runs and the CLI (`cloud/`, `cli/`) | configurations, results, reservations, uploads | checks before and after a run, upload, submit, exit code | files change between run and start; answers are lost | the run started is the one that passed; the exit code is true |
| Variations (`variations*/`, `legacy/lib/variations`) | report, review pool, lock, canonical store | compare, review, push a sheet, write mappings in chunks | rows that name no entry or two; chunks that land in part | the new matcher differs from the old in what is named only; a sheet lands whole; what is said of the store is so |
| RCF (`rcf/`, `cli/rcf-*.ts`, `legacy/lib/schema`) | a stream per file, folds by place, the schema | inference, schema validation, report | records are not kept; what a nested object is, is known at the end | streaming gives the report of the whole; the verdict is what the files deserve |
| Expression parser and the three translations of `$filter` | none | parse, serialise, translate | precedence, null, lambdas | a filter means what was written, on each backend |
| Read side of the data-access layers | the database | `$select`, `$orderby`, `$count`, `$expand`, paging | joins multiply, deduplication, foreign keys not selected | embedded are the related; a walk is whole |
| Lookup resolver (`reso-client/src/lookup`) | a cache | `resolveLookups` | a fallback cached after a failure | cached values are the ones served |
| Seeding, lookup reconciliation, admin | the database | check-then-insert loops | two servers on one database | no duplicate lookups |
| Metadata utilities, validation, generators | none | pure functions | – | agreement with a reference |
| MCP server | none over time | dispatch | – | – |

`PROJECT.json` lists every component with its files, and says of those that are
not modelled why.

### How the parts interact

The certification steps send their requests through a client created by
`createClient`, one *resilience session* per run; the session is shared by all
callers of the run and is the only state they share. Each request draws a token
from the token provider inside an attempt of `resilientSend`. The reference
server is what the tests run against: its handlers call a data-access layer,
which for a feed-enabled server is wrapped by the EntityEvent decorator; a
timer compacts the feed. A pipeline passes one context object from step to
step; the writer, the last step of every endorsement, reads the step list the
pipeline has put in it. A test function of a step is, for the Core, Add/Edit and
EntityEvent endorsements, a runner of its own. The CLI builds the configurations
of a command from its file and flags, runs a pipeline for each, and hands what
passed to the cloud service. The variations check is a step of a Data Dictionary
run and of an RCF run; its report is what the review commands work on.

## 2. Modules

| Module | Models | Size |
|---|---|---|
| `CircuitBreaker`, `RateGovernor`, `RetryPolicy` | the methods of the breaker and of the bucket, and the retry decisions, as operators over one entry, bucket or failure | data |
| `ResilientSend` | concurrent calls of `resilientSend` over one session | state machine |
| `RequestContract` | what the SDK promises of a request: the abstract specification | state machine |
| `*Proofs` | the theorems about the module they are named after, and their proofs (section 4) | proofs |
| `ODataClient` | `createClient`, `request` and the token provider, over the policy of `RetryPolicy` | state machine |
| `EntityEvents` | the write handlers, the decorator, writers and compaction of the three backends, a consumer | state machine |
| `Certification` | what the five endorsements declare: configurations, steps, outcomes of every test function, verdicts, rules | data |
| `Pipeline` | one certification run | state machine |
| `CollectionPaging` | which records `collectionHandler` serves and whether it links on, as operators over a table and a request | data |
| `Replication` | a process that replicates that collection while others write to it | state machine |
| `CoreRules` | ranking of fields, values asked for, assertions, the verdict of an empty answer, serving decisions | data |
| `CoreScenarios` | the Core test of a resource, as far as it compares data | state machine |
| `CoreWalks` | its provider pass, structural and error scenarios, walk of pages and `$expand`; `CoreSpec` is either kind | state machine |
| `WriteServer` | the state of a run that writes, and the server it writes to | variables and helpers |
| `AddEdit`, `Canary` | the actions of the Add/Edit and of the EntityEvent run | actions |
| `WriteRuns` | both runs and what they owe the server | state machine |
| `FilterSyntax` | lexer, parser and serializer of `$filter` over lexemes | recursive operators |
| `FilterBackends` | its translations to PostgreSQL, SQLite and MongoDB, and how each database evaluates the result | recursive operators |
| `Filters` | filters that grow one operator at a time | state machine |
| `CollectionQuery` | queries and expansion in the three data-access layers | operators |
| `Queries` | clients that read a collection, a record or a navigation | state machine |
| `CloudEntry` | configurations, and what a cloud run is started from | operators |
| `CloudRuns` | a command, or the desktop, from its entries to the exit code | state machine |
| `Variations` | both matchers of the variations check, with their exceptions | operators |
| `VariationReview` | the commands around a review and the service | state machine |
| `SchemaRules` | the generated JSON schema, its evaluation and the classing of failures | operators |
| `RcfInference` | the streaming inference | operators |
| `RcfRuns` | a run of `reso-cert rcf` | state machine |
| `MC*` | the sets the configurations of TLC need; `MCReads` runs `Filters` beside `Queries`, `MCVariations` runs `VariationReview` beside `RcfRuns` | instances |

`ResilientSend` composes the three operator modules; `ODataClient` reuses
`RetryPolicy` around a `send` it models step by step; `Pipeline` runs over
`Certification`, and `CloudRuns` reuses its configurations, verdicts and rules;
`Replication` and `Queries` read collections through `CollectionPaging`;
`CoreWalks` adds its scenarios to `CoreScenarios`; `WriteRuns` composes `AddEdit`
and `Canary` over one server.

### 2.1 ResilientSend

*State.* `breaker[k]` and `bucket[k]` are the entries of the two maps in
`circuit-breaker.ts` and `rate-governor.ts`; `chain[k]` is the promise chain
behind `bucket.tail`, as the queue of calls on it; `call[c]` is the control
state of a call of `resilientSend`: its phase names the `await` it is at
(`queued` at `await previous`, `pacing` at the governor's sleep, `inflight` at
`send`, `backoff` at the retry's sleep). `applied` belongs to the server;
`died` and `grants` are history and are read by no action.

*Steps.* A call runs from one `await` to the next without interruption, and each
such stretch is one action: `Issue` and `Retry` are `attempt` up to its place
on the chain, `AcquireTurn` and `AcquireWake` are `acquire` on either side of
its sleep, `Respond`, `Drop` and `Abort` bring the attempt to its end. `Tick`
is the clock. A timer may be served late: nothing forces an action at its time.

*Abstractions.* A token is counted as milliseconds of accrual, so the
arithmetic is exact where the code's is floating point. Jitter is a choice over
every wait it can draw. Bodies and messages are left out.

### 2.2 ODataClient

A request's phase says which `await` of `send` (client.ts 135-145) it is at;
`fetches` are the token requests in flight and `pending` is `ref.pending`.
Time is kept as what is left of each timer and of the token's life, so no bound
on the clock is needed; a token whose endpoint stated no lifetime (`NotStated`) gets
the default, and one with a lifetime of zero or less is expired when it arrives, as
`auth.ts` 63 and 85 take it. The breaker, the governor and the run's deadline are
`ResilientSend`'s and are left out. `reissued` is history.

### 2.3 EntityEvents

A handler runs from one database call to the next. Before `Commit`, the row of
an announced change has its sequence number and is not visible: on PostgreSQL
the sequence behind BIGSERIAL hands the number out before the row commits, on
Mongo the counters document does. SQLite is synchronous, so both happen in
`Announce`. A statement of a process that stops is taken not to complete. An
update is one that changes something (handlers.ts always sets a
ModificationTimestamp). One resource stands for all, records have no fields,
and the status codes of the answers are left out: no property is about them.
`stale`, `lost` and the flag `current` of an event are history.

### 2.4 Certification and Pipeline

A *test function* of a step is taken as a whole: `outcomes` says, for each, the
statuses it can come back with (or that it can throw), whether it then leaves
its result in the context, and whether it did its whole check and found nothing
wrong (`clean`, history). A step may pass without (`partly`): an unsampled resource
is skipped within it (core.ts 132-156, 664-673). `Pipeline` runs the declared steps as
`createPipeline(...).run` does, function by function: `RunFunction` is a
function coming back, with everything the loop then does up to the next one
(record, refresh of `pipelineSteps`, status, break). The parallel replication
is one function whose strategies come back in any order (`StartStrategies`,
`StrategySettles`), and go on behind the run after one of them has thrown.
`WriteReports` may throw before or after `report.json` is on disk. `Finish`
fills in what was skipped and asks the endorsement's rule. The version of an
RCF run is taken to be the one its inference settles on.

### 2.5 CollectionPaging and Replication

`table` is the collection in the order in which the database scans it. The
data-access layers add no ORDER BY of their own, so on PostgreSQL a new row, and
an updated one, may turn up at any place; `Create` and `Modify` choose it. An
answer lists the rows a query selects by their `rank`, the number of rows the
answer has before a row.
`walk` holds the variables of `replicationIterator` (the legacy one, or the
SDK's for strategy `Lookup`), `service` the maps of `services/state.js`. A
process works off a *plan*: the walks of one or several calls of `replicate()`,
one per resource and expansion, of which the last of each call reports.

`Send` builds the request and consults the guard against repeating one; an
answer is one of `Page`, `InvalidPage` (a strict run stops), `GarbledPage` (what
is no JSON counts as no records), `HttpError` (with `Wake` behind the wait for a
rate limit), `Unreachable`, and for the Lookup walk `LookupPage` and
`LookupError`. Each includes what the consumer does with the page before the
iterator resumes. Writes fall between any two of these.

A record is its key and timestamp, which is all that decides where it is served
and whether it is the version scored before. The bounds of the page sizes are
the server's constants; a response's statistics, saved pages and the schema
itself are left out. `unchanged`, `moved`, `crowded`, `fetched`, `rereads` and
`scored` are history. Not covered: strategies in parallel (`parallelReplicate`),
whose one effect on the verdict is in `Pipeline`.

### 2.6 CoreRules, CoreScenarios, CoreWalks

A behaviour of `CoreSpec` is one resource's Core test of one of two kinds; both
share the server's freedom and the verdict, and no variable of the one is read
by the other.

*Data* (`CoreScenarios`). `env` is what the run finds: the table, which of its
fields carry values, what the server supports. `Decide` is the decision whether
the resource is tested; `SamplePage`, `SampleStops`, `SampleLost` and
`SampleDeadline` are the sampling loop with its ways to end; `Start` takes the
next scenario and ranks its ladder of fields; `Try` is one rung with the answer
the server gives to it (`right`, `nothing`, `unfiltered`, `rejected`, `lost`);
`ValidateLookup` is the Lookup Resource test, whose failure cascades; `Deadline`
is the run's budget. Values are ranks, and what a query selects is computed from
the table, so that an assertion is made of the records it would really see. A
timestamp has, beside its place in time (`Instant`), its place as text, since the
assertions and the ladder of values compare text; in the run three values are three
texts in which one instant is written in two forms (`Written`).

*Form* (`CoreWalks`). `server` says what the resource's service does wrong, if
anything (`deviation`), how it pages, and what its navigations hold. `Metadata`,
`ServiceDocument` and `Serving` are the provider pass; `Structural`, `Refusal`,
`Skip` and `TopOne` the scenarios by one or two requests; `WalkPage` is one page
of the walk along `@odata.nextLink`; `Expand`, `ExpandPath` and `ExpandNothing`
are the two legs of `$expand` for one navigation; `WalkDeadline` ends any of them.
A request may also be refused, come back unsound or be lost. `evidence` in a
report is history, read by the properties alone.

### 2.7 WriteServer, AddEdit, Canary, WriteRuns

`record[k]` is what the server holds under a key: `Theirs` were there before,
`Fresh` can come to be. Each write has a fate (`done`, `ignored`, `refused`,
`lost` before or `lostAfter` it was performed) and an answer that names the record or
does not. `AddEdit` has `Check` (what stops a run before it writes),
`CreateScenario`, `UpdateScenario`, `DeleteScenario`, the `FollowUp` that reads
back, `CleanUp` and `Stop` (a scenario threw). `Canary` has the EntityEvent run:
`Baseline`, `CanaryCreate`, `CanaryChange`, the reads `Look` and `Gone`, and
incremental sync as `SyncFull` or `Poll` with `TimeIsUp`. `Announce` and
`OtherWrite` belong to the server and to its other clients. The clean-up's deletes
have every fate as well; `pretended` (history) holds the records of those that were
answered with a success and not performed. `ours`, `told`,
`blame` and `by` of an event are history.

### 2.8 FilterSyntax, FilterBackends, Filters

A filter's text is a sequence of lexemes. `FilterSyntax` has the recursive
descent parser and the serializer, `FilterBackends` the three translations. The
SQL text is read again by the database's own precedence before it is evaluated
with three-valued logic; a Mongo query is evaluated by Mongo's rules for null
and missing fields. `contains`, `startswith` and `endswith` do not look at the case of
letters (ILIKE, SQLite's LIKE for ASCII, the option `i`). `Filters` lets a filter
grow by one operator per step
(`Negate`, `Extend`) and compares, for every filter on the way, what the
translations select with its meaning.

### 2.9 CollectionQuery, Queries

`Ask` puts a request, `Answer` is the handler the router has for it:
`collectionHandler`, `readHandler` or `navigationPropertyHandler`. The
data-access layers are operators: the SQL ones join, group what the join
multiplied and trim what was not selected; Mongo collects keys and queries per
level. A collection walk follows the next links, so the properties speak of the
whole walk.

### 2.10 CloudEntry, CloudRuns

A command goes through `CheckOptions`, `ReadConfig`, `Open`, `RunEntry` for each
entry and `FinishRuns`, which decides the exit code; with `--start-cloud-run` it
goes on to `Reserve`, `CheckRuns`, `BuildEntry`, for RCF `PackRcfInput` and
`UploadToSlot`, and `SubmitCloudRun`. `DesktopStarts` is the desktop's way in.
`Started` is an answer that arrives late, `Expires` a reservation that runs out,
`ProviderEdits` an edit of files between a run and its start. What a local run
comes back with is taken from `Certification`.

### 2.11 Variations, VariationReview

`Variations` has both matchers over opaque names; which names are alike, exactly,
by substring or by edit distance, are given relations, each matcher reading its
own. `VariationReview` states the claim `V2ReproducesLegacy` and, in `Lost` and
`Added`, the seven ways in which the code breaks it. It models a
directory with a report and a service with a review pool:
`FindVariations`, `SubmitVariationsReport`, `SubmitVariationDecisions`,
`StartUpdate`, `UpdateChunk` and `UpdateEnds` are the commands, `Decide` and
`OtherUser` are people in the service, `ProviderChanges` changes the metadata.
A chunk's items are committed, corrected, refused or lost one by one.

### 2.12 SchemaRules, RcfInference, RcfRuns

`ReadInput`, `ResolveVersion`, `OpenFile`, `ReadRecord`, `CloseFile` and
`CheckVariations` are the run, one record at a time, with files that are broken
at any record or have a context that is missing, malformed or late. `SchemaRules`
is the generated schema with its evaluation, `RcfInference` the folds by place
and the report made of them. Names are opaque; integers are scaled down, their
classes kept.

## 3. Runs

Calls, keys, requests, absent values are model values. `CHECK_DEADLOCK FALSE`
is set where the system legitimately comes to rest (every call settled, every
request answered, the run finished); `CloudRuns` stutters explicitly at its end
and is checked for deadlock.

| Run | Configuration | Checks | Shows |
|---|---|---|---|
| `session` | `ResilientSend.cfg` | five invariants, the refinement, `EveryCallSettles` | two calls on one key through pacing, breaker, retries and deadline keep the promises, implement `RequestContract` and settle although the server may never answer |
| `client` | `ODataClient.cfg` | `RevocationIsSurvived`, `NeverSendsExpired`, `OnlyTheEndpointHangs` | two requests through expiry, up to two revocations or failing refreshes, any lifetime; only an endpoint that does not answer keeps one from settling |
| `entity_events` | `EntityEvents.cfg` | `EveryChangeIsAnnounced`, `NothingIsMissed`, `EveryChangeIsSeen` | two writers, three writes, two records, one fault, each backend |
| `compaction` | `EntityEvents_mongo.cfg` | `CompactionIsSafe` fails | finding 2 |
| `certification` | `Pipeline.cfg` | `ReportAgreesWithResult`, `CertifiedMeansTested`, `EveryRunReports` | every endorsement and configuration with at most two flags |
| `replication` | `Replication.cfg` | `WalksAreComplete`, `UniqueCountIsExact`, `EveryRunEnds` | every strategy, a DD plan, a limit, and both kinds of Lookup server; one write, one fault |
| `core` | `CoreScenarios.cfg` | `NoFalsePass`, `FailureIsTheServers` | the Core test of a resource, of data and of form: what passes is right, what fails is the server's doing, for feeds that write timestamps in one form |
| `writes` | `WriteRuns.cfg` | `OthersAreLeftAlone`, `MadeIsAccountedFor`, `PassedMeansAnnounced`, `FailureIsTheProviders` | Add/Edit and EntityEvent runs against a server free in what it performs and answers |
| `writes_early` | `WriteRuns_early.cfg` | `EarlyEndLeavesNothing` fails | finding 1 |
| `reads` | `Reads.cfg` | `FiltersAreReadBack`, `SqlKeepsTheMeaning`, `OnlyNullsDiffer`, `EmbeddedAreTheRelated`, `WalkIsWhole` | which filters are read back as written, what SQL selects for them, and that the backends differ by nulls only; that queries are answered with what was asked |
| `cloud` | `CloudRuns.cfg` | `WhatStartsIsWhatPassed`, `EarlyAndLateAgree`, `ExitCodeIsTrue`, `RefusalMeansNothingStarted` | a command or the desktop, from its entries to the exit code and the cloud runs it started |
| `variations` | `Variations.cfg` | `V2DiffersAsNamed`, `EveryEntryIsAddressable`, `SheetLandsWhole`, `CommittedIsCounted`; `StreamedAsIfWhole`, `VerdictIsTheData` | how the variations check differs from the one it replaces, and its review; beside it, runs over RCF files |

Stated in the modules and not in a run, since another property that is run says
more: the `TypeOK` of `CoreScenarios`, `AtMostOneLateSend`,
`EventuallyCompacted`, `OffsetWalksNeverReread` and `CompleteMeansWhole`; and,
proved in section 4, the `TypeOK` of `ODataClient`, `EntityEvents`, `Pipeline`,
`Replication` and `WriteRuns`, `AcquiresSerialised`, `ErrorsNeverTrip`, `OneRefreshAtATime` and
`AtMostOnce` of `ODataClient`, `FeedNeverMovesBack`, `CertifiedMeansSettled`,
`PipelineStatusIsWorst` and `FailFastStopsTheRun`. They can be added to the
configuration of their run and hold there.

### Bounds, and why they are enough

- *session*: with a threshold of one, two calls open the breaker while the other
  is under way; a burst of one and a token per time unit make every second send
  wait; one retry reaches every branch of the retry decision on both sides of
  the limit; the deadline (6) falls among the retries. Statuses 200, 401, 429 and
  500 are one of each class that the code tells apart. `FreeClock` lets timers
  be late by up to two units; beyond it the clock runs while some timer waits.
- *client*: two requests are the least that can share a refresh; a lifetime is not
  stated, one short of the refresh margin, or past when it arrives.
- *entity_events*: two keys and two requests give every race of two writers on
  one record and on two; three writes let a record be deleted and created
  again behind a compaction; one fault at each point. Overlapping Mongo passes
  are in `compaction` with two passes.
- *certification*: the flags interact at most in pairs (each rule reads two).
- *replication*: three records and pages of two give a full page, a short page,
  a boundary inside a group of equal timestamps and an empty page; one write
  between any two requests moves a record across the cursor; one fault at each
  request, and one error more than `MaxErrorCount` is not needed, since every
  HTTP error is the last of its walk. `WalksAreComplete` states when records may
  be missed: by offset when a record changed its place, by timestamp when more
  share one than fit a page. The plans of the run have walks with an expansion and
  without, and one with two expansions in a request, whose records count once for each.
- *core*: tables of up to two records, and of three whose third is past the
  sample, with a field that is null, standard or
  local in each, one data type at a time; of the three values 1, 3 and 5, the last is,
  as a timestamp, the first's instant in another form; a sample of two over pages of
  one is filled, cut short or stopped. Walks: up to four records in pages of one to
  three, at most two pages followed, `$top` scaled to 2 and the bound to
  3, up to two navigations with up to two parents, so that a page is short, full
  or beyond the cap and a second leg follows a good and a bad first.
- *writes*: three keys can come to be, the most one run creates; one record of
  the provider's; two polls and two writes of others, so that an announcement
  comes before, between and after the reads.
- *reads*: filters of up to two operators over every kind of atom meet every
  pair of precedences, and lambdas with `or`, with `and` and with a minus sign in
  front; rows give each operand its values, in both cases of a letter, and null. Default page
  2, maximum 3, and tables of up to four rows give a walk of several pages and
  `$top` on each side of a page; the depth of `$expand` is the server's own.
- *cloud*: two entries are the least that can differ in outcome and share a
  reservation; one edit at any moment; every option beside `--config` and
  `--start-cloud-run` alone.
- *variations*: every mapping set compared to every metadata of the small
  standard (120 by 29); two providers reviewed, up to three commands, which is a
  check, a push and one that meets their result; sheets of up to two rows, the
  least that can contradict one another; three suggestions in chunks of two.
  RCF: up to three files and three records, batches of two, sample thresholds of
  two, integer widths scaled to 3 and 5 bits; `DD` versions 20 and 21 share one
  dictionary. `StreamedAsIfWhole` is evaluated where schema validation, which
  reads the same records, is off.

### Fairness

`ResilientSend.FairSpec` and `ODataClient.TimerFairSpec` assume that the event
loop runs ready continuations and due timers and that time passes; nothing
makes a server answer, and nothing makes the token endpoint. `OnlyTheEndpointHangs`
is therefore conditional: a request settles unless, from some time on, it waits for
a token request that is never answered. Without the condition it is false
(`EveryRequestSettles`, under *Findings*).
`EntityEvents.Fairness` assumes that the database answers, the compaction timer
keeps firing (setInterval) and the consumer keeps polling. `Replication.FairSpec`
assumes that the process runs on and that every request is answered or fails;
the legacy client sets no timeout of its own. `Pipeline.FairSpec` assumes that
every test function comes back, which the deadlines of the session give it where
it requests by the session: the token endpoint, the service check's plain fetch and
the legacy replication have none. The other specifications are checked for safety only.

### Findings

1. **writes_early** – a record that was created and whose read-back is lost stays
   on the provider's server: the clean-up does not know its key.
2. **compaction** – a Mongo pass deletes an event written between its two calls.
   `EveryChangeIsAnnounced` holds on the SQL backends.

The properties above that are qualified name what they set aside; where that is a
case of which the code, or its documentation, claims otherwise, the claim itself is
stated beside them and is false. Each is in no run, and can be seen to fail when it
is added to the configuration named:

| Property | Configuration | What |
|---|---|---|
| `EveryRequestSettles` | `ODataClient.cfg` | the timeout that timeout.ts 4-8 promises against a server that never responds does not reach the fetch of a token (auth.ts 43): a token endpoint that hangs, hangs every request behind it. `OnlyTheEndpointHangs` says that nothing else does |
| `NoCertificationPastSchemaErrors` | `Pipeline.cfg` | the parallel replication drops the failed status of a strategy (dd.ts 652), so that a strict run with schema errors can certify, against dd.ts 413-416. `CertifiedMeansTested` leaves those strategies out |
| `ObserveNeverCertifies` | `Pipeline.cfg` | an EntityEvent configuration without a mode observes, and certifies: the rule reads the configured mode, the run the defaulted one (entity-event.ts 258, 288), against its own comment (243-245). `CertifiedMeansTested` leaves its payloads out |
| `EveryVersionCountsOnce` | `Replication.cfg` | with `batchExpand` a record is hashed once per expansion, each time without that one and with the others, and so counted several times (utils.js 247-270), where the comment at 234 says that parents are "not … duplicated when fetched with multiple child expansions". `UniqueCountIsExact` says what is counted then |
| `ReportIsOfTheRun` | `Replication.cfg` with `Plans <- Repeated` | the state service that is documented as fresh (replicate-command.ts 98) is a singleton: a second run in one process reports what the first one scored as well |
| `RateLimitIsWaitedOut` | `Replication.cfg` | after the wait for a 429 the legacy iterator rebuilds the same URL, and its guard against endless loops ends the walk; `replicate()` reports what it has |
| `RightAnswersNeverFail` | `CoreScenarios.cfg` | timestamps are compared as text: a server that answers by instant and writes `Z` and `+00:00`, which sampling.ts 500-502 expects of providers, is failed for right answers. `NoFalsePass` and `FailureIsTheServers` speak of feeds in one form |
| `EveryFilterRoundTrips` | `Reads.cfg` | the serializer writes no parentheses, and is not the inverse of the parser that it is said to be (serializer.ts 4-6, GUIDE.md 143). `FiltersAreReadBack` says for which filters it is |
| `UngroupedFiltersRoundTrip` | `Reads.cfg` | nor is it wherever no parentheses are needed: `any(v:-1 lt v)` cannot be read again, since behind a colon the lexer takes no minus for a number's (lexer.ts 392) |
| `LambdasMeanWhatTheySay` | `Reads.cfg` | a lambda whose predicate is an `and` is translated as an `or` (filter-to-sql.ts 167-169), where the server's guide (GUIDE.md 149) has the logical operators and `any`/`all`. `SqlKeepsTheMeaning` says that this, and refusing other comparisons, is all that SQL does otherwise |
| `BackendsAgree` | `Reads.cfg` | "the *behavior* is identical" (doc/GUIDE.md 77 of the server) fails for null under `not`, in `$expr` and in collections on Mongo. `OnlyNullsDiffer` says where it holds |
| `V2ReproducesLegacy` | `Variations.cfg` | `applyIntEnumFix: false` does not "reproduce legacy exactly" (compute.ts 13-16). `V2DiffersAsNamed` says exactly how far off it is: in the expansions, which the later walk matches with expansions and reports as such; at a standard expansion declared as something else, which only legacy reports and below which only the later walk looks; in OData names that are near only as written, by a rounded distance, or only when normalised; and beside an exact match, which the later walk reports alone |
| `RequiredIsTestedOrFails` | `CoreScenarios.cfg` | when the first sampling request of a required resource is lost, the resource is reported as skipped, and the verdict passes; an empty or absent one fails |
| `FailuresStand` | `CoreScenarios.cfg` | an invalid item found inline is lost when the second leg of `$expand` is (test-runner.ts 784), and a run deadline drops the failures of the scenario under way (824), although a determinate failure "anywhere still fails" (771) |
| `OwedIsServed` | `Reads.cfg` | a client's own `$skip` beside a `$top` served in several pages ends early |
| `ExpandDoesNotFail` | `Reads.cfg` | on SQL, `$expand` and `$select` with `$orderby` on a field not selected fails with 500 |

A half-open breaker admits every caller that arrives, where `circuit-breaker.ts`
6-8 promises a single probe; and `resilient-send.ts` checks the run's deadline
before it waits for the governor and not after, so that a call may be sent past
the budget of `session.ts` 37-39, once (`AtMostOneLateSend`).

#### Observations

What follows was read while translating; the models have it as it is.

*Core.* `$expand` without a validator skips, although test-runner.ts 466-467 and
expand-schema.ts 268 say it is judged by the 200 alone. A server that links on
forever with empty pages passes the walk at the page cap; an `@odata.nextLink`
of "" ends a walk without an assertion; a walk looks at the status and not at
OData-Version; records without keys on one page pass `$skip`, and on two are
repeats. A first page answered with no 200 fails a required resource, although
sampling.ts 335-339 would not blame the provider.

*Add/Edit and EntityEvent.* A clean-up that throws loses the report; a server
that upserts a record the payload names has it deleted by the clean-up; the
canary stays when a request throws. `String(body[key])` (entity-event
test-runner.ts 516-518) is "undefined" without the key, so that the Location is
not used. An incremental sync in full mode is satisfied by another client's
event, and an update or delete scenario by a late earlier one
(`PassedMeansAnnounced` is of all three). The report's status ignores the steps
before its scenarios (sdk/entity-event.ts:217).

*Pipeline.* A writer that threw may leave a valid report beside a result that is
not (reports.ts:456); a rule over the step list cannot see a step that a
configuration omits (certification.ts:40).

*Server.* Two PATCHes of a missing record both insert (handlers.ts:242), and on
Mongo an update reads back in a second call, so that a delete in between makes
the handler insert again (mongo-dal.ts:373). Mongo: `limit(0)` makes `$top=0`
return everything; a `$select` that omits the foreign key turns its expansions
into null; unknown `$orderby` fields are refused, on SQL ignored; four levels of
`$expand`, on SQL three; PATCH stores values uncoerced. PostgreSQL sorts nulls
last, SQLite and Mongo first. SQL loses the count with `$expand` of an empty
page. Options inside `$expand` other than `$select` and `$expand` are parsed and
ignored.

*Cloud and CLI.* `clientCredentials.scope` is read and dropped; entries without
auth are refused although flags are said to supply it; `--payloads` is ignored
beside `--config`; `rcf` with an explicit older `--dd-version` is refused only
after the run (excluded by name in `EarlyAndLateAgree`), and exits 0 when only
the report could not be written (in `ExitCodeIsTrue`); an answer lost to a
submit exits 2 though the run started; cloud requests have no timeout.

*Variations.* A field row whose entry is gone is taken by the one
lookup entry below it; a second sheet of a subset replaces the first one's
marks; a check that finds nothing leaves the earlier report on disk; a chunk
whose request throws loses the text of what was committed before.

*RCF.* Fingerprint and inference read the files at different times (sdk/rcf.ts
90, 119); an empty `value` with a malformed context is skipped; integer caps are
2^16-1 and so on, without a minimum, where validate.js 496-497 speaks of the
types' own bounds; a null item of a nullable collection expansion is not
reported, and a null of a nested one is judged by the outer field.

## 4. Proofs

Eight components have theorems. Each is about every value of the constants that
satisfies the module's named assumption, and follows from an inductive invariant
that TLC was given first: it holds of the initial states, every action keeps it,
and it implies the property.

### The request path

`ResilientSendProofs` proves, for any sets of calls, keys, methods and statuses:

| Theorem | States |
|---|---|
| `TypeCorrect` | `Spec => [](TypeOK /\ AcquiresSerialised)` |
| `BreakerTripsExactlyAtThreshold` | `Spec => []TripsExactlyAtThreshold` |
| `BreakerIgnoresErrors` | `Spec => []ErrorsNeverTrip` |
| `MutationsAtMostOnce` | `Spec => []AtMostOnce` |
| `FailedFastIsSafeToRepeat` | `Spec => []FailedFastMeansNotApplied` |
| `RateNeverExceeded` | `Spec => []PacingRespected` |
| `SessionImplementsContract` | `Spec => ImplementsContract` |

The inductive invariants, each with its Init step, one step per action and a
temporal conclusion:

- `TypeInv` adds to the type that each chain lists distinct callers that are
  waiting, only its head pacing. Without it nothing says that the bucket a
  pacing call wakes up to is the one it left, and the credit could go negative.
- `BreakerInv` ties `died`, the failure count and the state of each entry.
- `MutationInv` says of a mutation that is not settled that it has not been
  performed, and of one that failed fast the same; the step that matters is a
  retry, allowed by `shouldRetry` only after a 429 or 503.
- `PacingInv` bounds, for every send recorded on a key, the number of sends
  since by the credit earned since: the property itself is not inductive,
  since it does not mention the credit left in the bucket.
- `SendsInv` bounds `sends` by the attempt number, for the refinement.

The lemmas `AttemptLeaves`, `AcquireLeaves` and `EndLeaves` say once what each
kind of step leaves alone, and `StepOutcome` and `CallStep` reduce the actions
of a call to them.

### The client

`ODataClientProofs`, for any finite set of requests, any lifetimes of tokens (any
integer, or none stated), and
any revocations and failures of the token endpoint:

| Theorem | States |
|---|---|
| `ClientTypeCorrect` | `Spec => [](TypeOK /\ OneRefreshAtATime)` |
| `ExpiredIsNeverSent` | `Spec => NeverSendsExpired`, an action property |
| `RevocationCostsNothing` | `Spec => []RevocationIsSurvived` |
| `ClientMutatesOnce` | `Spec => []AtMostOnce` |

`TypeInv` adds that a waiting request waits for the refresh under way and that
token numbers in use are not 0, which says "none"; `RevocationInv` what a request
has seen of revocations before its second attempt ends, which the property, about
requests that are over, does not; `MutationInv` that a performed mutation is not
sent again. `MarginIsNat` and `TtlIsInt` are the arithmetic of the refresh
margin. `NeverSendsExpired` does not need lifetimes to be positive, because it lets a
request that waited for a token take what came: `auth.ts` 104 and 112 hand it on
unseen.

### The change feed

`EntityEventsProofs`, for any records, any requests at once, any number of passes,
crashes and faults:

| Theorem | States |
|---|---|
| `FeedTypeCorrect` | `Spec => []TypeOK` |
| `ChangesAreAnnounced` | `Spec => []EveryChangeIsAnnounced` |
| `FeedKeepsLatest` | `Spec => FeedNeverMovesBack`, an action property |
| `ConsumerMissesNothing` | `Spec => []NothingIsMissed` |

`EveryChangeIsAnnounced` is not inductive: two requests on one record may owe it
an event each, and the number that is written last need not be the highest. Its
invariant, `AnnouncedInv`, asks that the last word on a record is current or that
a number *above* every event of the record is owed. `NothingIsMissed` is about
SQLite, where a number and its row are written at once. The proofs use that the
set of keys is not empty and nothing else of the constants. That a bounded set of
numbers has a least and a greatest follows from the well-foundedness of the
naturals; each module of proofs that needs it begins with those lemmas, and takes
its inductions over indices from the least counterexample.

### Replication

`ReplicationProofs`, for any collection and any writes to it, any page sizes of
server and client, any plan within the hypotheses, and any faults:

| Theorem | Hypothesis | States |
|---|---|---|
| `WalksComplete` | `WalksAskForAll` | `Spec => []WalksAreComplete` |
| `CountsEachOnce` | – | `Spec => []UniqueCountIsExact` |
| `TypesHold` | – | `Spec => []TypeOK` |

Beside the module's assumption (the keys are finite in number, absent values are
apart from present ones) the first asks something of the plans that every plan of
`replicate` and of a Data Dictionary run has, unless its user asks otherwise.
`WalksAskForAll`: pages are of a record or more (`$top=0` asks for nothing), and a
walk along the server's links has no `$top` or `$skip` of its own, since the links
would count towards it (`OwedIsServed` under *Findings*). `UniqueCountIsExact` says for
every plan that each form in which a record was scored counts once, and for those
without `batchExpand` that a version has one form.

`WalksAreComplete` speaks of a walk that is over. `WalkInv`, which TLC checked on
the run of the module, says what holds while it is under way:

- `RequestInv`: the request under way, and the one that would follow, ask for what
  the walk was begun to ask for. An iterator rebuilds a request from the one
  before, or takes it from a link, so this is what the cursor rests on.
- `PrefixInv`, by offset: the first `totalRecordsFetched` rows of the walk's order
  have been received, as far as they were there all along. A page is the rows
  behind those (`page` is a slice of `selected`), and no row has changed its place.
- `CursorInv`, by timestamp: what is on the far side of the cursor has been
  received. A page ends inside a group of equal timestamps, and the cursor stays at
  the group or, when it was there already, steps past it. That loses nothing only
  if the group fits a page (`RoomInv`). The first request downwards asks up to the
  present time, at which records may still be written: it needs room for one more.
- `NextInv`: the guard against repeating a request ends a walk without an error.
  It may, only when nothing is left to receive: by offset and upwards the next
  request differs; downwards, and without a link, all has been received.
- `PhaseInv` and `EndInv`: what a walk that ended has to show for it.

The lemmas about the collection say for every table that `selected` lists each
row of the query once and in its order; that rows are ranked without gaps, which
is counted by cardinality; and that a write that leaves every place leaves the
rows behind a page where they were.

The count is the number of parent items hashed (`EveryItemCountsOnce`):
`scorePayload` adds the number of the new items, which are apart from the old
(`ScoreCountsItems`). `CountInv` says that such an item is its record and no more,
which needs that a request removes the one expansion it asked for
(`PlansExpandOne`, `ScoreKeepsForms`).

### The pipeline

`PipelineProofs`, for every endorsement and any flags:

| Theorem | States |
|---|---|
| `PipelineTypeCorrect` | `Spec => []TypeOK` |
| `ReportTellsTheResult` | `Spec => []ReportAgreesWithResult` |
| `CertifiedRunsAreTested` | `Spec => []CertifiedMeansTested` |
| `CertifiedRunsAreSettled` | `Spec => []CertifiedMeansSettled` |
| `StatusIsTheWorst` | `Spec => []PipelineStatusIsWorst` |
| `FailFastStops` | `Spec => FailFastStopsTheRun`, an action property |

The report is written inside the run it describes, and the property compares it
with what is known after. `LoopInv` says which steps are still pending at each
place of the run, `ListInv` what the writer is shown of them, `StatusInv` that the
running status is the worst so far, and `ReportInv` that what was written is what
the steps will be reported as once the run is over. `CleanInv` carries what each
function that passed has done up to the verdict, and `ScenariosInv` that scenarios
are marked as passed only by their step: what they skipped within is not asked about,
as core.ts 853-857 has it. `unexamined` names the checks that a configuration takes
away without its rule asking for them, which the disagreements listed under *Findings* are about. `WellDeclared` is what the proofs
use of the five lists of steps: the writer comes last, it alone always runs, and
the step before it is the one that may test scenarios.

### Cloud runs

`CloudRunsProofs`, for any configuration files, options and number of entries:

| Theorem | States |
|---|---|
| `StartedRunsPassed` | `Spec => []WhatStartsIsWhatPassed` |
| `ChecksBeforeAndAfterAgree` | `Spec => []EarlyAndLateAgree` |
| `ExitCodeTells` | `Spec => []ExitCodeIsTrue` |
| `RefusedMeansNotStarted` | `Spec => []RefusalMeansNothingStarted` |

The invariant follows an entry: `ConfigInv` what the first check let through,
`ResultInv` what a result records of its configuration, `BuildInv` that an entry
built for a request is faithful to its result and that the files packed are those
the result was of, `ReservationInv` that a reservation belongs to the runs it
names, `StartInv` that the runs of a start come into its requests together, and
`CliInv` what the exit code was decided on. The assumption `CloudAssumption`
says what a file's entries are; only an EntityEvent entry has a mode. `inOrder`
is the increasing sequence of a set, which `SortedExists` shows to exist.

### The runs that write

`WriteRunsProofs`, for any runs, keys, polls and other writers:

| Theorem | States |
|---|---|
| `WriteTypeCorrect` | `Spec => []TypeOK` |
| `ProvidersRecordsStay` | `Spec => []OthersAreLeftAlone` |
| `CreatedIsAccountedFor` | `Spec => []MadeIsAccountedFor` |
| `PassIsAnnounced` | `Spec => []PassedMeansAnnounced` |
| `FailureIsOutside` | `Spec => []FailureIsTheProviders` |

The two runners share the server only, and the invariant has a part for each,
true of the other by its first conjunct.

- `RecordInv` is the promise about the provider's records without the history:
  a record no payload names is as it was. It holds because `KeysInv` keeps every
  key the runner can write to among the keys of new records and of the payloads,
  and because a write without a key is refused (`TargetIs`).
- `AccountInv` says at each place where a record that was told of is: created, on
  its way there (`Pending`), removed, or in what the clean-up has before it. It
  needs that scenarios rise in rank (`Rank`, `ScenariosAre`): a record is removed
  by the delete test only when no scenario is left that could write to it again. The
  clean-up trusts an answer of success, so a record may be reported as removed and
  still be there: only if `pretended` has it.
- `FaultInv` and `BlameInv` say what holds while nothing went wrong outside: the
  record is as the scenario expects it, and its event newer than what was seen.
  That no scenario then lacks a key (`BlamelessHasRecord`) is the reason for
  `PlanInv`: a plan without creates was checked for the keys its payloads name.
- `EventsInv` says that a change has one event at most or is owed one, and none
  before it is made; `SeenInv` that the events which passed scenarios rest on lie
  at or below the sequence the runner has seen, so that one event cannot serve
  twice.

`KeysAreApart` keeps the kinds of keys apart and says what a configuration is.
`Fresh` bounds the records that can be made (`keysLeft`). `without` is the
`filter` of the clean-up: what is left of a sequence, in its order (`WithoutIs`).

### The variations review

`VariationReviewProofs`, for any metadata, mappings, likeness of names, sheets,
suggestions and sizes of a chunk:

| Theorem | Hypothesis | States |
|---|---|---|
| `EntriesAddressable` | – | `Spec => []EveryEntryIsAddressable` |
| `CommittedCounted` | – | `Spec => []CommittedIsCounted` |
| `SheetsLandWhole` | `SheetsAreMadeOfRows` | `Spec => SheetLandsWhole`, an action property |

They are about `Spec` of `VariationReview`; the run of `MCVariations` interleaves
that specification with RCF runs, with which it shares no variable.
`ReviewAssumption` says that elements have names, that the values of one lookup
are of one kind, that a chunk is not empty and that suggestions come in a
sequence. `SheetsAreMadeOfRows` says that a sheet made of rows is a sequence of
rows of six columns, whatever is in them, and that a target is not the absent
value.

- A report's entry is known by its coordinates (`EntryByCoordinates`), and where
  the walk stops is a function of the element: at the resource, at the field, or
  at its values (`VariationsAreOne`). The last step needs the assumption: were
  strings and OData names mixed in one lookup, a row could name an entry of either
  form. `considerable` keeps the annotations of a machine enumeration out, which
  would do just that.
- `UpdateInv` says, while chunks are sent, that the items counted are those of the
  chunks sent: `ChunkLengths` is the arithmetic of the last, shorter chunk, and
  `CountsPartition` that each item has one fate.
- `ReviewInv`: a report on disk has no marks yet, and a target the service holds
  is one of a row. Within a step the proof is an induction over the rows of the
  sheet: `RowTakenUp` says that a row is refused or taken up by one entry and
  takes back nothing that an earlier row asked (`Extends`), `SheetHeard` that so
  each row is heard at the end unless one was wrong, and `AskingRows` that the
  rows which ask for something are all kept. The recursive functions `after` and
  `kept` are shown to exist first (`EditsExist`, `KeptExists`).

### What is only model-checked

- *Liveness* (`EveryCallSettles`, `OnlyTheEndpointHangs`, `EveryChangeIsSeen`,
  `EveryRunReports`, `EveryRunEnds`): fairness and `ENABLED` are out of the
  prover's reach.
- *What recursive definitions compute*: `FilterSyntax`, `FilterBackends`,
  `Filters`, `CollectionQuery`, `Queries`, `SchemaRules`, `RcfInference` and
  `RcfRuns` recur over their data, and induction over data is not available to
  the installed provers.
- *Not proved*: `NoFalsePass` and `FailureIsTheServers` of `CoreWalks`, which
  compare what a ladder of some thirty scenarios asserts with what a server
  computes from the table, and rest on sorting by operators of the community
  modules that are defined by `CHOOSE` over sequences; and `V2DiffersAsNamed`: the
  seven ways in which the walks differ were found by reading and checking, each is
  met in the run, and whether they are all beyond its metadata and mappings is not
  known.
- `CompactionIsSafe` and `EarlyEndLeavesNothing` are false, and so are the claims
  listed under *Findings*.

## 5. Plan

1. *Done*: the request path and its contract, with its theorems; the client;
   the change feed; the certification pipeline; replication over a collection
   that is written to; the Core, Add/Edit and EntityEvent runners; filters and
   queries of the server; cloud runs; the variations check and review; RCF.
2. *Done*: the safety properties of the request path, the client, the change
   feed, the pipeline, the cloud runs, the Add/Edit and EntityEvent runners, the
   replication and the variations review (section 4). Next: `FailureIsTheServers`
   of `CoreWalks`.
3. Left of the models: strategies in parallel over one state service; the client's
   lookup resolver, which
   keeps a fallback after a failed fetch; seeding by two servers on one database;
   the read-only scenarios of the EntityEvent run; the metadata checks.

## 6. Not modelled

- *Text and layout*: query strings, report rendering, generated documents, CSV
  quoting, prompts. No property is about them.
- *Byte input*: reading zip archives and JSON by stream; `RcfRuns` begins at the
  records they deliver and the errors they raise.
- *The CSDL parser and validator, the metadata checks, the schema and OpenAPI
  generators, the business rules*: one pass over a document each, without state;
  their outcome is a set of possibilities where a run depends on it.
- *The MCP server*: a table from tools to SDK calls, no state between calls.
- *Server authentication*: a comparison with constants; the mock token endpoint
  hands out constants.
- *CRUD and URI helpers of the client*: one request each over the request path
  that is modelled.
- *The legacy restore and batch drivers*: sequential loops over what
  `Replication`, `SchemaRules` and `Variations` model.
- *Memory, sockets and HTTP itself* are the environment's.
