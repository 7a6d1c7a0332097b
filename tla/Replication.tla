----------------------------- MODULE Replication ----------------------------
(***************************************************************************)
(* Replication of a resource that changes while it is being read:          *)
(*   - replicate() and its paging iterator with four strategies            *)
(*     (reso-certification/src/legacy/lib/replication), the state service  *)
(*     they share, and the walks of a Data Dictionary run (sdk/dd.ts);     *)
(*   - the iterator of the SDK and the Lookup walk over it                 *)
(*     (replication/replication-iterator.ts, metadata/lookup-resource.ts); *)
(*   - the reference server, from CollectionPaging, and its writers.       *)
(*                                                                         *)
(* A request and its answer are two steps, and records are written between *)
(* any two.  Consuming a page is part of receiving it: nothing is awaited  *)
(* there but the file system.  The callers of the repository set           *)
(* throwOnError and shouldGenerateReports, so both are taken as set.       *)
(***************************************************************************)
EXTENDS CollectionPaging, FiniteSetsExt

CONSTANTS
  Keys,            \* the keys records can have
  Plans,           \* what a process may be asked to replicate
  ClientPageSize,  \* DEFAULT_PAGE_SIZE of the legacy client
  MaxErrorCount,   \* maxErrorCount of the iterator
  StrictMode,      \* strictMode of replicate()
  NaN,             \* what parseInt makes of a missing @odata.count
  MaxClock, MaxWrites, MaxFaults   \* bounds

Strategies == {"TopAndSkip", "TimestampAsc", "TimestampDesc", "NextLink", "Lookup"}

(* One walk: the strategy, the query options of its initial request, the   *)
(* page size of its Prefer header, the expansions it asks for, and whether *)
(* it is the last request of a call of replicate(), which then reports.    *)
Walk == [strategy : Strategies, query : Request, prefer : Nat \cup {Unset},
         expand : {E \in SUBSET (STRING \ {"parent"}) : IsFiniteSet(E)}, last : BOOLEAN]

ASSUME ReplicationAssumption ==
  /\ \A p \in Plans : /\ p.walks \in Seq(Walk) \ {<<>>} /\ p.runs \in Nat \ {0}
                      /\ p.limit \in Nat \cup {Unset} /\ p.honoursSkip \in BOOLEAN
  /\ IsFiniteSet(Keys) /\ Unset \notin Request
  /\ NaN \notin Int \cup {Unset} /\ ClientPageSize \in Nat \ {0} /\ MaxErrorCount \in Nat
  /\ StrictMode \in BOOLEAN
  /\ MaxClock \in Nat \ {0} /\ MaxWrites \in Nat /\ MaxFaults \in Nat

VARIABLES
  table,      \* the records, in the order in which the database scans them
  clock, writes, faults,
  plan, runs, \* what this process replicates, and the runs it has begun
  outcome,    \* of the run: "running", "done", "failed" or "exited"
  todo,       \* the walks the run has not begun
  walk,       \* the iterator of the walk under way
  service,    \* the replication state service, a singleton of the process
  report,     \* the data availability report last written
  unchanged,  \* history: the records that were there all through the walk
  moved,      \* history: a record left its place in the walk's order
  crowded,    \* history: a timestamp was shared by more than one page's worth
  fetched,    \* history: the records this walk has received
  rereads,    \* history: how many of them it had received before
  scored      \* history: the record versions this run has scored

source == <<table, clock, writes>>
history == <<unchanged, moved, crowded, fetched, rereads, scored>>
vars == <<table, clock, writes, faults, plan, runs, outcome, todo, walk, service,
          report, unchanged, moved, crowded, fetched, rereads, scored>>

-----------------------------------------------------------------------------
(***************************************************************************)
(* The iterators.                                                          *)
(***************************************************************************)
Iterator ==
  [walk : Walk, phase : {"count", "next", "sent", "waiting", "ended", "reported"},
   requestUri : Request, lastRequestUri : Request \cup {Unset},
   lastIsoTimestamp : Int \cup {Unset}, nextLink : Request \cup {Unset},
   pageSize : Nat, totalRecordsFetched : Nat, numErrors : Nat,
   failing : BOOLEAN,   \* the last request was not answered with a collection
   owing : BOOLEAN]     \* a rate limit was waited out and nothing sent since

iterator(w) ==
  [walk |-> w, phase |-> IF w.strategy = "Lookup" \/ service.count # Unset
                           THEN "next" ELSE "count",
   requestUri |-> w.query, lastRequestUri |-> Unset, lastIsoTimestamp |-> Unset,
   nextLink |-> Unset, pageSize |-> ClientPageSize, totalRecordsFetched |-> 0,
   numErrors |-> 0, failing |-> FALSE, owing |-> FALSE]

otherwise(value, default) == IF value # Unset THEN value ELSE default

(* The query strategies keep the $top of their first request.  Those on    *)
(* timestamps replace a filter on the timestamp by their own.              *)
buildRequest(w) ==
  LET q == [w.requestUri EXCEPT !.top = otherwise(@, w.pageSize)] IN
  CASE w.walk.strategy \in {"TopAndSkip", "Lookup"} ->
         [q EXCEPT !.skip = w.totalRecordsFetched]
    [] w.walk.strategy = "TimestampAsc" ->
         [q EXCEPT !.skip = 0, !.ge = otherwise(w.lastIsoTimestamp, 0), !.le = Unset,
                   !.orderby = "asc"]
    [] w.walk.strategy = "TimestampDesc" ->
         [q EXCEPT !.skip = 0, !.le = otherwise(w.lastIsoTimestamp, clock), !.ge = Unset,
                   !.orderby = "desc"]
    [] OTHER -> otherwise(w.nextLink, w.requestUri)

timestamps(records) == {records[i].timestamp : i \in DOMAIN records}

(* Plausible bug: the cursor always steps past the boundary.               *)
FaultyComputeLastIsoTimestamp(w, records) ==
  CASE w.walk.strategy = "TimestampAsc" /\ records # <<>> -> Max(timestamps(records)) + 1
    [] w.walk.strategy = "TimestampDesc" /\ records # <<>> -> Min(timestamps(records)) - 1
    [] OTHER -> w.lastIsoTimestamp

(* The next page begins at the boundary of this one, or beside it when the *)
(* cursor would stay where it is.  An empty page ends the walk, so what it *)
(* does to the cursor is left out.                                         *)
computeLastIsoTimestamp(w, records) ==
  LET last == w.lastIsoTimestamp
      beside(boundary, step) == IF boundary = last THEN boundary + step ELSE boundary
  IN CASE w.walk.strategy = "TimestampAsc" /\ records # <<>> ->
            beside(Max(timestamps(records)), 1)
       [] w.walk.strategy = "TimestampDesc" /\ records # <<>> ->
            beside(Min(timestamps(records)), -1)
       [] OTHER -> last

(* Plausible bug: a body without records leaves no page size.              *)
FaultyReceived(w, records, link) ==
  [w EXCEPT !.lastIsoTimestamp = computeLastIsoTimestamp(w, records),
            !.pageSize = IF records = <<>> THEN Unset ELSE Len(records), !.nextLink = link,
            !.totalRecordsFetched = @ + Len(records), !.failing = FALSE]

received(w, records, link) ==
  [w EXCEPT !.lastIsoTimestamp = computeLastIsoTimestamp(w, records),
            !.pageSize = Len(records), !.nextLink = link,
            !.totalRecordsFetched = @ + Len(records), !.failing = FALSE]

limitReached(w) == plan.limit # Unset /\ w.totalRecordsFetched >= plan.limit

(* What follows the yield of a page: the consumer stops at its limit, the  *)
(* iterator after an empty page or an error too many.                      *)
resumed(w) ==
  [w EXCEPT !.phase =
     IF limitReached(w) \/ w.pageSize = 0 \/ w.numErrors > MaxErrorCount
       THEN "ended" ELSE "next"]

-----------------------------------------------------------------------------
(***************************************************************************)
(* Scoring.                                                                *)
(***************************************************************************)
(* A record is an item once per expansion of its request, without that     *)
(* expansion and with the others, and so is what each of them holds.       *)
normalizeRecords(expand, r) ==
  IF expand = {} THEN {[model |-> "parent", record |-> r, carries |-> {}]}
  ELSE {[model |-> "parent", record |-> r, carries |-> expand \ {e}] : e \in expand}
       \cup {[model |-> e, record |-> r.key, carries |-> {}] : e \in expand}

hashes(expand, records) ==
  UNION {normalizeRecords(expand, records[i]) : i \in DOMAIN records}

ofParent(items) == {x \in items : x.model = "parent"}

(* Plausible bug: a record that was scored before is scored again.         *)
FaultyScorePayload(s, expand, records) ==
  [s EXCEPT !.hashes = @ \cup hashes(expand, records),
            !.numUniqueRecordsFetched =
               @ + Cardinality(ofParent(hashes(expand, records)))]

scorePayload(s, expand, records) ==
  [s EXCEPT !.hashes = @ \cup hashes(expand, records),
            !.numUniqueRecordsFetched =
               @ + Cardinality(ofParent(hashes(expand, records) \ s.hashes))]

-----------------------------------------------------------------------------
(***************************************************************************)
(* The collection and its writers (external to a replicating process).     *)
(***************************************************************************)
keysOf(t) == {t[i].key : i \in DOMAIN t}

offsetPaged == walk.walk.strategy \in {"TopAndSkip", "NextLink", "Lookup"}

inWalksOrder(t) == selected(t, walk.walk.query)

(* The records of the walk that a change leaves keep their places.         *)
keepsPlaces(t, u) ==
  LET old == inWalksOrder(t)
      new == inWalksOrder(u)
  IN \A i \in DOMAIN old, j \in DOMAIN new : old[i].key = new[j].key => i = j

sharing(t, time) == {r \in ToSet(t) : r.timestamp = time}

(* A timestamp has more records than a page.  At the present time a full   *)
(* page suffices: the request that follows it is the first one again.      *)
overfull(t, w) ==
  \E time \in 1 .. clock :
    Cardinality(sharing(t, time)) + (IF time = clock THEN 1 ELSE 0)
      > fetchLimit([w.query EXCEPT !.top = otherwise(@, ClientPageSize)], w.prefer)

Written(t, key) ==
  /\ outcome = "running" /\ writes < MaxWrites
  /\ writes' = writes + 1
  /\ table' = t
  /\ unchanged' = {r \in unchanged : r.key # key}
  /\ moved' = (moved \/ ~keepsPlaces(table, t))
  /\ crowded' = (crowded \/ overfull(t, walk.walk))
  /\ UNCHANGED <<clock, faults, plan, runs, outcome, todo, walk, service, report,
                 fetched, rereads, scored>>

(* A new row takes any free place of a PostgreSQL heap, and an update is a *)
(* new row; the other databases add at the end and update in place.        *)
Create ==
  \E k \in Keys \ keysOf(table), i \in 1 .. Len(table) + 1 :
    Written(InsertAt(table, i, [key |-> k, timestamp |-> clock]), k)

Modify ==
  \E i, j \in DOMAIN table :
    Written(InsertAt(RemoveAt(table, i), j, [table[i] EXCEPT !.timestamp = clock]),
            table[i].key)

Delete == \E i \in DOMAIN table : Written(RemoveAt(table, i), table[i].key)

Tick ==
  /\ clock < MaxClock
  /\ clock' = clock + 1
  /\ UNCHANGED <<table, writes, faults, plan, runs, outcome, todo, walk, service, report,
                 history>>

-----------------------------------------------------------------------------
(***************************************************************************)
(* replicate().                                                            *)
(***************************************************************************)
(* The phase in which the next walk may begin.                             *)
rest(w) == IF w.last THEN "reported" ELSE "ended"

Init ==
  /\ \E times \in BoundedSeq({1, 2}, Cardinality(Keys)) :
       table = [i \in DOMAIN times |-> [key |-> SetToSeq(Keys)[i], timestamp |-> times[i]]]
  /\ clock = 3 /\ writes = 0 /\ faults = 0
  /\ plan \in Plans /\ todo = plan.walks /\ runs = 1 /\ outcome = "running"
  /\ service = [hashes |-> {}, numUniqueRecordsFetched |-> 0, count |-> Unset]
  /\ walk = [iterator(plan.walks[1]) EXCEPT !.phase = rest(plan.walks[1])]
  /\ report = Unset
  /\ unchanged = {} /\ fetched = {} /\ rereads = 0 /\ scored = {}
  /\ moved = FALSE /\ crowded = FALSE

ended == walk.phase \in {"ended", "reported"}

settled == walk.phase = rest(walk.walk)

Begin ==
  /\ outcome = "running" /\ settled /\ todo # <<>>
  /\ walk' = iterator(Head(todo))
  /\ todo' = Tail(todo)
  /\ unchanged' = ToSet(table) /\ fetched' = {} /\ rereads' = 0
  /\ moved' = FALSE /\ crowded' = overfull(table, Head(todo))
  /\ UNCHANGED <<source, faults, plan, runs, outcome, service, report, scored>>

Faulty == faults < MaxFaults /\ faults' = faults + 1

(* fetchTopLevelResourceCount, once per resource and process; a failure    *)
(* counts as 0, and an answer without a count is NaN.                      *)
Count ==
  /\ walk.phase = "count"
  /\ walk' = [walk EXCEPT !.phase = "next"]
  /\ \/ /\ service' = [service EXCEPT !.count = Len(selected(table, walk.walk.query))]
        /\ UNCHANGED faults
     \/ /\ Faulty
        /\ \E c \in {0, NaN} : service' = [service EXCEPT !.count = c]
  /\ UNCHANGED <<source, plan, runs, outcome, todo, report, history>>

(* Send the next request, unless it is the one just answered.              *)
Send ==
  /\ walk.phase = "next"
  /\ LET q == buildRequest(walk) IN
     walk' = IF walk.walk.strategy # "Lookup" /\ q = walk.lastRequestUri
               THEN [walk EXCEPT !.phase = "ended"]
               ELSE [walk EXCEPT !.phase = "sent", !.requestUri = q, !.owing = FALSE]
  /\ UNCHANGED <<source, faults, plan, runs, outcome, todo, service, report, history>>

answered == [walk EXCEPT !.lastRequestUri = walk.requestUri]

(* What the server sends: a server may ignore $skip.                       *)
served ==
  LET q == IF plan.honoursSkip THEN walk.requestUri ELSE [walk.requestUri EXCEPT !.skip = 0]
  IN page(table, q, walk.walk.prefer)

link(records) ==
  IF isPartial(walk.requestUri, walk.walk.prefer, Len(records))
    THEN buildNextLink(walk.requestUri, walk.walk.prefer) ELSE Unset

Received(records) ==
  /\ fetched' = fetched \cup ToSet(records)
  /\ rereads' = rereads + Cardinality(fetched \cap ToSet(records))

(* A page of a legacy walk is scored, whatever it repeats.                 *)
Page(records) ==
  /\ walk.phase = "sent" /\ walk.walk.strategy # "Lookup"
  /\ walk' = resumed(received(answered, records, link(records)))
  /\ service' = scorePayload(service, walk.walk.expand, records)
  /\ scored' = scored \cup ToSet(records)
  /\ Received(records)
  /\ UNCHANGED <<source, faults, plan, runs, outcome, todo, report, unchanged, moved, crowded>>

(* A page whose records break the schema stops a strict run unscored.      *)
InvalidPage(records) ==
  /\ walk.phase = "sent" /\ walk.walk.strategy # "Lookup" /\ records # <<>>
  /\ StrictMode
  /\ Faulty
  /\ walk' = [received(answered, records, link(records)) EXCEPT !.phase = "ended"]
  /\ outcome' = "failed"
  /\ Received(records)
  /\ UNCHANGED <<source, plan, runs, todo, service, report, unchanged, moved, crowded, scored>>

(* An answer that is no JSON, or a page on which a record has no timestamp *)
(* when the strategy needs one, counts as a page without records.          *)
GarbledPage ==
  /\ walk.phase = "sent" /\ walk.walk.strategy # "Lookup"
  /\ Faulty
  /\ walk' = resumed([received(answered, <<>>, Unset) EXCEPT !.failing = TRUE])
  /\ UNCHANGED <<source, plan, runs, outcome, todo, service, report, history>>

(* An HTTP error leaves the cursor where it was.  The consumer exits on a  *)
(* 401, and waits before it goes on after a 429.                           *)
HttpError ==
  /\ walk.phase = "sent" /\ walk.walk.strategy # "Lookup"
  /\ Faulty
  /\ LET failed == [answered EXCEPT !.numErrors = @ + 1, !.failing = TRUE] IN
     \/ walk' = resumed(failed) /\ UNCHANGED outcome
     \/ walk' = [failed EXCEPT !.phase = "waiting", !.owing = TRUE] /\ UNCHANGED outcome
     \/ walk' = [failed EXCEPT !.phase = "ended"] /\ outcome' = "exited"
  /\ UNCHANGED <<source, plan, runs, todo, service, report, history>>

Wake ==
  /\ walk.phase = "waiting"
  /\ walk' = resumed(walk)
  /\ UNCHANGED <<source, faults, plan, runs, outcome, todo, service, report, history>>

(* A request that fails without an answer is not remembered as the last.   *)
Unreachable ==
  /\ walk.phase = "sent" /\ walk.walk.strategy # "Lookup"
  /\ Faulty
  /\ walk' = resumed([walk EXCEPT !.numErrors = @ + 1, !.failing = TRUE])
  /\ UNCHANGED <<source, plan, runs, outcome, todo, service, report, history>>

(* Plausible bug: the page without records does not end it.                *)
FaultyIteratorPage(records) ==
  [received(answered, records, Unset) EXCEPT !.pageSize = walk.pageSize, !.phase = "next"]

(* replicationIterator of the SDK: the cursor moves by what was served, and *)
(* nothing but a page without records ends a walk.                         *)
IteratorPage(records) ==
  [received(answered, records, Unset) EXCEPT
     !.pageSize = walk.pageSize, !.phase = IF records = <<>> THEN "ended" ELSE "next"]

(* A page of a Lookup walk that repeats what was served before fails the   *)
(* run.                                                                    *)
LookupPage(records) ==
  /\ walk.phase = "sent" /\ walk.walk.strategy = "Lookup"
  /\ LET stuck == records # <<>> /\ keysOf(records) \subseteq {r.key : r \in fetched} IN
     /\ walk' = [IteratorPage(records) EXCEPT !.phase = IF stuck THEN "ended" ELSE @]
     /\ outcome' = IF stuck THEN "failed" ELSE outcome
  /\ Received(records)
  /\ UNCHANGED <<source, faults, plan, runs, todo, service, report, unchanged, moved, crowded,
                 scored>>

(* Any other answer fails the run, but a 404 to the first request means    *)
(* that the provider has no Lookup resource.                               *)
LookupError ==
  /\ walk.phase = "sent" /\ walk.walk.strategy = "Lookup"
  /\ Faulty
  /\ walk' = [answered EXCEPT !.phase = "ended", !.failing = TRUE]
  /\ \/ outcome' = "failed"
     \/ walk.lastRequestUri = Unset /\ UNCHANGED outcome
  /\ UNCHANGED <<source, plan, runs, todo, service, report, history>>

(* Each call of replicate() writes the report, from what the state service *)
(* holds; a write that fails is logged and the call goes on.               *)
Report ==
  /\ outcome = "running" /\ walk.phase = "ended" /\ walk.walk.last
  /\ walk' = [walk EXCEPT !.phase = "reported"]
  /\ \/ /\ report' = [recordCount |-> service.count,
                      numUniqueRecordsFetched |-> service.numUniqueRecordsFetched]
        /\ UNCHANGED faults
     \/ Faulty /\ UNCHANGED report
  /\ UNCHANGED <<source, plan, runs, outcome, todo, service, history>>

Finish ==
  /\ outcome = "running" /\ settled /\ todo = <<>>
  /\ outcome' = "done"
  /\ UNCHANGED <<source, faults, plan, runs, todo, walk, service, report, history>>

(* createReplicationStateServiceInstance hands every run the same service. *)
NextRun ==
  /\ outcome = "done" /\ runs < plan.runs
  /\ runs' = runs + 1
  /\ todo' = plan.walks /\ outcome' = "running"
  /\ scored' = {}
  /\ UNCHANGED <<source, faults, plan, walk, service, report, unchanged, moved, crowded,
                 fetched, rereads>>

-----------------------------------------------------------------------------
Answer ==
  \/ \E records \in {served} : Page(records) \/ InvalidPage(records) \/ LookupPage(records)
  \/ GarbledPage \/ HttpError \/ Unreachable \/ LookupError

Step == Begin \/ Count \/ Send \/ Answer \/ Wake \/ Report \/ Finish \/ NextRun

Next == Step \/ Create \/ Modify \/ Delete \/ Tick

Spec == Init /\ [][Next]_vars

(* The process runs on, and the server answers in one way or another: the  *)
(* legacy client has no timeout of its own.                                *)
FairSpec == Spec /\ WF_vars(Step)

-----------------------------------------------------------------------------
(***************************************************************************)
(* Properties.                                                             *)
(***************************************************************************)
(* The state has its type.                                                 *)
TypeOK ==
  /\ table \in Seq(Record(Keys)) /\ Cardinality(keysOf(table)) = Len(table)
  /\ walk \in Iterator
  /\ outcome \in {"running", "done", "failed", "exited"}
  /\ service.numUniqueRecordsFetched \in Nat /\ service.count \in Nat \cup {Unset, NaN}
  /\ unchanged \subseteq ToSet(table)

due == {r \in unchanged : \/ walk.walk.strategy \in {"TimestampAsc", "TimestampDesc"}
                          \/ matches(r, walk.walk.query)}

finished == /\ outcome \in {"running", "done"} /\ ended /\ ~walk.failing
            /\ walk.lastRequestUri # Unset /\ ~limitReached(walk)

(* A walk that runs to its end has received every record that was there,   *)
(* unchanged, from its beginning to its end, however the server cut the    *)
(* pages, whatever was written meanwhile and whichever requests had to be  *)
(* repeated.  Paging by offset may lose records only if one changed its    *)
(* place in the walk's order, paging by timestamp only if one timestamp    *)
(* was shared by more records than fit a page.                             *)
WalksAreComplete ==
  finished /\ ~(IF offsetPaged THEN moved ELSE crowded) => due \subseteq fetched

(* A walk by offset receives no record twice while the records keep their  *)
(* places.                                                                 *)
OffsetWalksNeverReread ==
  offsetPaged /\ plan.honoursSkip /\ ~moved => rereads = 0

(* A record makes an item of each form in which it is scored: as it is, and *)
(* once per expansion of a request that carries several, as those of        *)
(* batchExpand do.  In every process the report counts each item once,      *)
(* however often the strategies fetch it.                                   *)
EveryItemCountsOnce ==
  service.numUniqueRecordsFetched = Cardinality(ofParent(service.hashes))

(* What utils.js 234 says the items are for: a record is "not duplicated    *)
(* when fetched with multiple child expansions", and each version of it     *)
(* counts once.                                                             *)
EveryVersionCountsOnce ==
  service.numUniqueRecordsFetched
    = Cardinality({x.record : x \in ofParent(service.hashes)})

(* It does as long as no request carries several expansions: without and    *)
(* with one, a record is the same item.  With several it is as many, of     *)
(* which each is counted.                                                   *)
expandsOneAtATime == \A i \in DOMAIN plan.walks : Cardinality(plan.walks[i].expand) <= 1

UniqueCountIsExact ==
  /\ EveryItemCountsOnce
  /\ expandsOneAtATime => EveryVersionCountsOnce

(* A rate limit is a delay and no more (README.md 98 of the legacy Data    *)
(* Dictionary tests): the wait is followed by the next request (utils.js   *)
(* 1115: "before making the next request").                                *)
RateLimitIsWaitedOut ==
  ended /\ outcome \in {"running", "done"} => ~walk.owing

(* The report of a run counts the records of that run                      *)
(* (replicate-command.ts 98-99: "with a fresh state instance").          *)
ReportIsOfTheRun ==
  outcome = "done" /\ faults = 0 => report.numUniqueRecordsFetched = Cardinality(scored)

(* Every run comes to its end, also against a server that ignores $skip.   *)
EveryRunEnds == <>[](outcome # "running")
=============================================================================
