----------------------------- MODULE EntityEvents ----------------------------
(***************************************************************************)
(* The change feed of the reference server: the write handlers of          *)
(* odata/handlers.ts over the EntityEvent decorator (db/entity-event-      *)
(* dal.ts), the event writers and the compaction of the three backends,    *)
(* and a consumer that polls the feed by sequence number.                  *)
(*                                                                         *)
(* A handler runs from one await to the next; what happens in between is   *)
(* one action, and other requests, the compaction timer, the consumer and  *)
(* a crash of the process come between.  One resource stands for them all, *)
(* and a record is present or absent: its fields play no part here.        *)
(***************************************************************************)
EXTENDS Integers, FiniteSets, FiniteSetsExt

CONSTANTS
  Backends,      \* the values of config.dbBackend
  Requests,      \* the write requests that may be under way at once
  Keys,          \* the record keys
  Passes,        \* the compaction passes that may be under way at once
  MaxWrites,     \* bounds the write requests of a run
  MaxFaults      \* bounds the failed calls, crashes and admin resets together

SqlBackends == {"postgres", "sqlite"}

ASSUME FeedAssumption ==
  /\ Backends \subseteq SqlBackends \cup {"mongodb"}
  /\ Keys # {}
  /\ MaxWrites \in Nat /\ MaxFaults \in Nat

VARIABLES
  backend,   \* the backend of this server
  records,   \* the keys that have a record
  seq,       \* the last EntityEventSequence handed out
  events,    \* the visible rows of EntityEvent
  req,       \* the control state of each request
  writes,    \* how many were received
  pass,      \* by Mongo pass, its keepSequences, or NoPass
  cursor,    \* the last sequence the consumer has stored
  stale,     \* history: keys whose record changed since the consumer read it
  lost,      \* history: keys whose latest change will never be announced
  faults     \* how much has gone wrong

vars == <<backend, records, seq, events, req, writes, pass, cursor, stale, lost,
          faults>>

NoPass == {}

(* current: no change of the record since the event was written (history). *)
Event == [seq : Nat \ {0}, key : Keys, current : BOOLEAN]

Request ==
  [phase : {"idle", "update", "reread", "insert", "delete", "announce", "commit"},
   key : Keys,
   seq : Nat,                      \* allocated, not yet visible
   then : {"reply", "insert"}]     \* what follows the announcement

noRequest ==
  [phase |-> "idle", key |-> CHOOSE k \in Keys : TRUE, seq |-> 0, then |-> "reply"]

Init ==
  /\ backend \in Backends
  /\ records \in SUBSET Keys
  /\ seq = 0 /\ events = {}
  /\ req = [r \in Requests |-> noRequest] /\ writes = 0
  /\ pass = [p \in Passes |-> NoPass]
  /\ cursor = 0 /\ stale = {} /\ lost = {}
  /\ faults = 0

-----------------------------------------------------------------------------
(***************************************************************************)
(* The handlers.  POST makes up a key nobody has used (randomUUID).        *)
(***************************************************************************)
entry == [POST |-> "insert", PATCH |-> "update", DELETE |-> "delete"]

fresh(k) ==
  /\ k \notin records \cup stale \cup lost
  /\ \A e \in events : e.key # k
  /\ \A r \in Requests : req[r].phase # "idle" => req[r].key # k

Receive(r, method, k) ==
  /\ req[r].phase = "idle"
  /\ writes < MaxWrites
  /\ method = "POST" => fresh(k)
  /\ writes' = writes + 1
  /\ req' = [req EXCEPT ![r] = [noRequest EXCEPT !.phase = entry[method], !.key = k]]
  /\ UNCHANGED <<backend, records, seq, events, pass, cursor, stale, lost, faults>>

(* A record was inserted, updated or deleted: the decorator now owes an    *)
(* event (history: what was written before no longer covers it).           *)
Changed(k) ==
  /\ events' = {[e EXCEPT !.current = @ /\ e.key # k] : e \in events}
  /\ stale' = stale \cup {k}
  /\ lost' = lost \ {k}

Unchanged == UNCHANGED <<events, stale, lost>>

Goto(r, phase) == req' = [req EXCEPT ![r].phase = phase]

Reply(r) == req' = [req EXCEPT ![r] = noRequest]

(* dal.update: SQL returns the row it updated; Mongo matches, and reads    *)
(* the document back in a second call.                                     *)
Update(r) ==
  LET k == req[r].key IN
  /\ req[r].phase = "update"
  /\ IF k \in records
       THEN Changed(k) /\ Goto(r, IF backend = "mongodb" THEN "reread" ELSE "announce")
       ELSE Unchanged /\ Goto(r, "insert")
  /\ UNCHANGED <<backend, writes, records, seq, pass, cursor, faults>>

(* If the document is gone by then the update returns null: the decorator  *)
(* announces it (null is not undefined), the handler inserts it (null is   *)
(* falsy).                                                                 *)
Reread(r) ==
  /\ req[r].phase = "reread"
  /\ req' = [req EXCEPT ![r].phase = "announce",
                        ![r].then = IF req[r].key \in records THEN "reply" ELSE "insert"]
  /\ Unchanged
  /\ UNCHANGED <<backend, writes, records, seq, pass, cursor, faults>>

(* dal.insert, of POST and of a PATCH that found nothing to update; the    *)
(* unique key turns a second insert into an error response.                *)
Insert(r) ==
  LET k == req[r].key IN
  /\ req[r].phase = "insert"
  /\ IF k \in records
       THEN UNCHANGED records /\ Unchanged /\ Reply(r)
       ELSE /\ records' = records \cup {k}
            /\ Changed(k)
            /\ req' = [req EXCEPT ![r].phase = "announce", ![r].then = "reply"]
  /\ UNCHANGED <<backend, writes, seq, pass, cursor, faults>>

(* Faulty: a deleted record is not announced.                              *)
FaultyDelete(r) ==
  LET k == req[r].key IN
  /\ req[r].phase = "delete"
  /\ records' = records \ {k}
  /\ IF k \in records THEN Changed(k) ELSE Unchanged
  /\ Reply(r)
  /\ UNCHANGED <<backend, writes, seq, pass, cursor, faults>>

Delete(r) ==
  LET k == req[r].key IN
  /\ req[r].phase = "delete"
  /\ records' = records \ {k}
  /\ IF k \in records
       THEN Changed(k) /\ Goto(r, "announce")
       ELSE Unchanged /\ Reply(r)
  /\ UNCHANGED <<backend, writes, seq, pass, cursor, faults>>

(* writer.writeEvent.  On SQLite the row and its number appear at once; on *)
(* the other backends the number is drawn first (by the sequence behind    *)
(* BIGSERIAL, by the counters document) and the row becomes visible later. *)
Written(r, n) ==
  /\ events' = events \cup {[seq |-> n, key |-> req[r].key, current |-> TRUE]}
  /\ \/ req[r].then = "reply" /\ Reply(r)
     \/ /\ req[r].then = "insert"
        /\ req' = [req EXCEPT ![r].phase = "insert", ![r].seq = 0]

(* Faulty: the sequence is the row's place in the table.                   *)
FaultyAnnounce(r) ==
  /\ req[r].phase = "announce"
  /\ IF backend = "sqlite"
       THEN Written(r, Cardinality(events) + 1) /\ UNCHANGED seq
       ELSE /\ seq' = seq + 1
            /\ req' = [req EXCEPT ![r].phase = "commit", ![r].seq = seq + 1]
            /\ UNCHANGED events
  /\ UNCHANGED <<backend, writes, records, pass, cursor, stale, lost, faults>>

Announce(r) ==
  /\ req[r].phase = "announce"
  /\ seq' = seq + 1
  /\ IF backend = "sqlite"
       THEN Written(r, seq + 1)
       ELSE /\ req' = [req EXCEPT ![r].phase = "commit", ![r].seq = seq + 1]
            /\ UNCHANGED events
  /\ UNCHANGED <<backend, writes, records, pass, cursor, stale, lost, faults>>

Commit(r) ==
  /\ req[r].phase = "commit"
  /\ Written(r, req[r].seq)
  /\ UNCHANGED <<backend, writes, records, seq, pass, cursor, stale, lost, faults>>

(* A database call of the handler throws: it answers 500 and stops.  The   *)
(* record stays as it is, announced or not.                                *)
owes(r) == req[r].phase \in {"reread", "announce", "commit"}

CallFails(r) ==
  /\ req[r].phase # "idle"
  /\ faults < MaxFaults
  /\ faults' = faults + 1
  /\ lost' = lost \cup (IF owes(r) THEN {req[r].key} ELSE {})
  /\ Reply(r)
  /\ UNCHANGED <<backend, writes, records, seq, events, pass, cursor, stale>>

(* The process stops and is started again; what is in the database stays.  *)
Crash ==
  /\ faults < MaxFaults
  /\ faults' = faults + 1
  /\ lost' = lost \cup {req[r].key : r \in {x \in Requests : owes(x)}}
  /\ req' = [r \in Requests |-> noRequest]
  /\ pass' = [p \in Passes |-> NoPass]
  /\ UNCHANGED <<backend, writes, records, seq, events, cursor, stale>>

(* The admin reset of the SQLite server empties the resource behind the    *)
(* decorator's back: truncateResource is passed through.                   *)
Reset ==
  /\ backend = "sqlite"
  /\ faults < MaxFaults
  /\ faults' = faults + 1
  /\ records' = {}
  /\ events' = {[e EXCEPT !.current = @ /\ e.key \notin records] : e \in events}
  /\ stale' = stale \cup records
  /\ lost' = lost \cup records
  /\ UNCHANGED <<backend, writes, seq, req, pass, cursor>>

-----------------------------------------------------------------------------
(***************************************************************************)
(* Compaction.  The SQL backends run one DELETE; Mongo aggregates first    *)
(* and deletes in a second call, and the timer does not wait for the pass  *)
(* before.                                                                 *)
(***************************************************************************)
sequencesOf(k) == {e.seq : e \in {x \in events : x.key = k}}

(* Faulty: the earliest entry is the one that is kept.                     *)
FaultyKeepSequences ==
  {Min(sequencesOf(k)) : k \in {x \in Keys : sequencesOf(x) # {}}}

keepSequences == {Max(sequencesOf(k)) : k \in {x \in Keys : sequencesOf(x) # {}}}

(* Faulty: the feed is never compacted.                                    *)
FaultyDeleteOthers(keep) == UNCHANGED events

deleteOthers(keep) == events' = {e \in events : e.seq \in keep}

CompactSql ==
  /\ backend \in SqlBackends
  /\ deleteOthers(keepSequences)
  /\ UNCHANGED <<backend, writes, records, seq, req, pass, cursor, stale, lost, faults>>

Aggregate(p) ==
  /\ backend = "mongodb"
  /\ pass[p] = NoPass
  /\ events # {}
  /\ pass' = [pass EXCEPT ![p] = keepSequences]
  /\ UNCHANGED <<backend, writes, records, seq, events, req, cursor, stale, lost, faults>>

DeleteMany(p) ==
  /\ pass[p] # NoPass
  /\ deleteOthers(pass[p])
  /\ pass' = [pass EXCEPT ![p] = NoPass]
  /\ UNCHANGED <<backend, writes, records, seq, req, cursor, stale, lost, faults>>

(* The pass throws; the timer logs it and comes back.                      *)
PassFails(p) ==
  /\ pass[p] # NoPass
  /\ faults < MaxFaults
  /\ faults' = faults + 1
  /\ pass' = [pass EXCEPT ![p] = NoPass]
  /\ UNCHANGED <<backend, writes, records, seq, events, req, cursor, stale, lost>>

(* The consumer (external): reads the next event after its cursor, stores  *)
(* its sequence, and reads the record it names.                            *)
unread == {e \in events : e.seq > cursor}

Poll ==
  /\ unread # {}
  /\ LET next == CHOOSE e \in unread : \A o \in unread : e.seq <= o.seq
     IN  cursor' = next.seq /\ stale' = stale \ {next.key}
  /\ UNCHANGED <<backend, writes, records, seq, events, req, pass, lost, faults>>

-----------------------------------------------------------------------------
Serve(r) == Update(r) \/ Reread(r) \/ Insert(r) \/ Delete(r) \/ Announce(r) \/ Commit(r)

Next ==
  \/ \E r \in Requests :
       \/ \E method \in DOMAIN entry, k \in Keys : Receive(r, method, k)
       \/ Serve(r) \/ CallFails(r)
  \/ CompactSql
  \/ \E p \in Passes : Aggregate(p) \/ DeleteMany(p) \/ PassFails(p)
  \/ Poll \/ Crash \/ Reset

Spec == Init /\ [][Next]_vars

(* The database answers, the timer keeps firing and the consumer polling.  *)
Fairness ==
  /\ \A r \in Requests : WF_vars(Serve(r))
  /\ WF_vars(CompactSql)
  /\ \A p \in Passes : WF_vars(Aggregate(p)) /\ WF_vars(DeleteMany(p))
  /\ WF_vars(Poll)

FairSpec == Spec /\ Fairness

-----------------------------------------------------------------------------
(***************************************************************************)
(* Properties.                                                             *)
(***************************************************************************)
(* The state has its type, and no row has a number that was not drawn.     *)
TypeOK ==
  /\ backend \in Backends
  /\ records \subseteq Keys
  /\ seq \in Nat
  /\ events \subseteq Event /\ \A e \in events : e.seq <= seq
  /\ req \in [Requests -> Request] /\ writes \in 0 .. MaxWrites
  /\ pass \in [Passes -> SUBSET (Nat \ {0})]
  /\ cursor \in 0 .. seq
  /\ stale \subseteq Keys /\ lost \subseteq Keys
  /\ faults \in Nat

announced(k) == \E e \in events : e.key = k /\ e.current

owed(k) == \E r \in Requests : owes(r) /\ req[r].key = k

(* Whatever the requests, the compaction and the crashes do, a record      *)
(* whose change was not lost with its request has an event written after   *)
(* that change, or a request on its way to write one                       *)
(* (entity-event-compaction.ts 6-8, entity-event-dal.ts 26-33).            *)
everyChangeIsAnnounced ==
  \A k \in Keys :
    k \in stale /\ k \notin lost => announced(k) \/ owed(k)

(* It holds on the SQL backends, whose compaction is one statement.        *)
EveryChangeIsAnnounced == backend \in SqlBackends => everyChangeIsAnnounced

(* It is stated of every backend.                                          *)
CompactionIsSafe == everyChangeIsAnnounced

(* A consumer that stores the last sequence it saw and asks for everything *)
(* after it misses no change (GUIDE.md 556): on SQLite, where an event and *)
(* its number appear together, a change that the consumer does not have    *)
(* lies ahead of its cursor or is still to be announced.                   *)
NothingIsMissed ==
  backend = "sqlite" =>
    \A k \in stale \ lost : owed(k) \/ \E e \in unread : e.key = k

latest(k) == IF sequencesOf(k) = {} THEN 0 ELSE Max(sequencesOf(k))

(* On the SQL backends the feed never moves back: whatever is removed, the *)
(* latest event of a record stays until a later one replaces it.           *)
FeedNeverMovesBack ==
  [][\A k \in Keys : backend \in SqlBackends => latest(k)' >= latest(k)]_vars

(* Once the writers are quiet the feed holds one event per record and      *)
(* stays so, on every backend and although passes overlap and fail.        *)
EventuallyCompacted ==
  <>[](\A k \in Keys : Cardinality(sequencesOf(k)) <= 1)

(* On SQLite a polling consumer gets to know of every change that was not  *)
(* lost, although compaction keeps removing events from under its cursor.  *)
EveryChangeIsSeen ==
  \A k \in Keys :
    (backend = "sqlite" /\ k \in stale) ~> (k \notin stale \/ k \in lost)
=============================================================================
