-------------------------- MODULE EntityEventsProofs ------------------------
(***************************************************************************)
(* What TLAPS proves of the change feed, for any records, any number of    *)
(* concurrent requests and of compaction passes, and any number of faults. *)
(***************************************************************************)
EXTENDS EntityEvents, FiniteSetTheorems, WellFoundedInduction, TLAPS

-----------------------------------------------------------------------------
(* The least and the greatest of a set of numbers. *)

(* There is a least of the numbers of a set.                               *)
LEMMA LeastExists ==
  ASSUME NEW S \in SUBSET Nat, S # {}
  PROVE  \E x \in S : \A y \in S : x <= y
<1>1. PICK x \in S : \A y \in S : ~ (<<y, x>> \in OpToRel(<, Nat))
  BY NatLessThanWellFounded, WFMin
<1>2. \A y \in S : ~ (y < x)
  BY <1>1, Zenon DEF OpToRel
<1>3. QED BY <1>2

(* There is a greatest of numbers that have a bound.                       *)
LEMMA GreatestExists ==
  ASSUME NEW n \in Nat, NEW S \in SUBSET (0 .. n), S # {}
  PROVE  \E x \in S : \A y \in S : y <= x
<1> DEFINE U == {u \in Nat : \A y \in S : y <= u}
<1>1. U \in SUBSET Nat /\ n \in U
  OBVIOUS
<1>2. PICK x \in U : \A u \in U : x <= u
  <2> HIDE DEF U
  <2>1. QED BY <1>1, LeastExists
<1>3. x \notin S => x - 1 \in U
  <2>1. PICK z \in S : TRUE
    OBVIOUS
  <2>2. ASSUME x \notin S, NEW y \in S PROVE y <= x - 1
    BY <2>2
  <2>3. ASSUME x \notin S PROVE x - 1 \in Nat
    BY <2>1, <2>2, <2>3
  <2>4. QED BY <2>2, <2>3
<1>4. QED BY <1>2, <1>3

(* Max of a bounded set of naturals is one of them, and none exceeds it.   *)
LEMMA MaxIsGreatest ==
  ASSUME NEW n \in Nat, NEW S \in SUBSET (0 .. n), S # {}
  PROVE  Max(S) \in S /\ \A y \in S : y <= Max(S)
BY GreatestExists DEF Max

-----------------------------------------------------------------------------

(* The rows of the event table, but for their history bit on the keys K.   *)
SameRowsBut(K) ==
  /\ events' \subseteq Event
  /\ \A e \in events : \E f \in events' : f.seq = e.seq /\ f.key = e.key
  /\ \A f \in events' : \E e \in events : e.seq = f.seq /\ e.key = f.key
  /\ \A e \in events : e.key \notin K => e \in events'
  /\ \A f \in events' : f.key \notin K => f \in events

LEMMA MarkedRows ==
  ASSUME NEW K, events \subseteq Event,
         events' = {[e EXCEPT !.current = @ /\ e.key \notin K] : e \in events}
  PROVE  SameRowsBut(K)
<1> DEFINE mark(e) == [e EXCEPT !.current = @ /\ e.key \notin K]
<1>1. ASSUME NEW e \in events
      PROVE  /\ mark(e) \in Event /\ mark(e).seq = e.seq /\ mark(e).key = e.key
             /\ e.key \notin K => mark(e) = e
  <2>1. e \in Event
    OBVIOUS
  <2>2. (e.current /\ e.key \notin K) \in BOOLEAN
    OBVIOUS
  <2>3. mark(e) \in Event /\ mark(e).seq = e.seq /\ mark(e).key = e.key
    BY <2>1, <2>2 DEF Event
  <2>4. ASSUME e.key \notin K PROVE mark(e) = e
    <3>1. e.current \in BOOLEAN
      BY <2>1 DEF Event
    <3>2. (e.current /\ e.key \notin K) = e.current
      BY <2>4, <3>1, Zenon
    <3>3. mark(e) = [e EXCEPT !.current = e.current]
      BY <3>2, Zenon
    <3>4. QED BY <2>1, <3>3 DEF Event
  <2>5. QED BY <2>3, <2>4
<1>2. events' = {mark(e) : e \in events}
  OBVIOUS
<1> HIDE DEF mark
<1>3. QED BY <1>1, <1>2 DEF SameRowsBut

LEMMA ChangedRows ==
  ASSUME NEW k \in Keys, events \subseteq Event, Changed(k)
  PROVE  SameRowsBut({k})
<1>1. \A e : (e.key # k) = (e.key \notin {k})
  OBVIOUS
<1>2. events' = {[e EXCEPT !.current = @ /\ e.key \notin {k}] : e \in events}
  BY <1>1, Zenon DEF Changed
<1>3. QED BY <1>2, MarkedRows

LEMMA IdleRequest == noRequest \in Request /\ noRequest.phase = "idle"
  BY FeedAssumption DEF noRequest, Request

-----------------------------------------------------------------------------
(***************************************************************************)
(* Typing.  A number waiting to become visible was drawn, and what only    *)
(* one kind of backend does is only under way there.                       *)
(***************************************************************************)
Allocated ==
  \A r \in Requests : req[r].phase = "commit" => req[r].seq \in 1 .. seq

WaysOfBackends ==
  /\ \A r \in Requests : req[r].phase = "reread" => backend = "mongodb"
  /\ \A r \in Requests : req[r].phase = "commit" => backend # "sqlite"
  /\ \A p \in Passes : pass[p] # NoPass => backend = "mongodb"

TypeInv == TypeOK /\ Allocated /\ WaysOfBackends

(* A request that changes its record, or finds it as it wants it.          *)
LEMMA RecordStepType ==
  ASSUME TypeInv, NEW r \in Requests, NEW k \in Keys,
         Changed(k) \/ Unchanged
  PROVE  /\ events' \subseteq Event /\ \A e \in events' : e.seq <= seq
         /\ stale' \subseteq Keys /\ lost' \subseteq Keys
<1>1. CASE Changed(k)
  <2>1. SameRowsBut({k})
    BY <1>1, ChangedRows DEF TypeInv, TypeOK
  <2>2. QED BY <1>1, <2>1 DEF SameRowsBut, Changed, TypeInv, TypeOK
<1>2. CASE Unchanged
  BY <1>2 DEF Unchanged, TypeInv, TypeOK
<1>3. QED BY <1>1, <1>2

(* A request goes on to a phase, with the number it has or a drawn one.    *)
LEMMA RequestStepType ==
  ASSUME TypeInv, NEW r \in Requests, NEW new \in Request,
         req' = [req EXCEPT ![r] = new],
         UNCHANGED backend, seq' \in Nat, seq <= seq',
         new.phase = "commit" => new.seq \in 1 .. seq' /\ backend # "sqlite",
         new.phase = "reread" => backend = "mongodb"
  PROVE  /\ req' \in [Requests -> Request]
         /\ Allocated'
         /\ \A x \in Requests : /\ req'[x].phase = "reread" => backend' = "mongodb"
                                /\ req'[x].phase = "commit" => backend' # "sqlite"
<1>1. req' \in [Requests -> Request]
  BY DEF TypeInv, TypeOK
<1>2. \A x \in Requests : req'[x] = IF x = r THEN new ELSE req[x]
  BY DEF TypeInv, TypeOK
<1>3. \A x \in Requests : req[x].phase = "commit" => req[x].seq \in 1 .. seq'
  BY DEF TypeInv, TypeOK, Allocated
<1>4. Allocated'
  BY <1>2, <1>3 DEF Allocated
<1>5. QED BY <1>1, <1>2, <1>4 DEF TypeInv, WaysOfBackends

LEMMA WrittenType ==
  ASSUME TypeInv, NEW r \in Requests, NEW n \in 1 .. seq', Written(r, n),
         UNCHANGED backend, seq' \in Nat, seq <= seq'
  PROVE  /\ events' \subseteq Event /\ \A e \in events' : e.seq <= seq'
         /\ req' \in [Requests -> Request]
         /\ Allocated'
         /\ \A x \in Requests : /\ req'[x].phase = "reread" => backend' = "mongodb"
                                /\ req'[x].phase = "commit" => backend' # "sqlite"
<1>1. req[r] \in Request
  BY DEF TypeInv, TypeOK
<1>2. events' \subseteq Event
  <2>1. n \in Nat \ {0} /\ req[r].key \in Keys
    BY <1>1 DEF Request
  <2>2. [seq |-> n, key |-> req[r].key, current |-> TRUE] \in Event
    BY <2>1 DEF Event
  <2>3. QED BY <2>2 DEF Written, TypeInv, TypeOK
<1>3. \A e \in events' : e.seq <= seq'
  <2>1. \A e \in events : e.seq \in Nat /\ e.seq <= seq
    BY DEF TypeInv, TypeOK, Event
  <2>2. seq \in Nat
    BY DEF TypeInv, TypeOK
  <2>3. \A e \in events : e.seq <= seq'
    BY <2>1, <2>2
  <2>4. QED BY <2>3 DEF Written
<1>4. PICK new \in Request :
        /\ req' = [req EXCEPT ![r] = new]
        /\ new.phase \in {"idle", "insert"}
  <2>1. CASE Reply(r)
    BY <2>1, IdleRequest DEF Reply
  <2>2. CASE req' = [req EXCEPT ![r].phase = "insert", ![r].seq = 0]
    <3> DEFINE new == [req[r] EXCEPT !.phase = "insert", !.seq = 0]
    <3>1. new \in Request /\ new.phase = "insert"
      BY <1>1 DEF Request
    <3>2. req' = [req EXCEPT ![r] = new]
      BY <2>2, <1>1 DEF TypeInv, TypeOK, Request
    <3>3. QED BY <3>1, <3>2
  <2>3. QED BY <2>1, <2>2 DEF Written
<1>5. QED BY <1>2, <1>3, <1>4, RequestStepType

LEMMA TypeInit == Init => TypeInv
<1> SUFFICES ASSUME Init PROVE TypeInv
  OBVIOUS
<1>1. \A r \in Requests : req[r] = noRequest
  BY DEF Init
<1>2. req \in [Requests -> Request]
  BY IdleRequest DEF Init
<1>3. TypeOK
  BY <1>2, FeedAssumption DEF Init, TypeOK, NoPass
<1>4. Allocated /\ WaysOfBackends
  BY <1>1, IdleRequest DEF Init, Allocated, WaysOfBackends
<1>5. QED BY <1>3, <1>4 DEF TypeInv

LEMMA GotoStep ==
  ASSUME TypeInv, NEW r \in Requests, NEW phase, Goto(r, phase),
         phase \in {"idle", "update", "reread", "insert", "delete", "announce", "commit"}
  PROVE  \E new \in Request :
           /\ req' = [req EXCEPT ![r] = new]
           /\ new.phase = phase /\ new.key = req[r].key /\ new.seq = req[r].seq
<1> DEFINE new == [req[r] EXCEPT !.phase = phase]
<1>1. req[r] \in Request
  BY DEF TypeInv, TypeOK
<1>2. new \in Request /\ new.phase = phase /\ new.key = req[r].key /\ new.seq = req[r].seq
  BY <1>1 DEF Request
<1>3. req' = [req EXCEPT ![r] = new]
  BY DEF Goto
<1>4. QED BY <1>2, <1>3

(* What a pass keeps: the last number of each record, which some event has.*)
LEMMA KeptIsLast ==
  ASSUME TypeOK, NEW k \in Keys, sequencesOf(k) # {}
  PROVE  /\ Max(sequencesOf(k)) \in sequencesOf(k)
         /\ \A n \in sequencesOf(k) : n <= Max(sequencesOf(k))
         /\ Max(sequencesOf(k)) \in keepSequences
<1>1. sequencesOf(k) \subseteq 0 .. seq
  BY DEF sequencesOf, TypeOK, Event
<1>2. seq \in Nat
  BY DEF TypeOK
<1>3. QED BY <1>1, <1>2, MaxIsGreatest DEF keepSequences

LEMMA KeptIsDrawn ==
  ASSUME TypeOK
  PROVE  keepSequences \subseteq Nat \ {0}
<1>1. SUFFICES ASSUME NEW k \in Keys, sequencesOf(k) # {}
               PROVE  Max(sequencesOf(k)) \in Nat \ {0}
  BY DEF keepSequences
<1>2. Max(sequencesOf(k)) \in sequencesOf(k)
  BY <1>1, KeptIsLast
<1>3. QED BY <1>2 DEF sequencesOf, TypeOK, Event

(* The next event of the consumer is the first one behind its cursor.      *)
LEMMA NextEvent ==
  ASSUME TypeOK, unread # {},
         NEW next, next = CHOOSE e \in unread : \A o \in unread : e.seq <= o.seq
  PROVE  next \in unread /\ \A o \in unread : next.seq <= o.seq
<1> DEFINE S == {e.seq : e \in unread}
<1>1. S \in SUBSET Nat /\ S # {}
  <2>1. \A e \in unread : e.seq \in Nat
    BY DEF unread, TypeOK, Event
  <2>2. QED BY <2>1
<1>2. PICK n \in S : \A m \in S : n <= m
  BY <1>1, LeastExists
<1>3. PICK e \in unread : e.seq = n
  OBVIOUS
<1>4. \A o \in unread : e.seq <= o.seq
  BY <1>2, <1>3
<1>5. QED BY <1>3, <1>4

LEMMA ServeKeepsTypeInv ==
  ASSUME TypeInv, NEW r \in Requests, Serve(r)
  PROVE  TypeInv'
<1> USE DEF TypeInv, TypeOK
<1>0. UNCHANGED seq => seq' \in Nat /\ seq <= seq'
  OBVIOUS
<1>1. req[r] \in Request
  OBVIOUS
<1>2. req[r].key \in Keys
  BY <1>1 DEF Request
<1>3. CASE Update(r)
  <2> DEFINE k == req[r].key
  <2>1. /\ Changed(k) \/ Unchanged
        /\ (Goto(r, "reread") /\ backend = "mongodb") \/ Goto(r, "announce") \/ Goto(r, "insert")
    BY <1>3 DEF Update
  <2>2. PICK new \in Request :
          /\ req' = [req EXCEPT ![r] = new]
          /\ new.phase \in {"reread", "announce", "insert"}
          /\ new.phase = "reread" => backend = "mongodb"
    BY <2>1, GotoStep
  <2>3. UNCHANGED <<backend, writes, records, seq, pass, cursor, faults>>
    BY <1>3 DEF Update
  <2>4. events' \subseteq Event /\ (\A e \in events' : e.seq <= seq) /\ stale' \subseteq Keys /\ lost' \subseteq Keys
    BY <1>2, <2>1, RecordStepType
  <2>5. /\ req' \in [Requests -> Request]
        /\ Allocated'
        /\ \A x \in Requests : /\ req'[x].phase = "reread" => backend' = "mongodb"
                               /\ req'[x].phase = "commit" => backend' # "sqlite"
    BY <1>0, <2>2, <2>3, RequestStepType
  <2>6. QED BY <2>3, <2>4, <2>5 DEF WaysOfBackends
<1>4. CASE Reread(r)
  <2> DEFINE new == [req[r] EXCEPT !.phase = "announce",
                                   !.then = IF req[r].key \in records THEN "reply" ELSE "insert"]
  <2>1. new \in Request /\ new.phase = "announce"
    BY <1>1 DEF Request
  <2>2. req' = [req EXCEPT ![r] = new]
    BY <1>1, <1>4 DEF Reread, Request
  <2>3. UNCHANGED <<backend, writes, records, seq, events, pass, cursor, stale, lost, faults>>
    BY <1>4 DEF Reread, Unchanged
  <2>4. /\ req' \in [Requests -> Request]
        /\ Allocated'
        /\ \A x \in Requests : /\ req'[x].phase = "reread" => backend' = "mongodb"
                               /\ req'[x].phase = "commit" => backend' # "sqlite"
    BY <1>0, <2>1, <2>2, <2>3, RequestStepType
  <2>5. QED BY <2>3, <2>4 DEF WaysOfBackends
<1>5. CASE Insert(r)
  <2> DEFINE k == req[r].key
             new == [req[r] EXCEPT !.phase = "announce", !.then = "reply"]
  <2>1. Changed(k) \/ Unchanged
    BY <1>5 DEF Insert
  <2>2. /\ records' \subseteq Keys
        /\ UNCHANGED <<backend, writes, seq, pass, cursor, faults>>
    BY <1>2, <1>5 DEF Insert
  <2>3. PICK next \in Request : req' = [req EXCEPT ![r] = next] /\ next.phase \in {"idle", "announce"}
    <3>1. new \in Request /\ new.phase = "announce"
      BY <1>1 DEF Request
    <3>2. CASE Reply(r)
      BY <3>2, IdleRequest DEF Reply
    <3>3. CASE req' = [req EXCEPT ![r].phase = "announce", ![r].then = "reply"]
      <4>1. req' = [req EXCEPT ![r] = new]
        BY <3>3, <1>1 DEF Request
      <4>2. QED BY <3>1, <4>1
    <3>4. QED BY <1>5, <3>2, <3>3 DEF Insert
  <2>4. events' \subseteq Event /\ (\A e \in events' : e.seq <= seq) /\ stale' \subseteq Keys /\ lost' \subseteq Keys
    BY <1>2, <2>1, RecordStepType
  <2>5. /\ req' \in [Requests -> Request]
        /\ Allocated'
        /\ \A x \in Requests : /\ req'[x].phase = "reread" => backend' = "mongodb"
                               /\ req'[x].phase = "commit" => backend' # "sqlite"
    BY <1>0, <2>2, <2>3, RequestStepType
  <2>6. QED BY <2>2, <2>4, <2>5 DEF WaysOfBackends
<1>6. CASE Delete(r)
  <2> DEFINE k == req[r].key
  <2>1. Changed(k) \/ Unchanged
    BY <1>6 DEF Delete
  <2>2. /\ records' \subseteq Keys
        /\ UNCHANGED <<backend, writes, seq, pass, cursor, faults>>
    BY <1>6 DEF Delete
  <2>3. PICK next \in Request : req' = [req EXCEPT ![r] = next] /\ next.phase \in {"idle", "announce"}
    <3>1. CASE Reply(r)
      BY <3>1, IdleRequest DEF Reply
    <3>2. CASE Goto(r, "announce")
      BY <3>2, GotoStep
    <3>3. QED BY <1>6, <3>1, <3>2 DEF Delete
  <2>4. events' \subseteq Event /\ (\A e \in events' : e.seq <= seq) /\ stale' \subseteq Keys /\ lost' \subseteq Keys
    BY <1>2, <2>1, RecordStepType
  <2>5. /\ req' \in [Requests -> Request]
        /\ Allocated'
        /\ \A x \in Requests : /\ req'[x].phase = "reread" => backend' = "mongodb"
                               /\ req'[x].phase = "commit" => backend' # "sqlite"
    BY <1>0, <2>2, <2>3, RequestStepType
  <2>6. QED BY <2>2, <2>4, <2>5 DEF WaysOfBackends
<1>7. CASE Announce(r)
  <2>1. /\ seq' = seq + 1 /\ seq' \in Nat /\ seq + 1 \in 1 .. seq' /\ seq <= seq'
        /\ UNCHANGED <<backend, writes, records, pass, cursor, stale, lost, faults>>
    BY <1>7 DEF Announce
  <2>2. CASE backend = "sqlite"
    <3>1. Written(r, seq + 1)
      BY <1>7, <2>2 DEF Announce
    <3>2. /\ events' \subseteq Event /\ \A e \in events' : e.seq <= seq'
          /\ req' \in [Requests -> Request]
          /\ Allocated'
          /\ \A x \in Requests : /\ req'[x].phase = "reread" => backend' = "mongodb"
                                 /\ req'[x].phase = "commit" => backend' # "sqlite"
      BY <2>1, <3>1, WrittenType
    <3>3. QED BY <2>1, <3>2 DEF WaysOfBackends
  <2>3. CASE backend # "sqlite"
    <3> DEFINE new == [req[r] EXCEPT !.phase = "commit", !.seq = seq + 1]
    <3>1. new \in Request /\ new.phase = "commit" /\ new.seq = seq + 1
      BY <1>1, <2>1 DEF Request
    <3>2. req' = [req EXCEPT ![r] = new] /\ UNCHANGED events
      BY <1>1, <1>7, <2>3 DEF Announce, Request
    <3>3. /\ req' \in [Requests -> Request]
          /\ Allocated'
          /\ \A x \in Requests : /\ req'[x].phase = "reread" => backend' = "mongodb"
                                 /\ req'[x].phase = "commit" => backend' # "sqlite"
      BY <2>1, <2>3, <3>1, <3>2, RequestStepType
    <3>4. \A e \in events' : e.seq <= seq'
      <4>1. \A e \in events : e.seq \in Nat
        BY DEF Event
      <4>2. QED BY <2>1, <3>2, <4>1
    <3>5. QED BY <2>1, <3>2, <3>3, <3>4 DEF WaysOfBackends
  <2>4. QED BY <2>2, <2>3
<1>8. CASE Commit(r)
  <2>1. /\ req[r].phase = "commit" /\ Written(r, req[r].seq)
        /\ UNCHANGED <<backend, writes, records, seq, pass, cursor, stale, lost, faults>>
    BY <1>8 DEF Commit
  <2>2. req[r].seq \in 1 .. seq'
    BY <2>1 DEF Allocated
  <2>3. /\ events' \subseteq Event /\ \A e \in events' : e.seq <= seq'
        /\ req' \in [Requests -> Request]
        /\ Allocated'
        /\ \A x \in Requests : /\ req'[x].phase = "reread" => backend' = "mongodb"
                               /\ req'[x].phase = "commit" => backend' # "sqlite"
    BY <2>1, <2>2, WrittenType
  <2>4. QED BY <2>1, <2>3 DEF WaysOfBackends
<1>9. QED BY <1>3, <1>4, <1>5, <1>6, <1>7, <1>8 DEF Serve

LEMMA OthersKeepTypeInv ==
  ASSUME TypeInv,
         \/ \E r \in Requests, method \in DOMAIN entry, k \in Keys : Receive(r, method, k)
         \/ \E r \in Requests : CallFails(r)
         \/ CompactSql \/ Poll \/ Crash \/ Reset
         \/ \E p \in Passes : Aggregate(p) \/ DeleteMany(p) \/ PassFails(p)
  PROVE  TypeInv'
<1> USE DEF TypeInv, TypeOK
<1>0. UNCHANGED seq => seq' \in Nat /\ seq <= seq'
  OBVIOUS
<1>1. ASSUME NEW r \in Requests, NEW method \in DOMAIN entry, NEW k \in Keys, Receive(r, method, k)
      PROVE  TypeInv'
  <2> DEFINE new == [noRequest EXCEPT !.phase = entry[method], !.key = k]
  <2>1. entry[method] \in {"insert", "update", "delete"}
    BY DEF entry
  <2>2. new \in Request /\ new.phase \in {"insert", "update", "delete"}
    BY <2>1, IdleRequest DEF Request
  <2>3. req' = [req EXCEPT ![r] = new] /\ writes' \in 0 .. MaxWrites
    <3>1. req' = [req EXCEPT ![r] = new]
      BY <1>1 DEF Receive
    <3>2. writes' = writes + 1 /\ writes < MaxWrites
      BY <1>1 DEF Receive
    <3>3. writes \in 0 .. MaxWrites /\ MaxWrites \in Nat
      BY FeedAssumption
    <3>4. QED BY <3>1, <3>2, <3>3
  <2>4. UNCHANGED <<backend, records, seq, events, pass, cursor, stale, lost, faults>>
    BY <1>1 DEF Receive
  <2>5. /\ req' \in [Requests -> Request]
        /\ Allocated'
        /\ \A x \in Requests : /\ req'[x].phase = "reread" => backend' = "mongodb"
                               /\ req'[x].phase = "commit" => backend' # "sqlite"
    BY <1>0, <2>2, <2>3, <2>4, RequestStepType
  <2>6. QED BY <2>3, <2>4, <2>5 DEF WaysOfBackends
<1>2. ASSUME NEW r \in Requests, CallFails(r)
      PROVE  TypeInv'
  <2>1. req' = [req EXCEPT ![r] = noRequest]
    BY <1>2 DEF CallFails, Reply
  <2>2. /\ UNCHANGED <<backend, writes, records, seq, events, pass, cursor, stale>>
        /\ faults' \in Nat
    BY <1>2 DEF CallFails
  <2>3. lost' \subseteq Keys
    BY <1>2 DEF CallFails, Request
  <2>4. /\ req' \in [Requests -> Request]
        /\ Allocated'
        /\ \A x \in Requests : /\ req'[x].phase = "reread" => backend' = "mongodb"
                               /\ req'[x].phase = "commit" => backend' # "sqlite"
    BY <1>0, <2>1, <2>2, IdleRequest, RequestStepType
  <2>5. QED BY <2>2, <2>3, <2>4 DEF WaysOfBackends
<1>3. CASE CompactSql
  <2>1. events' \subseteq events
        /\ UNCHANGED <<backend, writes, records, seq, req, pass, cursor, stale, lost, faults>>
    BY <1>3 DEF CompactSql, deleteOthers
  <2>2. QED BY <2>1 DEF Allocated, WaysOfBackends
<1>4. CASE Poll
  <2> DEFINE next == CHOOSE e \in unread : \A o \in unread : e.seq <= o.seq
  <2>1. next \in unread
    BY <1>4, NextEvent DEF Poll
  <2>2. next.seq \in 0 .. seq
    BY <2>1 DEF unread, Event
  <2>3. /\ cursor' = next.seq /\ stale' \subseteq stale
        /\ UNCHANGED <<backend, writes, records, seq, events, req, pass, lost, faults>>
    BY <1>4 DEF Poll
  <2>4. QED BY <2>2, <2>3 DEF Allocated, WaysOfBackends
<1>5. CASE Crash
  <2>1. req' = [r \in Requests |-> noRequest] /\ pass' = [p \in Passes |-> NoPass] /\ faults' \in Nat
        /\ UNCHANGED <<backend, writes, records, seq, events, cursor, stale>>
    BY <1>5 DEF Crash
  <2>2. lost' \subseteq Keys
    BY <1>5 DEF Crash, Request
  <2>3. TypeOK'
    BY <2>1, <2>2, IdleRequest DEF NoPass
  <2>4. \A r \in Requests : req'[r].phase = "idle"
    BY <2>1, IdleRequest
  <2>5. QED BY <2>1, <2>3, <2>4 DEF Allocated, WaysOfBackends
<1>6. CASE Reset
  <2>1. SameRowsBut(records)
    BY <1>6, MarkedRows DEF Reset
  <2>2. /\ records' = {} /\ faults' \in Nat /\ stale' \subseteq Keys /\ lost' \subseteq Keys
        /\ UNCHANGED <<backend, writes, seq, req, pass, cursor>>
    BY <1>6 DEF Reset
  <2>3. events' \subseteq Event /\ \A e \in events' : e.seq <= seq'
    BY <2>1, <2>2 DEF SameRowsBut
  <2>4. QED BY <2>2, <2>3 DEF Allocated, WaysOfBackends
<1>7. ASSUME NEW p \in Passes, Aggregate(p)
      PROVE  TypeInv'
  <2>1. keepSequences \in SUBSET (Nat \ {0})
    BY KeptIsDrawn
  <2>2. pass' = [pass EXCEPT ![p] = keepSequences] /\ backend = "mongodb"
        /\ UNCHANGED <<backend, writes, records, seq, events, req, cursor, stale, lost, faults>>
    BY <1>7 DEF Aggregate
  <2>3. QED BY <2>1, <2>2 DEF Allocated, WaysOfBackends
<1>8. ASSUME NEW p \in Passes, DeleteMany(p) \/ PassFails(p)
      PROVE  TypeInv'
  <2>1. /\ events' \subseteq events /\ pass' = [pass EXCEPT ![p] = NoPass] /\ faults' \in Nat
        /\ UNCHANGED <<backend, writes, records, seq, req, cursor, stale, lost>>
    BY <1>8 DEF DeleteMany, deleteOthers, PassFails
  <2>2. NoPass \in SUBSET (Nat \ {0})
    BY DEF NoPass
  <2>3. QED BY <2>1, <2>2 DEF Allocated, WaysOfBackends
<1>9. QED BY <1>1, <1>2, <1>3, <1>4, <1>5, <1>6, <1>7, <1>8

LEMMA TypeInvStep == TypeInv /\ [Next]_vars => TypeInv'
<1>1. TypeInv /\ Next => TypeInv'
  BY ServeKeepsTypeInv, OthersKeepTypeInv DEF Next
<1>2. TypeInv /\ UNCHANGED vars => TypeInv'
  BY DEF vars, TypeInv, TypeOK, Allocated, WaysOfBackends
<1>3. QED BY <1>1, <1>2

LEMMA TypeInvariant == Spec => []TypeInv
  BY TypeInit, TypeInvStep, PTL DEF Spec

(* The feed keeps its types, and no event has a number that was not drawn. *)
THEOREM FeedTypeCorrect == Spec => []TypeOK
<1>1. TypeInv => TypeOK
  BY DEF TypeInv
<1>2. QED BY <1>1, TypeInvariant, PTL

-----------------------------------------------------------------------------
(***************************************************************************)
(* Announcing.  A change that is not lost has a current event that is the  *)
(* last of its record, so compaction keeps it, or a request whose event    *)
(* will come after every event that is no longer current.                  *)
(***************************************************************************)
lastWord(k) ==
  \E e \in events : /\ e.key = k /\ e.current
                    /\ \A f \in events : f.key = k => f.seq <= e.seq

owedAbove(k) ==
  \E r \in Requests :
    /\ owes(r) /\ req[r].key = k
    /\ req[r].phase = "commit" =>
         \A f \in events : f.key = k /\ ~f.current => f.seq < req[r].seq

AnnouncedInv ==
  backend \in SqlBackends =>
    \A k \in Keys : k \in stale /\ k \notin lost => lastWord(k) \/ owedAbove(k)

LEMMA AnnouncedInvImplies == AnnouncedInv => EveryChangeIsAnnounced
  BY DEF AnnouncedInv, EveryChangeIsAnnounced, everyChangeIsAnnounced, lastWord, owedAbove, announced, owed

(* What an event or a request says of a record stands while the rows of    *)
(* the record and the request stay as they are.                            *)
LEMMA WordStands ==
  ASSUME NEW k \in Keys, lastWord(k) \/ owedAbove(k),
         \A e \in events : e.key = k => e \in events',
         \A f \in events' : f.key = k => f \in events,
         \A r \in Requests : owes(r) /\ req[r].key = k => req'[r] = req[r]
  PROVE  lastWord(k)' \/ owedAbove(k)'
<1>1. CASE lastWord(k)
  BY <1>1 DEF lastWord
<1>2. CASE owedAbove(k)
  BY <1>2 DEF owedAbove, owes
<1>3. QED BY <1>1, <1>2

(* Compaction removes no last word.                                        *)
LEMMA LastWordIsKept ==
  ASSUME TypeOK, NEW k \in Keys, lastWord(k), deleteOthers(keepSequences)
  PROVE  lastWord(k)'
<1>1. PICK e \in events : e.key = k /\ e.current /\ \A f \in events : f.key = k => f.seq <= e.seq
  BY DEF lastWord
<1>2. e.seq \in sequencesOf(k)
  BY <1>1 DEF sequencesOf
<1>3. /\ Max(sequencesOf(k)) \in sequencesOf(k)
      /\ e.seq <= Max(sequencesOf(k))
      /\ Max(sequencesOf(k)) \in keepSequences
  BY <1>2, KeptIsLast
<1>4. Max(sequencesOf(k)) <= e.seq
  BY <1>1, <1>3 DEF sequencesOf
<1>5. e.seq \in Nat /\ Max(sequencesOf(k)) \in Nat
  BY <1>3 DEF sequencesOf, TypeOK, Event
<1>6. e \in events' /\ events' \subseteq events
  BY <1>3, <1>4, <1>5 DEF deleteOthers
<1>7. QED BY <1>1, <1>6 DEF lastWord

(* An event that comes after all that are no longer current is, with the   *)
(* current ones, the last word of its record.                              *)
LEMMA WrittenIsLastWord ==
  ASSUME TypeOK, seq' \in Nat, seq <= seq', NEW k \in Keys, NEW n \in 1 .. seq',
         events' = events \cup {[seq |-> n, key |-> k, current |-> TRUE]},
         \A f \in events : f.key = k /\ ~f.current => f.seq < n
  PROVE  lastWord(k)'
<1> DEFINE row == [seq |-> n, key |-> k, current |-> TRUE]
           S == {f.seq : f \in {x \in events' : x.key = k}}
<1>1. \A f \in events : f.seq \in Nat /\ f.seq <= seq'
  BY DEF TypeOK, Event
<1>2. S \subseteq 0 .. seq'
  <2>1. \A f \in events' : f.seq \in 0 .. seq'
    BY <1>1
  <2>2. QED BY <2>1
<1>3. n \in S /\ row \in events'
  <2>1. row \in events' /\ row.key = k /\ row.seq = n
    OBVIOUS
  <2>2. QED BY <2>1
<1> HIDE DEF S
<1>4. PICK m \in S : \A x \in S : x <= m
  BY <1>2, <1>3, GreatestExists
<1>5. PICK e \in events' : e.key = k /\ e.seq = m
  BY DEF S
<1>6. \A f \in events' : f.key = k => f.seq <= e.seq
  BY <1>4, <1>5 DEF S
<1>7. e.current
  <2>1. CASE e = row
    BY <2>1
  <2>2. CASE e \in events
    <3>1. n <= e.seq
      BY <1>3, <1>4, <1>5
    <3>2. e.seq \in Nat
      BY <1>1, <2>2
    <3>3. ~(e.seq < n)
      BY <3>1, <3>2
    <3>4. QED BY <1>5, <2>2, <3>3
  <2>3. QED BY <2>1, <2>2
<1>8. QED BY <1>5, <1>6, <1>7 DEF lastWord

LEMMA ServeKeepsAnnounced ==
  ASSUME TypeInv, AnnouncedInv, NEW r \in Requests, Serve(r)
  PROVE  AnnouncedInv'
<1>0. UNCHANGED backend
  BY DEF Serve, Update, Reread, Insert, Delete, Announce, Commit
<1>1. SUFFICES ASSUME backend \in SqlBackends, NEW k \in Keys, k \in stale', k \notin lost'
               PROVE  lastWord(k)' \/ owedAbove(k)'
  BY <1>0 DEF AnnouncedInv
<1>2. /\ req[r] \in Request /\ req[r].key \in Keys /\ events \subseteq Event
      /\ \A e \in events : e.seq \in Nat /\ e.seq <= seq
      /\ req \in [Requests -> Request] /\ seq \in Nat
  BY DEF TypeInv, TypeOK, Request, Event
<1>3. backend # "mongodb" /\ req[r].phase # "reread"
  BY <1>1 DEF SqlBackends, TypeInv, WaysOfBackends
<1>4. ASSUME Changed(req[r].key), Goto(r, "announce") \/ req' = [req EXCEPT ![r].phase = "announce", ![r].then = "reply"],
             ~owes(r)
      PROVE  lastWord(k)' \/ owedAbove(k)'
  <2>1. /\ req'[r].phase = "announce" /\ req'[r].key = req[r].key
        /\ \A x \in Requests : x # r => req'[x] = req[x]
    BY <1>2, <1>4 DEF Goto, Request
  <2>2. CASE k = req[r].key
    BY <2>1, <2>2 DEF owedAbove, owes
  <2>3. CASE k # req[r].key
    <3>1. SameRowsBut({req[r].key})
      BY <1>2, <1>4, ChangedRows
    <3>2. k \in stale /\ k \notin lost
      BY <1>1, <1>4, <2>3 DEF Changed
    <3>3. lastWord(k) \/ owedAbove(k)
      BY <1>1, <3>2 DEF AnnouncedInv
    <3>4. QED BY <1>4, <2>1, <2>3, <3>1, <3>3, WordStands DEF SameRowsBut
  <2>4. QED BY <2>2, <2>3
<1>5. ASSUME Unchanged, ~owes(r), \A x \in Requests : x # r => req'[x] = req[x]
      PROVE  lastWord(k)' \/ owedAbove(k)'
  <2>1. lastWord(k) \/ owedAbove(k)
    BY <1>1, <1>5 DEF Unchanged, AnnouncedInv
  <2>2. QED BY <1>5, <2>1, WordStands DEF Unchanged
<1>6. CASE Update(r)
  <2>1. ~owes(r)
    BY <1>6 DEF Update, owes
  <2>2. CASE req[r].key \in records
    BY <1>3, <1>4, <1>6, <2>1, <2>2 DEF Update
  <2>3. CASE req[r].key \notin records
    <3>1. Unchanged /\ \A x \in Requests : x # r => req'[x] = req[x]
      BY <1>2, <1>6, <2>3 DEF Update, Goto
    <3>2. QED BY <1>5, <2>1, <3>1
  <2>4. QED BY <2>2, <2>3
<1>7. CASE Insert(r)
  <2>1. ~owes(r)
    BY <1>7 DEF Insert, owes
  <2>2. CASE req[r].key \notin records
    BY <1>4, <1>7, <2>1, <2>2 DEF Insert
  <2>3. CASE req[r].key \in records
    <3>1. Unchanged /\ \A x \in Requests : x # r => req'[x] = req[x]
      BY <1>2, <1>7, <2>3 DEF Insert, Reply
    <3>2. QED BY <1>5, <2>1, <3>1
  <2>4. QED BY <2>2, <2>3
<1>8. CASE Delete(r)
  <2>1. ~owes(r)
    BY <1>8 DEF Delete, owes
  <2>2. CASE req[r].key \in records
    BY <1>4, <1>8, <2>1, <2>2 DEF Delete
  <2>3. CASE req[r].key \notin records
    <3>1. Unchanged /\ \A x \in Requests : x # r => req'[x] = req[x]
      BY <1>2, <1>8, <2>3 DEF Delete, Reply
    <3>2. QED BY <1>5, <2>1, <3>1
  <2>4. QED BY <2>2, <2>3
<1>9. ASSUME NEW n \in 1 .. seq', Written(r, n), seq' \in Nat, seq <= seq', UNCHANGED <<stale, lost>>,
             req[r].key = k /\ ~lastWord(k) =>
               (\A f \in events : f.key = k /\ ~f.current => f.seq < n) \/
               \E x \in Requests \ {r} : /\ owes(x) /\ req[x].key = k
                                         /\ req[x].phase = "commit" =>
                                              \A f \in events : f.key = k /\ ~f.current => f.seq < req[x].seq
      PROVE  lastWord(k)' \/ owedAbove(k)'
  <2> DEFINE row == [seq |-> n, key |-> req[r].key, current |-> TRUE]
  <2>1. /\ events' = events \cup {row}
        /\ \A x \in Requests : x # r => req'[x] = req[x]
    BY <1>2, <1>9 DEF Written, Reply
  <2>2. k \in stale /\ k \notin lost
    BY <1>1, <1>9
  <2>3. lastWord(k) \/ owedAbove(k)
    BY <1>1, <2>2 DEF AnnouncedInv
  <2>4. CASE req[r].key # k
    <3>1. \A f \in events' : f.key = k => f \in events
      BY <2>1, <2>4
    <3>2. QED BY <2>1, <2>3, <2>4, <3>1, WordStands
  <2>5. CASE req[r].key = k /\ \A f \in events : f.key = k /\ ~f.current => f.seq < n
    BY <1>9, <2>1, <2>5, WrittenIsLastWord DEF TypeInv
  <2>6. CASE req[r].key = k /\ lastWord(k)
    <3>1. PICK e \in events : e.key = k /\ e.current /\ \A f \in events : f.key = k => f.seq <= e.seq
      BY <2>6 DEF lastWord
    <3>2. e.seq \in Nat /\ n \in Nat
      BY <1>2, <1>9
    <3>3. CASE n <= e.seq
      <4>1. \A f \in events' : f.key = k => f.seq <= e.seq
        BY <2>1, <3>1, <3>3
      <4>2. QED BY <2>1, <3>1, <4>1 DEF lastWord
    <3>4. CASE e.seq < n
      <4>1. row \in events' /\ row.key = k /\ row.current /\ row.seq = n
        BY <2>1, <2>6
      <4>2. ASSUME NEW f \in events', f.key = k PROVE f.seq <= n
        <5>1. CASE f \in events
          BY <1>2, <3>1, <3>2, <3>4, <4>2, <5>1
        <5>2. CASE f = row
          BY <3>2, <5>2
        <5>3. QED BY <2>1, <5>1, <5>2
      <4>3. QED BY <4>1, <4>2 DEF lastWord
    <3>5. QED BY <3>2, <3>3, <3>4
  <2>7. ASSUME req[r].key = k, NEW x \in Requests \ {r}, owes(x), req[x].key = k,
               req[x].phase = "commit" =>
                 \A f \in events : f.key = k /\ ~f.current => f.seq < req[x].seq
        PROVE  owedAbove(k)'
    <3>1. req'[x] = req[x]
      BY <2>1
    <3>2. \A f \in events' : ~f.current => f \in events
      BY <2>1
    <3>3. QED BY <2>7, <3>1, <3>2 DEF owedAbove, owes
  <2>8. QED BY <1>9, <2>4, <2>5, <2>6, <2>7
<1>10. CASE Announce(r)
  <2>1. seq' = seq + 1 /\ seq' \in Nat /\ seq + 1 \in 1 .. seq' /\ seq <= seq' /\ UNCHANGED <<stale, lost>>
    BY <1>2, <1>10 DEF Announce
  <2>2. \A f \in events : f.seq < seq + 1
    BY <1>2
  <2>3. CASE backend = "sqlite"
    <3>1. Written(r, seq + 1)
      BY <1>10, <2>3 DEF Announce
    <3>2. QED BY <1>9, <2>1, <2>2, <3>1
  <2>4. CASE backend # "sqlite"
    <3>1. req' = [req EXCEPT ![r].phase = "commit", ![r].seq = seq + 1] /\ UNCHANGED events
      BY <1>10, <2>4 DEF Announce
    <3>2. /\ req'[r].phase = "commit" /\ req'[r].seq = seq + 1 /\ req'[r].key = req[r].key
          /\ \A x \in Requests : x # r => req'[x] = req[x]
      BY <1>2, <3>1 DEF Request
    <3>3. CASE req[r].key = k
      BY <2>2, <3>1, <3>2, <3>3 DEF owedAbove, owes
    <3>4. CASE req[r].key # k
      <4>1. lastWord(k) \/ owedAbove(k)
        BY <1>1, <2>1 DEF AnnouncedInv
      <4>2. QED BY <3>1, <3>2, <3>4, <4>1, WordStands
    <3>5. QED BY <3>3, <3>4
  <2>5. QED BY <2>3, <2>4
<1>11. CASE Commit(r)
  <2>1. req[r].phase = "commit" /\ Written(r, req[r].seq) /\ UNCHANGED <<seq, stale, lost>>
    BY <1>11 DEF Commit
  <2>2. req[r].seq \in 1 .. seq' /\ seq' \in Nat /\ seq <= seq'
    BY <1>2, <2>1 DEF TypeInv, Allocated
  <2>3. lastWord(k) \/ owedAbove(k)
    BY <1>1, <2>1 DEF AnnouncedInv
  <2>4. ~lastWord(k) =>
          (\A f \in events : f.key = k /\ ~f.current => f.seq < req[r].seq) \/
          \E x \in Requests \ {r} : /\ owes(x) /\ req[x].key = k
                                    /\ req[x].phase = "commit" =>
                                         \A f \in events : f.key = k /\ ~f.current => f.seq < req[x].seq
    BY <2>1, <2>3 DEF owedAbove
  <2>5. QED BY <1>9, <2>1, <2>2, <2>4
<1>12. QED BY <1>3, <1>6, <1>7, <1>8, <1>10, <1>11 DEF Serve, Reread

LEMMA OthersKeepAnnounced ==
  ASSUME TypeInv, AnnouncedInv,
         \/ \E r \in Requests, method \in DOMAIN entry, k \in Keys : Receive(r, method, k)
         \/ \E r \in Requests : CallFails(r)
         \/ CompactSql \/ Poll \/ Crash \/ Reset
         \/ \E p \in Passes : Aggregate(p) \/ DeleteMany(p) \/ PassFails(p)
  PROVE  AnnouncedInv'
<1>0. UNCHANGED backend
  BY DEF Receive, CallFails, CompactSql, Poll, Crash, Reset, Aggregate, DeleteMany, PassFails
<1>1. SUFFICES ASSUME backend \in SqlBackends, NEW k \in Keys, k \in stale', k \notin lost'
               PROVE  lastWord(k)' \/ owedAbove(k)'
  BY <1>0 DEF AnnouncedInv
<1>2. events \subseteq Event /\ req \in [Requests -> Request] /\ TypeOK
  BY DEF TypeInv, TypeOK
<1>3. k \in stale /\ k \notin lost => lastWord(k) \/ owedAbove(k)
  BY <1>1 DEF AnnouncedInv
<1>4. ASSUME NEW r \in Requests, NEW method \in DOMAIN entry, NEW j \in Keys, Receive(r, method, j)
      PROVE  lastWord(k)' \/ owedAbove(k)'
  <2>1. /\ ~owes(r) /\ UNCHANGED <<events, stale, lost>>
        /\ \A x \in Requests : x # r => req'[x] = req[x]
    BY <1>2, <1>4 DEF Receive, owes
  <2>2. QED BY <1>1, <1>3, <2>1, WordStands
<1>5. ASSUME NEW r \in Requests, CallFails(r)
      PROVE  lastWord(k)' \/ owedAbove(k)'
  <2>1. /\ UNCHANGED <<events, stale>> /\ lost \subseteq lost'
        /\ owes(r) => req[r].key \in lost'
        /\ \A x \in Requests : x # r => req'[x] = req[x]
    BY <1>2, <1>5 DEF CallFails, Reply
  <2>2. QED BY <1>1, <1>3, <2>1, WordStands
<1>6. CASE CompactSql
  <2>1. /\ deleteOthers(keepSequences) /\ UNCHANGED <<req, stale, lost>>
        /\ events' \subseteq events
    BY <1>6 DEF CompactSql, deleteOthers
  <2>2. CASE lastWord(k)
    BY <1>2, <2>1, <2>2, LastWordIsKept
  <2>3. CASE owedAbove(k)
    BY <2>1, <2>3 DEF owedAbove, owes
  <2>4. QED BY <1>1, <1>3, <2>1, <2>2, <2>3
<1>7. CASE Poll
  <2>1. stale' \subseteq stale /\ UNCHANGED <<events, req, lost>>
    BY <1>7 DEF Poll
  <2>2. QED BY <1>1, <1>3, <2>1, WordStands
<1>8. CASE Crash
  <2>1. /\ UNCHANGED <<events, stale>> /\ lost \subseteq lost'
        /\ \A x \in Requests : owes(x) => req[x].key \in lost'
    BY <1>8 DEF Crash
  <2>2. QED BY <1>1, <1>3, <2>1, WordStands
<1>9. CASE Reset
  <2>1. SameRowsBut(records) /\ UNCHANGED req
    BY <1>2, <1>9, MarkedRows DEF Reset
  <2>2. k \in stale /\ k \notin lost /\ k \notin records
    BY <1>1, <1>9 DEF Reset
  <2>3. QED BY <1>3, <2>1, <2>2, WordStands DEF SameRowsBut
<1>10. ASSUME NEW p \in Passes, Aggregate(p) \/ DeleteMany(p) \/ PassFails(p)
       PROVE  FALSE
  BY <1>1, <1>10 DEF Aggregate, DeleteMany, PassFails, SqlBackends, TypeInv, WaysOfBackends
<1>11. QED BY <1>4, <1>5, <1>6, <1>7, <1>8, <1>9, <1>10

LEMMA AnnouncedStep == TypeInv /\ AnnouncedInv /\ [Next]_vars => AnnouncedInv'
<1>1. TypeInv /\ AnnouncedInv /\ Next => AnnouncedInv'
  BY ServeKeepsAnnounced, OthersKeepAnnounced DEF Next
<1>2. AnnouncedInv /\ UNCHANGED vars => AnnouncedInv'
  BY DEF vars, AnnouncedInv, lastWord, owedAbove, owes
<1>3. QED BY <1>1, <1>2

(* On the SQL backends every change that was not lost with its request is  *)
(* announced by an event that compaction keeps, or will be, for any number *)
(* of writers, crashes and compactions (entity-event-compaction.ts 6-8).   *)
THEOREM ChangesAreAnnounced == Spec => []EveryChangeIsAnnounced
<1>1. Init => AnnouncedInv
  BY DEF Init, AnnouncedInv
<1>2. Spec => []AnnouncedInv
  BY <1>1, AnnouncedStep, TypeInvariant, PTL DEF Spec
<1>3. QED BY <1>2, AnnouncedInvImplies, PTL

-----------------------------------------------------------------------------
(***************************************************************************)
(* The feed of the SQL backends never moves back.                          *)
(***************************************************************************)
LEMMA GreatestOrZero ==
  ASSUME NEW n \in Nat, NEW S \in SUBSET (0 .. n),
         NEW m, m = IF S = {} THEN 0 ELSE Max(S)
  PROVE  m \in Nat /\ (\A x \in S : x <= m) /\ (m # 0 => m \in S)
<1>1. CASE S = {}
  BY <1>1
<1>2. CASE S # {}
  <2>1. m \in S /\ \A x \in S : x <= m
    BY <1>2, MaxIsGreatest
  <2>2. QED BY <2>1
<1>3. QED BY <1>1, <1>2

LEMMA LatestStays ==
  ASSUME TypeOK, TypeOK', NEW k \in Keys,
         latest(k) \in sequencesOf(k) => latest(k) \in sequencesOf(k)'
  PROVE  latest(k)' >= latest(k)
<1>1. latest(k) \in Nat /\ (latest(k) # 0 => latest(k) \in sequencesOf(k))
  <2>1. seq \in Nat /\ sequencesOf(k) \in SUBSET (0 .. seq)
    BY DEF TypeOK, sequencesOf, Event
  <2>2. latest(k) = IF sequencesOf(k) = {} THEN 0 ELSE Max(sequencesOf(k))
    BY DEF latest
  <2>3. QED BY <2>1, <2>2, GreatestOrZero
<1>2. latest(k)' \in Nat /\ \A n \in sequencesOf(k)' : n <= latest(k)'
  <2>1. seq' \in Nat /\ sequencesOf(k)' \in SUBSET (0 .. seq')
    BY DEF TypeOK, sequencesOf, Event
  <2>2. latest(k)' = IF sequencesOf(k)' = {} THEN 0 ELSE Max(sequencesOf(k)')
    BY DEF latest
  <2>3. QED BY <2>1, <2>2, GreatestOrZero
<1>3. QED BY <1>1, <1>2

LEMMA RowsStay ==
  ASSUME NEW k \in Keys, \A e \in events : \E f \in events' : f.seq = e.seq /\ f.key = e.key
  PROVE  sequencesOf(k) \subseteq sequencesOf(k)'
  BY DEF sequencesOf

LEMMA FeedStep ==
  ASSUME TypeInv, TypeInv', [Next]_vars, NEW k \in Keys, backend \in SqlBackends
  PROVE  latest(k)' >= latest(k)
<1> SUFFICES latest(k) \in sequencesOf(k) => latest(k) \in sequencesOf(k)'
  BY LatestStays DEF TypeInv
<1>1. events \subseteq Event /\ backend # "mongodb" /\ req \in [Requests -> Request] /\ TypeOK
  BY DEF TypeInv, TypeOK, SqlBackends
<1>2. ASSUME \A e \in events : \E f \in events' : f.seq = e.seq /\ f.key = e.key
      PROVE  latest(k) \in sequencesOf(k) => latest(k) \in sequencesOf(k)'
  BY <1>2, RowsStay
<1>3. ASSUME NEW j \in Keys, Changed(j) \/ Unchanged
      PROVE  \A e \in events : \E f \in events' : f.seq = e.seq /\ f.key = e.key
  <2>1. CASE Changed(j)
    BY <1>1, <2>1, ChangedRows DEF SameRowsBut
  <2>2. CASE Unchanged
    BY <2>2 DEF Unchanged
  <2>3. QED BY <1>3, <2>1, <2>2
<1>4. ASSUME NEW r \in Requests, Serve(r)
      PROVE  \A e \in events : \E f \in events' : f.seq = e.seq /\ f.key = e.key
  <2>1. req[r].key \in Keys
    BY <1>1 DEF Request
  <2>2. CASE Update(r) \/ Insert(r) \/ Delete(r)
    <3>1. Changed(req[r].key) \/ Unchanged
      BY <2>2 DEF Update, Insert, Delete
    <3>2. QED BY <1>3, <2>1, <3>1
  <2>3. CASE Reread(r)
    BY <2>3 DEF Reread, Unchanged
  <2>4. CASE Announce(r) \/ Commit(r)
    BY <2>4 DEF Announce, Commit, Written
  <2>5. QED BY <1>4, <2>2, <2>3, <2>4 DEF Serve
<1>5. CASE CompactSql
  <2>1. deleteOthers(keepSequences)
    BY <1>5 DEF CompactSql
  <2>2. ASSUME sequencesOf(k) # {} PROVE latest(k) \in sequencesOf(k)'
    <3>1. latest(k) \in sequencesOf(k) /\ latest(k) \in keepSequences
      BY <1>1, <2>2, KeptIsLast DEF latest
    <3>2. QED BY <2>1, <3>1 DEF deleteOthers, sequencesOf
  <2>3. QED BY <2>2
<1>6. CASE Reset
  <2>1. SameRowsBut(records)
    BY <1>1, <1>6, MarkedRows DEF Reset
  <2>2. QED BY <1>2, <2>1 DEF SameRowsBut
<1>7. ASSUME \/ \E r \in Requests, method \in DOMAIN entry, j \in Keys : Receive(r, method, j)
             \/ \E r \in Requests : CallFails(r)
             \/ Poll \/ Crash \/ UNCHANGED vars
      PROVE  \A e \in events : \E f \in events' : f.seq = e.seq /\ f.key = e.key
  BY <1>7 DEF Receive, CallFails, Poll, Crash, vars
<1>8. ASSUME NEW p \in Passes, Aggregate(p) \/ DeleteMany(p) \/ PassFails(p)
      PROVE  FALSE
  BY <1>1, <1>8 DEF Aggregate, DeleteMany, PassFails, TypeInv, WaysOfBackends
<1>9. QED BY <1>2, <1>4, <1>5, <1>6, <1>7, <1>8 DEF Next

(* Whatever compaction removes, the latest event of a record stays until a *)
(* later one replaces it (COMPACTION_SQL, entity-event-compaction.ts).     *)
THEOREM FeedKeepsLatest == Spec => FeedNeverMovesBack
<1>1. TypeInv /\ TypeInv' /\ [Next]_vars =>
        [\A k \in Keys : backend \in SqlBackends => latest(k)' >= latest(k)]_vars
  BY FeedStep
<1>2. QED BY <1>1, TypeInvariant, PTL DEF Spec, FeedNeverMovesBack

-----------------------------------------------------------------------------
(* Reading on SQLite: numbers belong to one record each.                   *)
OneRecordEach ==
  backend = "sqlite" => \A e, f \in events : e.seq = f.seq => e.key = f.key

(* What a record's reader still gets to see stands while its rows keep     *)
(* their numbers, the cursor stays, and the requests that owe stay.        *)
ahead(k) == \E e \in unread : e.key = k

LEMMA AheadStands ==
  ASSUME NEW k \in Keys, owed(k) \/ ahead(k), UNCHANGED cursor,
         \A e \in events : e.key = k => \E f \in events' : f.seq = e.seq /\ f.key = e.key,
         \A r \in Requests : owes(r) /\ req[r].key = k => req'[r] = req[r]
  PROVE  owed(k)' \/ ahead(k)'
<1>1. CASE owed(k)
  BY <1>1 DEF owed, owes
<1>2. CASE ahead(k)
  <2>1. PICK e \in events : e.seq > cursor /\ e.key = k
    BY <1>2 DEF ahead, unread
  <2>2. PICK f \in events' : f.seq = e.seq /\ f.key = e.key
    BY <2>1
  <2>3. QED BY <2>1, <2>2 DEF ahead, unread
<1>3. QED BY <1>1, <1>2

LEMMA OneRecordStep == TypeInv /\ OneRecordEach /\ [Next]_vars => OneRecordEach'
<1> SUFFICES ASSUME TypeInv, OneRecordEach, [Next]_vars, backend' = "sqlite",
                    NEW e \in events', NEW f \in events', e.seq = f.seq
             PROVE  e.key = f.key
  BY DEF OneRecordEach
<1>0. UNCHANGED backend
  BY DEF Next, vars, Serve, Update, Reread, Insert, Delete, Announce, Commit, Receive,
         CallFails, CompactSql, Poll, Crash, Reset, Aggregate, DeleteMany, PassFails
<1>1. /\ events \subseteq Event /\ req \in [Requests -> Request] /\ seq \in Nat
      /\ \A x \in events : x.seq \in Nat /\ x.seq <= seq
      /\ \A x, y \in events : x.seq = y.seq => x.key = y.key
  BY <1>0 DEF TypeInv, TypeOK, OneRecordEach, Event
<1>2. ASSUME \A x \in events' : \E y \in events : y.seq = x.seq /\ y.key = x.key
      PROVE  e.key = f.key
  BY <1>1, <1>2
<1>3. ASSUME NEW k \in Keys, Changed(k) \/ Unchanged
      PROVE  e.key = f.key
  <2>1. CASE Changed(k)
    BY <1>1, <1>2, <2>1, ChangedRows DEF SameRowsBut
  <2>2. CASE Unchanged
    BY <1>2, <2>2 DEF Unchanged
  <2>3. QED BY <1>3, <2>1, <2>2
<1>4. ASSUME NEW r \in Requests, Serve(r)
      PROVE  e.key = f.key
  <2>1. req[r].key \in Keys
    BY <1>1 DEF Request
  <2>2. CASE Update(r) \/ Insert(r) \/ Delete(r)
    <3>1. Changed(req[r].key) \/ Unchanged
      BY <2>2 DEF Update, Insert, Delete
    <3>2. QED BY <1>3, <2>1, <3>1
  <2>3. CASE Reread(r)
    BY <1>2, <2>3 DEF Reread, Unchanged
  <2>4. CASE Announce(r)
    <3> DEFINE row == [seq |-> seq + 1, key |-> req[r].key, current |-> TRUE]
    <3>1. events' = events \cup {row}
      BY <1>0, <2>4 DEF Announce, Written
    <3>2. \A x \in events : x.seq # row.seq
      BY <1>1
    <3>3. QED BY <1>1, <3>1, <3>2
  <2>5. CASE Commit(r)
    BY <1>0, <2>5 DEF Commit, TypeInv, WaysOfBackends
  <2>6. QED BY <1>4, <2>2, <2>3, <2>4, <2>5 DEF Serve
<1>5. CASE Reset
  <2>1. SameRowsBut(records)
    BY <1>1, <1>5, MarkedRows DEF Reset
  <2>2. QED BY <1>2, <2>1 DEF SameRowsBut
<1>6. ASSUME \/ \E r \in Requests, method \in DOMAIN entry, k \in Keys : Receive(r, method, k)
             \/ \E r \in Requests : CallFails(r)
             \/ CompactSql \/ Poll \/ Crash \/ UNCHANGED vars
             \/ \E p \in Passes : Aggregate(p) \/ DeleteMany(p) \/ PassFails(p)
      PROVE  e.key = f.key
  <2>1. events' \subseteq events
    BY <1>6 DEF Receive, CallFails, CompactSql, deleteOthers, Poll, Crash, vars,
                Aggregate, DeleteMany, PassFails
  <2>2. QED BY <1>2, <2>1
<1>7. QED BY <1>4, <1>5, <1>6 DEF Next

LEMMA MissedStep ==
  TypeInv /\ OneRecordEach /\ NothingIsMissed /\ [Next]_vars => NothingIsMissed'
<1> SUFFICES ASSUME TypeInv, OneRecordEach, NothingIsMissed, [Next]_vars, backend' = "sqlite",
                    NEW k \in Keys, k \in stale', k \notin lost'
             PROVE  owed(k)' \/ ahead(k)'
  <2>1. TypeInv /\ [Next]_vars => stale' \subseteq Keys
    BY TypeInvStep DEF TypeInv, TypeOK
  <2>2. QED BY <2>1 DEF NothingIsMissed, ahead
<1>0. UNCHANGED backend
  BY DEF Next, vars, Serve, Update, Reread, Insert, Delete, Announce, Commit, Receive,
         CallFails, CompactSql, Poll, Crash, Reset, Aggregate, DeleteMany, PassFails
<1>1. /\ events \subseteq Event /\ req \in [Requests -> Request] /\ seq \in Nat /\ TypeOK
      /\ \A x \in events : x.seq \in Nat /\ x.seq <= seq
      /\ cursor \in 0 .. seq
      /\ \A x, y \in events : x.seq = y.seq => x.key = y.key
  BY <1>0 DEF TypeInv, TypeOK, OneRecordEach, Event
<1>2. k \in stale /\ k \notin lost => owed(k) \/ ahead(k)
  BY <1>0 DEF NothingIsMissed, ahead
<1>3. ASSUME NEW r \in Requests, Serve(r)
      PROVE  owed(k)' \/ ahead(k)'
  <2>1. req[r].key \in Keys /\ req[r].phase # "reread" /\ req[r].phase # "commit" /\ UNCHANGED cursor
    BY <1>0, <1>1, <1>3 DEF Request, TypeInv, WaysOfBackends,
         Serve, Update, Reread, Insert, Delete, Announce, Commit
  <2>2. CASE Update(r) \/ Insert(r) \/ Delete(r)
    <3>1. ~owes(r) /\ \A x \in Requests : x # r => req'[x] = req[x]
      BY <1>1, <2>2 DEF Update, Insert, Delete, owes, Goto, Reply
    <3> DEFINE changes == /\ Changed(req[r].key)
                          /\ \/ Goto(r, "announce")
                             \/ req' = [req EXCEPT ![r].phase = "announce", ![r].then = "reply"]
    <3>2. changes \/ Unchanged
      BY <1>0, <2>2 DEF Update, Insert, Delete
    <3>3. CASE changes /\ k = req[r].key
      <4>1. req'[r].phase = "announce" /\ req'[r].key = k
        BY <1>1, <3>3 DEF Goto, Request
      <4>2. QED BY <4>1 DEF owed, owes
    <3>4. CASE changes /\ k # req[r].key
      <4>1. SameRowsBut({req[r].key}) /\ k \in stale /\ k \notin lost
        BY <1>1, <2>1, <3>4, ChangedRows DEF Changed
      <4>2. QED BY <1>2, <2>1, <3>1, <4>1, AheadStands DEF SameRowsBut
    <3>5. CASE Unchanged
      BY <1>2, <2>1, <3>1, <3>5, AheadStands DEF Unchanged
    <3>6. QED BY <3>2, <3>3, <3>4, <3>5
  <2>3. CASE Announce(r)
    <3> DEFINE row == [seq |-> seq + 1, key |-> req[r].key, current |-> TRUE]
    <3>1. /\ events' = events \cup {row} /\ UNCHANGED <<stale, lost>>
          /\ \A x \in Requests : x # r => req'[x] = req[x]
      BY <1>0, <1>1, <2>3 DEF Announce, Written, Reply
    <3>2. CASE k = req[r].key
      <4>1. row.seq > cursor' /\ row \in events' /\ row.key = k
        BY <1>1, <2>1, <3>1, <3>2
      <4>2. QED BY <4>1 DEF ahead, unread
    <3>3. CASE k # req[r].key
      BY <1>2, <2>1, <3>1, <3>3, AheadStands
    <3>4. QED BY <3>2, <3>3
  <2>4. QED BY <1>3, <2>1, <2>2, <2>3 DEF Serve, Reread, Commit
<1>4. CASE CompactSql
  <2>1. deleteOthers(keepSequences) /\ UNCHANGED <<req, stale, lost, cursor>>
    BY <1>4 DEF CompactSql
  <2>2. CASE ahead(k)
    <3>1. PICK e \in events : e.key = k /\ e.seq > cursor
      BY <2>2 DEF ahead, unread
    <3>2. e.seq \in sequencesOf(k)
      BY <3>1 DEF sequencesOf
    <3>3. /\ Max(sequencesOf(k)) \in sequencesOf(k) /\ Max(sequencesOf(k)) \in keepSequences
          /\ e.seq <= Max(sequencesOf(k))
      BY <1>1, <3>2, KeptIsLast
    <3>4. PICK f \in events : f.key = k /\ f.seq = Max(sequencesOf(k))
      BY <3>3 DEF sequencesOf
    <3>5. f \in events' /\ f.seq > cursor'
      BY <1>1, <2>1, <3>1, <3>3, <3>4 DEF deleteOthers
    <3>6. QED BY <3>4, <3>5 DEF ahead, unread
  <2>3. CASE owed(k)
    BY <2>1, <2>3 DEF owed, owes
  <2>4. QED BY <1>2, <2>1, <2>2, <2>3
<1>5. CASE Poll
  <2> DEFINE next == CHOOSE e \in unread : \A o \in unread : e.seq <= o.seq
  <2>1. next \in unread /\ \A o \in unread : next.seq <= o.seq
    BY <1>1, <1>5, NextEvent DEF Poll
  <2>2. cursor' = next.seq /\ stale' = stale \ {next.key} /\ UNCHANGED <<events, req, lost>>
    BY <1>5 DEF Poll
  <2> HIDE DEF next
  <2>3. k \in stale /\ k \notin lost /\ k # next.key
    BY <2>2
  <2>4. CASE ahead(k)
    <3>1. PICK e \in unread : e.key = k
      BY <2>4 DEF ahead
    <3>2. e.seq # next.seq
      BY <1>1, <2>1, <2>3, <3>1 DEF unread
    <3>3. e \in events' /\ e.seq > cursor'
      BY <1>1, <2>1, <2>2, <3>1, <3>2 DEF unread
    <3>4. QED BY <3>1, <3>3 DEF ahead, unread
  <2>5. CASE owed(k)
    BY <2>2, <2>5 DEF owed, owes
  <2>6. QED BY <1>2, <2>3, <2>4, <2>5
<1>6. CASE Crash
  <2>1. UNCHANGED <<events, stale, cursor>> /\ lost \subseteq lost' /\ \A x \in Requests : owes(x) => req[x].key \in lost'
    BY <1>6 DEF Crash
  <2>2. QED BY <1>2, <2>1, AheadStands
<1>7. CASE Reset
  <2>1. SameRowsBut(records) /\ UNCHANGED <<req, cursor>> /\ k \in stale /\ k \notin lost
    BY <1>1, <1>7, MarkedRows DEF Reset
  <2>2. QED BY <1>2, <2>1, AheadStands DEF SameRowsBut
<1>8. ASSUME NEW r \in Requests, CallFails(r)
      PROVE  owed(k)' \/ ahead(k)'
  <2>1. /\ UNCHANGED <<events, stale, cursor>> /\ lost \subseteq lost'
        /\ owes(r) => req[r].key \in lost'
        /\ \A x \in Requests : x # r => req'[x] = req[x]
    BY <1>1, <1>8 DEF CallFails, Reply
  <2>2. QED BY <1>2, <2>1, AheadStands
<1>9. ASSUME NEW r \in Requests, NEW method \in DOMAIN entry, NEW j \in Keys, Receive(r, method, j)
      PROVE  owed(k)' \/ ahead(k)'
  <2>1. /\ ~owes(r) /\ UNCHANGED <<events, stale, lost, cursor>>
        /\ \A x \in Requests : x # r => req'[x] = req[x]
    BY <1>1, <1>9 DEF Receive, owes
  <2>2. QED BY <1>2, <2>1, AheadStands
<1>10. ASSUME NEW p \in Passes, Aggregate(p) \/ DeleteMany(p) \/ PassFails(p)
       PROVE  FALSE
  BY <1>0, <1>10 DEF Aggregate, DeleteMany, PassFails, TypeInv, WaysOfBackends
<1>11. CASE UNCHANGED vars
  BY <1>2, <1>11, AheadStands DEF vars
<1>12. QED BY <1>3, <1>4, <1>5, <1>6, <1>7, <1>8, <1>9, <1>10, <1>11 DEF Next

(* On SQLite a consumer that follows the sequence numbers misses no change *)
(* (GUIDE.md 556), wherever compaction and the writers come in between.    *)
THEOREM ConsumerMissesNothing == Spec => []NothingIsMissed
<1>1. Init => OneRecordEach /\ NothingIsMissed
  BY DEF Init, OneRecordEach, NothingIsMissed
<1>2. Spec => [](OneRecordEach /\ NothingIsMissed)
  BY <1>1, OneRecordStep, MissedStep, TypeInvariant, PTL DEF Spec
<1>3. QED BY <1>2, PTL
=============================================================================
