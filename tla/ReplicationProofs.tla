-------------------------- MODULE ReplicationProofs -------------------------
(***************************************************************************)
(* Proofs about Replication: what the server's pages hold, that a walk     *)
(* which runs to its end is complete, and that the report counts each      *)
(* version of a record once.                                               *)
(***************************************************************************)
EXTENDS Replication, FiniteSetTheorems, SequenceTheorems, FunctionTheorems, WellFoundedInduction, TLAPS

-----------------------------------------------------------------------------
(* The least and the greatest of a set of numbers. *)

(* There is a least of the numbers of a set.                               *)
LEMMA LeastExists ==
  ASSUME NEW S \in SUBSET Nat, S # {}
  PROVE  \E x \in S : \A y \in S : x <= y
<1>1. PICK x \in S : \A y \in S : ~ (<<y, x>> \in OpToRel(<, Nat))
  BY NatLessThanWellFounded, WFMin
<1>2. \A y \in S : ~ (y < x)
  BY <1>1, Zenon DEF OpToRel
<1>3. QED BY <1>2

(* There is a greatest of numbers that have a bound.                       *)
LEMMA GreatestExists ==
  ASSUME NEW n \in Nat, NEW S \in SUBSET (0 .. n), S # {}
  PROVE  \E x \in S : \A y \in S : y <= x
<1> DEFINE U == {u \in Nat : \A y \in S : y <= u}
<1>1. U \in SUBSET Nat /\ n \in U
  OBVIOUS
<1>2. PICK x \in U : \A u \in U : x <= u
  <2> HIDE DEF U
  <2>1. QED BY <1>1, LeastExists
<1>3. x \notin S => x - 1 \in U
  <2>1. PICK z \in S : TRUE
    OBVIOUS
  <2>2. ASSUME x \notin S, NEW y \in S PROVE y <= x - 1
    BY <2>2
  <2>3. ASSUME x \notin S PROVE x - 1 \in Nat
    BY <2>1, <2>2, <2>3
  <2>4. QED BY <2>2, <2>3
<1>4. QED BY <1>2, <1>3

(* Max of a bounded set of naturals is one of them, and none exceeds it.   *)
LEMMA MaxIsGreatest ==
  ASSUME NEW n \in Nat, NEW S \in SUBSET (0 .. n), S # {}
  PROVE  Max(S) \in S /\ \A y \in S : y <= Max(S)
BY GreatestExists DEF Max

(* Min of a set of naturals is one of them, and none is below it.          *)
LEMMA MinIsLeast ==
  ASSUME NEW S \in SUBSET Nat, S # {}
  PROVE  Min(S) \in S /\ \A y \in S : Min(S) <= y
BY LeastExists DEF Min

-----------------------------------------------------------------------------
(* What the theorems ask of the plans. *)

(* A walk that asks for all there is: for pages of a record or more, and,  *)
(* where it follows the server's links, without a $top or $skip of its     *)
(* own, which the links would count towards.                               *)
asksForAll(w) ==
  /\ w.query.top # 0 /\ w.prefer # 0
  /\ w.strategy = "NextLink" => w.query.top = Unset /\ w.query.skip = 0

WalksAskForAll == \A p \in Plans : \A i \in DOMAIN p.walks : asksForAll(p.walks[i])

-----------------------------------------------------------------------------
(* The inductive invariant. *)

Asked == {w \in Walk : asksForAll(w)}

uniqueKeys(t) == \A i, j \in DOMAIN t : t[i].key = t[j].key => i = j

TableInv ==
  /\ table \in Seq(Record(Keys)) /\ uniqueKeys(table)
  /\ clock \in Nat \ {0} /\ \A r \in ToSet(table) : 1 <= r.timestamp /\ r.timestamp <= clock
  /\ unchanged \subseteq ToSet(table)
  /\ moved \in BOOLEAN /\ crowded \in BOOLEAN

ProcessInv ==
  /\ plan \in Plans /\ todo \in Seq(Asked)
  /\ walk \in Iterator /\ walk.walk \in Asked

(* The pages of the walk.                                                  *)
topAsked(w) == otherwise(w.query.top, ClientPageSize)

limitOf(w) == fetchLimit([w.query EXCEPT !.top = topAsked(w)], w.prefer)

linked == walk.walk.strategy = "NextLink"
ascending == walk.walk.strategy = "TimestampAsc"
descending == walk.walk.strategy = "TimestampDesc"

selectsAs(q, r) == q.ge = r.ge /\ q.le = r.le /\ q.orderby = r.orderby

(* The request under way, and the one that would follow, are of this walk. *)
RequestInv ==
  LET q == walk.requestUri
      asked == walk.walk.query
  IN /\ ~linked => otherwise(q.top, walk.pageSize) = topAsked(walk.walk)
     /\ ~linked /\ walk.phase = "sent" => q.top = topAsked(walk.walk)
     /\ offsetPaged => selectsAs(q, asked)
     /\ linked => /\ q.top = Unset
                  /\ walk.nextLink # Unset =>
                       /\ selectsAs(walk.nextLink, asked) /\ walk.nextLink.top = Unset
                       /\ walk.nextLink.skip = walk.totalRecordsFetched
                  /\ walk.nextLink = Unset /\ (walk.lastRequestUri = Unset \/ walk.failing) =>
                       q.skip = walk.totalRecordsFetched
     /\ walk.phase = "sent" =>
          /\ offsetPaged => q.skip = walk.totalRecordsFetched
          /\ ascending => /\ q.ge = otherwise(walk.lastIsoTimestamp, 0) /\ q.le = Unset
                          /\ q.orderby = "asc" /\ q.skip = 0
          /\ descending => /\ q.ge = Unset /\ q.le \in Int /\ q.orderby = "desc" /\ q.skip = 0
                           /\ walk.lastIsoTimestamp # Unset => q.le = walk.lastIsoTimestamp

(* What has been received: by offset the first records in order, by        *)
(* timestamp those on the far side of the cursor.                          *)
PrefixInv ==
  offsetPaged /\ plan.honoursSkip /\ ~moved =>
    LET all == inWalksOrder(table)
    IN \A k \in 1 .. Len(all) :
         k <= walk.totalRecordsFetched /\ all[k] \in unchanged => all[k] \in fetched

CursorInv ==
  ~crowded /\ walk.lastIsoTimestamp # Unset =>
    /\ ascending => \A r \in unchanged : r.timestamp < walk.lastIsoTimestamp => r \in fetched
    /\ descending => \A r \in unchanged : r.timestamp > walk.lastIsoTimestamp => r \in fetched

(* A timestamp has as many records as fit a page; a first request downwards *)
(* asks for fewer than that of its own time, which is no earlier than any  *)
(* record.                                                                 *)
RoomInv ==
  ~crowded /\ ~ended =>
    /\ ~overfull(table, walk.walk)
    /\ descending /\ walk.phase = "sent" /\ walk.lastIsoTimestamp = Unset =>
         /\ walk.requestUri.le <= clock
         /\ \A r \in unchanged : r.timestamp <= walk.requestUri.le
         /\ Cardinality(sharing(table, walk.requestUri.le)) < limitOf(walk.walk)

Lost == IF offsetPaged THEN moved ELSE crowded

(* Before a request that would be the last one again, all is received.     *)
NextInv ==
  LET last == walk.lastRequestUri IN
  walk.phase = "next" /\ ~walk.failing /\ last # Unset =>
    /\ walk.walk.strategy = "TopAndSkip" => last.skip < walk.totalRecordsFetched
    /\ linked => IF walk.nextLink = Unset THEN Lost \/ due \subseteq fetched
                 ELSE last.skip < walk.totalRecordsFetched
    /\ ascending => walk.lastIsoTimestamp # Unset /\ last.ge # walk.lastIsoTimestamp
    /\ descending => /\ walk.lastIsoTimestamp # Unset
                     /\ last.le = walk.lastIsoTimestamp => Lost \/ due \subseteq fetched

PhaseInv ==
  /\ walk.phase \in {"count", "next", "sent"} => walk.numErrors <= MaxErrorCount
  /\ walk.phase = "waiting" => walk.failing
  /\ walk.phase = "count" => walk.lastRequestUri = Unset
  /\ walk.phase = "next" /\ ~walk.failing => walk.lastRequestUri \in {Unset, walk.requestUri}

EndInv == finished /\ ~Lost => due \subseteq fetched

WalkInv ==
  /\ TableInv /\ ProcessInv /\ RequestInv /\ PrefixInv /\ CursorInv /\ RoomInv
  /\ NextInv /\ PhaseInv /\ EndInv

(* The types that hold whatever the plans ask for.                         *)
Typed ==
  /\ table \in Seq(Record(Keys)) /\ uniqueKeys(table)
  /\ clock \in Nat /\ \A r \in ToSet(table) : r.timestamp <= clock
  /\ walk \in Iterator

ServiceInv ==
  /\ DOMAIN service = {"hashes", "numUniqueRecordsFetched", "count"}
  /\ IsFiniteSet(service.hashes)
  /\ service.numUniqueRecordsFetched \in Nat /\ service.count \in Nat \cup {Unset, NaN}

TypeInv ==
  /\ Typed /\ plan \in Plans /\ todo \in Seq(Walk)
  /\ outcome \in {"running", "done", "failed", "exited"}
  /\ unchanged \subseteq ToSet(table) /\ ServiceInv

(* What the state service has scored when each request carries one         *)
(* expansion at most: no record is a second item of its own, and the walks *)
(* to come will add none.                                                  *)
OneExpansion == {w \in Walk : Cardinality(w.expand) <= 1}

itself(r) == [model |-> "parent", record |-> r, carries |-> {}]

CountInv ==
  /\ walk.walk \in OneExpansion /\ todo \in Seq(OneExpansion)
  /\ \A x \in ofParent(service.hashes) :
       x = itself(x.record)

-----------------------------------------------------------------------------
(* What the server's pages hold. *)

LEMMA SeqIs ==
  ASSUME NEW S, NEW s \in Seq(S)
  PROVE  /\ Len(s) \in Nat /\ DOMAIN s = 1 .. Len(s) /\ s \in [1 .. Len(s) -> S]
         /\ ToSet(s) \subseteq S /\ (s = <<>> <=> Len(s) = 0)
         /\ \A x : x \in ToSet(s) <=> \E i \in 1 .. Len(s) : s[i] = x
         /\ \A i \in 1 .. Len(s) : s[i] \in S /\ s[i] \in ToSet(s)
<1>1. Len(s) \in Nat /\ DOMAIN s = 1 .. Len(s) /\ s \in [1 .. Len(s) -> S]
  BY LenProperties
<1>2. s = <<>> <=> Len(s) = 0
  BY <1>1, EmptySeq
<1>3. QED BY <1>1, <1>2 DEF ToSet

(* The order of the rows is strict and total.                              *)
LEMMA BeforeIsOrder ==
  ASSUME NEW t \in Seq(Record(Keys)), NEW q,
         NEW i \in DOMAIN t, NEW j \in DOMAIN t, NEW k \in DOMAIN t
  PROVE  /\ ~before(t, q, i, i)
         /\ i # j => before(t, q, i, j) \/ before(t, q, j, i)
         /\ before(t, q, i, j) /\ before(t, q, j, k) => before(t, q, i, k)
<1>1. /\ i \in Nat /\ j \in Nat /\ k \in Nat
      /\ t[i].timestamp \in Nat /\ t[j].timestamp \in Nat /\ t[k].timestamp \in Nat
  <2>1. DOMAIN t \subseteq Nat /\ \A m \in DOMAIN t : t[m] \in Record(Keys)
    BY SeqIs
  <2>2. QED BY <2>1 DEF Record
<1>2. CASE q.orderby = "asc"
  BY <1>1, <1>2 DEF before
<1>3. CASE q.orderby = "desc"
  BY <1>1, <1>3 DEF before
<1>4. CASE q.orderby \notin {"asc", "desc"}
  BY <1>1, <1>4 DEF before
<1>5. QED BY <1>2, <1>3, <1>4

(* Ranks are one to one with the places of the answer, in its order.       *)
LEMMA RanksArePlaces ==
  ASSUME NEW t \in Seq(Record(Keys)), NEW q
  PROVE  LET rows == rowsOf(t, q)
             n == Cardinality(rows)
         IN /\ IsFiniteSet(rows) /\ n \in Nat
            /\ \A i, j \in rows : before(t, q, i, j) => rank(t, q, i) < rank(t, q, j)
            /\ \A i, j \in rows : rank(t, q, i) = rank(t, q, j) => i = j
            /\ \A i \in rows : rank(t, q, i) \in 0 .. n - 1
            /\ \A m \in 0 .. n - 1 : \E i \in rows : rank(t, q, i) = m
<1> DEFINE rows == rowsOf(t, q)
           n == Cardinality(rows)
           ahead(i) == {j \in rows : before(t, q, j, i)}
<1>1. rows \subseteq DOMAIN t
  BY DEF rowsOf
<1>2. IsFiniteSet(rows) /\ n \in Nat
  <2>1. DOMAIN t = 1 .. Len(t) /\ Len(t) \in Nat
    BY SeqIs
  <2>2. IsFiniteSet(DOMAIN t)
    BY <2>1, FS_Interval
  <2>3. QED BY <1>1, <2>2, FS_Subset, FS_CardinalityType
<1>3. \A i : /\ rank(t, q, i) = Cardinality(ahead(i))
             /\ IsFiniteSet(ahead(i)) /\ Cardinality(ahead(i)) \in Nat
  <2>1. \A i : ahead(i) \in SUBSET rows
    OBVIOUS
  <2>2. \A i : IsFiniteSet(ahead(i))
    BY <1>2, <2>1, FS_Subset
  <2>3. QED BY <2>2, FS_CardinalityType DEF rank
<1>4. ASSUME NEW i \in rows, NEW j \in rows, before(t, q, i, j)
      PROVE  rank(t, q, i) < rank(t, q, j)
  <2>1. ahead(i) \in SUBSET ahead(j)
    <3>1. ASSUME NEW k \in rows, before(t, q, k, i) PROVE before(t, q, k, j)
      <4>1. k \in DOMAIN t /\ i \in DOMAIN t /\ j \in DOMAIN t
        BY <1>1
      <4>2. QED BY <1>4, <3>1, <4>1, BeforeIsOrder
    <3>2. QED BY <3>1
  <2>2. i \in ahead(j) /\ i \notin ahead(i)
    <3>1. i \in DOMAIN t
      BY <1>1
    <3>2. ~before(t, q, i, i)
      BY <3>1, BeforeIsOrder
    <3>3. QED BY <1>4, <3>2
  <2>3. /\ Cardinality(ahead(i)) <= Cardinality(ahead(j))
        /\ Cardinality(ahead(j)) = Cardinality(ahead(i)) => ahead(j) = ahead(i)
    BY <1>3, <2>1, FS_Subset
  <2>4. Cardinality(ahead(j)) # Cardinality(ahead(i))
    BY <2>2, <2>3
  <2>5. /\ rank(t, q, i) = Cardinality(ahead(i)) /\ Cardinality(ahead(i)) \in Nat
        /\ rank(t, q, j) = Cardinality(ahead(j)) /\ Cardinality(ahead(j)) \in Nat
    BY <1>3
  <2> HIDE DEF ahead
  <2>6. QED BY <2>3, <2>4, <2>5
<1>5. ASSUME NEW i \in rows PROVE rank(t, q, i) \in 0 .. n - 1
  <2>1. ahead(i) \in SUBSET rows
    OBVIOUS
  <2>2. ahead(i) # rows
    <3>1. i \in DOMAIN t
      BY <1>1
    <3>2. ~before(t, q, i, i)
      BY <3>1, BeforeIsOrder
    <3>3. QED BY <3>2
  <2>3. Cardinality(ahead(i)) <= n /\ Cardinality(ahead(i)) # n
    BY <1>2, <2>1, <2>2, FS_Subset
  <2>4. rank(t, q, i) = Cardinality(ahead(i)) /\ Cardinality(ahead(i)) \in Nat
    BY <1>3
  <2> HIDE DEF ahead, n
  <2>5. QED BY <1>2, <2>3, <2>4
<1>6. ASSUME NEW i \in rows, NEW j \in rows, i # j PROVE rank(t, q, i) # rank(t, q, j)
  <2>1. i \in DOMAIN t /\ j \in DOMAIN t
    BY <1>1
  <2>2. before(t, q, i, j) \/ before(t, q, j, i)
    BY <1>6, <2>1, BeforeIsOrder
  <2>3. rank(t, q, i) < rank(t, q, j) \/ rank(t, q, j) < rank(t, q, i)
    BY <1>4, <2>2
  <2>4. rank(t, q, i) \in Nat /\ rank(t, q, j) \in Nat
    BY <1>3
  <2>5. QED BY <2>3, <2>4
<1>7. ASSUME NEW m \in 0 .. n - 1 PROVE \E i \in rows : rank(t, q, i) = m
  <2> DEFINE g == [i \in rows |-> rank(t, q, i)]
  <2>1. g \in [rows -> 0 .. n - 1]
    BY <1>5
  <2>2. \A i, j \in rows : g[i] = g[j] => i = j
    BY <1>6
  <2> HIDE DEF g
  <2>3. g \in Injection(rows, 0 .. n - 1)
    BY <2>1, <2>2, Fun_IsInj
  <2>4. IsFiniteSet(0 .. n - 1) /\ Cardinality(0 .. n - 1) = n
    BY <1>2, FS_Interval
  <2>5. g \in Surjection(rows, 0 .. n - 1)
    BY <2>3, <2>4, FS_Injection
  <2>6. PICK i \in rows : g[i] = m
    BY <2>5 DEF Surjection
  <2>7. QED BY <2>6 DEF g
<1>8. QED BY <1>2, <1>4, <1>5, <1>6, <1>7

(* An answer holds the records that match, each once, in the order asked.  *)
isAnswer(all, t, q) ==
  /\ all \in Seq(Record(Keys)) /\ Len(all) \in Nat
  /\ \A k \in 1 .. Len(all) : /\ all[k] \in Record(Keys) /\ all[k] \in ToSet(t)
                              /\ matches(all[k], q)
  /\ \A r \in ToSet(t) : matches(r, q) => \E k \in 1 .. Len(all) : all[k] = r
  /\ \A j, k \in 1 .. Len(all) : all[j].key = all[k].key => j = k
  /\ q.orderby = "asc" =>
       \A j, k \in 1 .. Len(all) : j < k => all[j].timestamp <= all[k].timestamp
  /\ q.orderby = "desc" =>
       \A j, k \in 1 .. Len(all) : j < k => all[k].timestamp <= all[j].timestamp

LEMMA SelectedIs ==
  ASSUME NEW t \in Seq(Record(Keys)), NEW q, uniqueKeys(t)
  PROVE  isAnswer(selected(t, q), t, q)
<1> DEFINE rows == rowsOf(t, q)
           n == Cardinality(rows)
           row(k) == CHOOSE i \in rows : rank(t, q, i) = k - 1
           all == selected(t, q)
<1>1. /\ n \in Nat
      /\ \A i, j \in rows : before(t, q, i, j) => rank(t, q, i) < rank(t, q, j)
      /\ \A i \in rows : rank(t, q, i) \in 0 .. n - 1
      /\ \A m \in 0 .. n - 1 : \E i \in rows : rank(t, q, i) = m
  BY RanksArePlaces
<1>2. rows \subseteq DOMAIN t /\ \A i \in DOMAIN t : i \in rows <=> matches(t[i], q)
  BY DEF rowsOf
<1>3. \A k \in 1 .. n : row(k) \in rows /\ rank(t, q, row(k)) = k - 1
  <2>1. ASSUME NEW k \in 1 .. n PROVE row(k) \in rows /\ rank(t, q, row(k)) = k - 1
    <3>1. k - 1 \in 0 .. n - 1
      BY <1>1
    <3>2. \E i \in rows : rank(t, q, i) = k - 1
      BY <1>1, <3>1
    <3>3. QED BY <3>2
  <2>2. QED BY <2>1
<1>4. all = [k \in 1 .. n |-> t[row(k)]]
  BY DEF selected
<1> HIDE DEF rows, n, row, all
<1>5. \A i \in DOMAIN t : t[i] \in Record(Keys) /\ t[i] \in ToSet(t)
  BY SeqIs
<1>6. \A k \in 1 .. n : row(k) \in DOMAIN t /\ t[row(k)] \in Record(Keys)
  BY <1>2, <1>3, <1>5
<1>7. all \in Seq(Record(Keys)) /\ Len(all) = n /\ \A k \in 1 .. n : all[k] = t[row(k)]
  <2>1. all \in [1 .. n -> Record(Keys)]
    BY <1>4, <1>6
  <2>2. QED BY <1>1, <1>4, <2>1, SeqDef
<1>8. \A k \in 1 .. n : all[k] \in Record(Keys) /\ all[k] \in ToSet(t) /\ matches(all[k], q)
  BY <1>2, <1>3, <1>5, <1>6, <1>7
<1>9. ASSUME NEW r \in ToSet(t), matches(r, q) PROVE \E k \in 1 .. n : all[k] = r
  <2>1. PICK i \in DOMAIN t : t[i] = r
    BY DEF ToSet
  <2>2. i \in rows
    BY <1>2, <1>9, <2>1
  <2> DEFINE k == rank(t, q, i) + 1
  <2>3. k \in 1 .. n /\ k - 1 = rank(t, q, i)
    BY <1>1, <2>2
  <2>4. row(k) \in rows /\ rank(t, q, row(k)) = rank(t, q, i)
    BY <1>3, <2>3
  <2>5. row(k) = i
    <3>1. SUFFICES ASSUME row(k) # i PROVE FALSE
      OBVIOUS
    <3>2. before(t, q, row(k), i) \/ before(t, q, i, row(k))
      BY <1>2, <2>2, <2>4, <3>1, BeforeIsOrder
    <3>3. rank(t, q, i) \in Nat
      BY <1>1, <2>2
    <3>4. rank(t, q, row(k)) < rank(t, q, i) \/ rank(t, q, i) < rank(t, q, row(k))
      BY <1>1, <2>2, <2>4, <3>2
    <3>5. QED BY <2>4, <3>3, <3>4
  <2>6. QED BY <1>7, <2>1, <2>3, <2>5
<1>10. ASSUME NEW j \in 1 .. n, NEW k \in 1 .. n, all[j].key = all[k].key PROVE j = k
  <2>1. row(j) = row(k)
    BY <1>6, <1>7, <1>10 DEF uniqueKeys
  <2>2. j - 1 = k - 1
    BY <1>3, <2>1
  <2>3. QED BY <1>1, <2>2
<1>11. ASSUME NEW j \in 1 .. n, NEW k \in 1 .. n, j < k
       PROVE  before(t, q, row(j), row(k))
  <2>1. row(j) \in rows /\ row(k) \in rows /\ row(j) \in DOMAIN t /\ row(k) \in DOMAIN t
    BY <1>3, <1>6
  <2>2. rank(t, q, row(j)) = j - 1 /\ rank(t, q, row(k)) = k - 1
    BY <1>3
  <2>3. row(j) # row(k) /\ ~(k - 1 < j - 1)
    BY <1>1, <1>11, <2>2
  <2>4. ~before(t, q, row(k), row(j))
    BY <1>1, <2>1, <2>2, <2>3
  <2>5. QED BY <2>1, <2>3, <2>4, BeforeIsOrder
<1>12. ASSUME NEW j \in 1 .. n, NEW k \in 1 .. n, j < k
       PROVE  /\ q.orderby = "asc" => all[j].timestamp <= all[k].timestamp
              /\ q.orderby = "desc" => all[k].timestamp <= all[j].timestamp
  <2>1. before(t, q, row(j), row(k))
    BY <1>11, <1>12
  <2>2. all[j] = t[row(j)] /\ all[k] = t[row(k)]
    BY <1>7
  <2>3. t[row(j)].timestamp \in Nat /\ t[row(k)].timestamp \in Nat
    BY <1>6 DEF Record
  <2>4. QED BY <2>1, <2>2, <2>3 DEF before
<1>13. QED BY <1>1, <1>7, <1>8, <1>9, <1>10, <1>12 DEF all, isAnswer

(* What is selected depends on the filter and the order only.              *)
LEMMA SameSelection ==
  ASSUME NEW t \in Seq(Record(Keys)), NEW q, NEW r, selectsAs(q, r)
  PROVE  selected(t, q) = selected(t, r) /\ \A x : matches(x, q) <=> matches(x, r)
<1>1. \A x : matches(x, q) <=> matches(x, r)
  BY DEF selectsAs, matches
<1>2. rowsOf(t, q) = rowsOf(t, r)
  BY <1>1 DEF rowsOf
<1>3. \A i, j : before(t, q, i, j) <=> before(t, r, i, j)
  BY DEF selectsAs, before
<1>4. \A i : rank(t, q, i) = rank(t, r, i)
  BY <1>2, <1>3 DEF rank
<1> DEFINE rows == rowsOf(t, q)
           n == Cardinality(rows)
           rowAs(p, k) == CHOOSE i \in rows : rank(t, p, i) = k - 1
<1>5. ASSUME NEW k \in 1 .. n PROVE rowAs(q, k) = rowAs(r, k)
  <2>1. /\ n \in Nat /\ \A m \in 0 .. n - 1 : \E i \in rows : rank(t, q, i) = m
        /\ \A i, j \in rows : rank(t, q, i) = rank(t, q, j) => i = j
    BY RanksArePlaces
  <2>2. k - 1 \in 0 .. n - 1
    BY <2>1
  <2>3. PICK i \in rows : rank(t, q, i) = k - 1
    BY <2>1, <2>2
  <2>4. rowAs(q, k) \in rows /\ rank(t, q, rowAs(q, k)) = k - 1
    BY <2>3
  <2>5. rowAs(r, k) \in rows /\ rank(t, r, rowAs(r, k)) = k - 1
    BY <1>4, <2>3
  <2>6. QED BY <1>4, <2>1, <2>4, <2>5
<1>6. selected(t, q) = [k \in 1 .. n |-> t[rowAs(q, k)]]
  BY DEF selected
<1>7. selected(t, r) = [k \in 1 .. n |-> t[rowAs(r, k)]]
  BY <1>2 DEF selected
<1> HIDE DEF rowAs, n, rows
<1>8. QED BY <1>1, <1>5, <1>6, <1>7

LEMMA LimitIs ==
  ASSUME NEW w \in Asked
  PROVE  /\ topAsked(w) \in Nat \ {0} /\ limitOf(w) \in Nat \ {0}
         /\ \A q \in Request : q.top # 0 => fetchLimit(q, w.prefer) \in Nat \ {0}
         /\ \A q \in Request : q.top = topAsked(w) => fetchLimit(q, w.prefer) = limitOf(w)
<1>1. /\ w.prefer \in Nat \cup {Unset} /\ w.prefer # 0
      /\ w.query \in Request /\ w.query.top \in Nat \cup {Unset} /\ w.query.top # 0
  BY DEF Asked, Walk, Request, asksForAll
<1>2. /\ ClientPageSize \in Nat \ {0} /\ Unset \notin Int
      /\ DEFAULT_PAGE_SIZE \in Nat \ {0} /\ MAX_PAGE_SIZE \in Nat \ {0}
  BY ReplicationAssumption, PagingAssumption
<1>3. topAsked(w) \in Nat \ {0}
  BY <1>1, <1>2 DEF topAsked, otherwise
<1>4. \A q \in Request : q.top # 0 => fetchLimit(q, w.prefer) \in Nat \ {0}
  <2>1. ASSUME NEW q \in Request, q.top # 0 PROVE fetchLimit(q, w.prefer) \in Nat \ {0}
    <3>1. q.top \in Nat \cup {Unset}
      BY DEF Request
    <3>2. QED BY <1>1, <1>2, <2>1, <3>1 DEF fetchLimit, lesser
  <2>2. QED BY <2>1
<1> DEFINE first == [w.query EXCEPT !.top = topAsked(w)]
<1>5. first \in Request /\ first.top = topAsked(w)
  BY <1>1, <1>3 DEF Request
<1>6. limitOf(w) \in Nat \ {0}
  BY <1>3, <1>4, <1>5 DEF limitOf
<1>7. ASSUME NEW q \in Request, q.top = topAsked(w)
      PROVE  fetchLimit(q, w.prefer) = limitOf(w)
  BY <1>5, <1>7 DEF fetchLimit, limitOf
<1>8. QED BY <1>3, <1>4, <1>6, <1>7

(* A slice of an answer that begins past a prefix, as long as there is room. *)
isSlice(records, all, skip, room) ==
  /\ records \in Seq(Record(Keys)) /\ Len(records) \in Nat
  /\ Len(records) = IF skip >= Len(all) THEN 0
                    ELSE IF Len(all) - skip <= room THEN Len(all) - skip ELSE room
  /\ \A i \in 1 .. Len(records) : skip + i \in 1 .. Len(all) /\ records[i] = all[skip + i]

LEMMA SliceIs ==
  ASSUME NEW all \in Seq(Record(Keys)), NEW skip \in Nat, NEW room \in Nat
  PROVE  isSlice(SubSeq(all, skip + 1, lesser(skip + room, Len(all))), all, skip, room)
<1> DEFINE records == SubSeq(all, skip + 1, lesser(skip + room, Len(all)))
<1>1. Len(all) \in Nat /\ \A i \in 1 .. Len(all) : all[i] \in Record(Keys)
  BY SeqIs
<1>2. PICK from \in Nat : from = skip + 1
  OBVIOUS
<1>3. PICK last \in Nat : last = lesser(skip + room, Len(all))
  BY <1>1 DEF lesser
<1>4. last <= Len(all) /\ last = IF skip + room <= Len(all) THEN skip + room ELSE Len(all)
  BY <1>1, <1>3 DEF lesser
<1>5. \A i \in from .. last : all[i] \in Record(Keys)
  BY <1>1, <1>2, <1>4
<1>6. /\ records \in Seq(Record(Keys))
      /\ Len(records) = IF from <= last THEN last - from + 1 ELSE 0
      /\ \A i \in 1 .. last - from + 1 : records[i] = all[from + i - 1]
  <2>1. records = SubSeq(all, from, last)
    BY <1>2, <1>3
  <2>2. /\ SubSeq(all, from, last) \in Seq(Record(Keys))
        /\ Len(SubSeq(all, from, last)) = IF from <= last THEN last - from + 1 ELSE 0
        /\ \A i \in 1 .. last - from + 1 : SubSeq(all, from, last)[i] = all[from + i - 1]
    BY <1>5, SubSeqProperties
  <2>3. QED BY <2>1, <2>2
<1> HIDE DEF records
<1>7. Len(records) = IF skip >= Len(all) THEN 0
                     ELSE IF Len(all) - skip <= room THEN Len(all) - skip ELSE room
  BY <1>1, <1>2, <1>4, <1>6
<1>8. ASSUME NEW i \in 1 .. Len(records)
      PROVE  skip + i \in 1 .. Len(all) /\ records[i] = all[skip + i]
  BY <1>1, <1>2, <1>4, <1>6, <1>7, <1>8
<1>9. Len(records) \in Nat
  BY <1>6, SeqIs
<1>10. QED BY <1>6, <1>7, <1>8, <1>9 DEF records, isSlice

(* A page is the next records of the answer, as many as fit.               *)
LEMMA PageIs ==
  ASSUME NEW t \in Seq(Record(Keys)), uniqueKeys(t),
         NEW q \in Request, NEW prefer, fetchLimit(q, prefer) \in Nat
  PROVE  isSlice(page(t, q, prefer), selected(t, q), q.skip, fetchLimit(q, prefer))
<1>1. selected(t, q) \in Seq(Record(Keys)) /\ q.skip \in Nat
  BY SelectedIs DEF Request, isAnswer
<1>2. QED BY <1>1, SliceIs DEF page

-----------------------------------------------------------------------------
(* What a write makes of the collection. *)

isTable(t) == t \in Seq(Record(Keys)) /\ uniqueKeys(t)

LEMMA InsertAtIs ==
  ASSUME NEW S, NEW s \in Seq(S), NEW i \in 1 .. Len(s) + 1, NEW e \in S
  PROVE  /\ InsertAt(s, i, e) \in Seq(S) /\ Len(InsertAt(s, i, e)) = Len(s) + 1
         /\ \A j \in 1 .. Len(s) + 1 :
              InsertAt(s, i, e)[j] = IF j < i THEN s[j] ELSE IF j = i THEN e ELSE s[j - 1]
<1> DEFINE left == SubSeq(s, 1, i - 1)
           right == SubSeq(s, i, Len(s))
           one == <<e>>
<1>1. Len(s) \in Nat /\ i \in Nat \ {0} /\ i <= Len(s) + 1 /\ \A j \in 1 .. Len(s) : s[j] \in S
  BY SeqIs
<1>2. /\ left \in Seq(S) /\ Len(left) = i - 1
      /\ \A j \in 1 .. i - 1 : left[j] = s[j]
  <2>1. PICK m \in Int : m = i - 1
    BY <1>1
  <2>2. \A j \in 1 .. m : s[j] \in S
    BY <1>1, <2>1
  <2>3. /\ SubSeq(s, 1, m) \in Seq(S) /\ Len(SubSeq(s, 1, m)) = IF 1 <= m THEN m - 1 + 1 ELSE 0
        /\ \A j \in 1 .. m - 1 + 1 : SubSeq(s, 1, m)[j] = s[1 + j - 1]
    BY <2>2, SubSeqProperties
  <2>4. QED BY <1>1, <2>1, <2>3
<1>3. /\ right \in Seq(S) /\ Len(right) = Len(s) - i + 1
      /\ \A j \in 1 .. Len(s) - i + 1 : right[j] = s[i + j - 1]
  <2>1. \A j \in i .. Len(s) : s[j] \in S
    BY <1>1
  <2>2. /\ SubSeq(s, i, Len(s)) \in Seq(S)
        /\ Len(SubSeq(s, i, Len(s))) = IF i <= Len(s) THEN Len(s) - i + 1 ELSE 0
        /\ \A j \in 1 .. Len(s) - i + 1 : SubSeq(s, i, Len(s))[j] = s[i + j - 1]
    BY <1>1, <2>1, SubSeqProperties
  <2>3. QED BY <1>1, <2>2
<1>4. one \in Seq(S) /\ Len(one) = 1 /\ one[1] = e
  OBVIOUS
<1> HIDE DEF left, right, one
<1>5. /\ left \o one \in Seq(S) /\ Len(left \o one) = i
      /\ \A j \in 1 .. i : (left \o one)[j] = IF j <= i - 1 THEN left[j] ELSE one[j - (i - 1)]
  <2>1. /\ left \o one \in Seq(S) /\ Len(left \o one) = Len(left) + Len(one)
        /\ \A j \in 1 .. Len(left) + Len(one) : (left \o one)[j] =
             IF j <= Len(left) THEN left[j] ELSE one[j - Len(left)]
    BY <1>2, <1>4, ConcatProperties
  <2>2. Len(left) + Len(one) = i
    BY <1>1, <1>2, <1>4
  <2>3. QED BY <1>2, <2>1, <2>2
<1>6. /\ (left \o one) \o right \in Seq(S)
      /\ Len((left \o one) \o right) = Len(s) + 1
      /\ \A j \in 1 .. Len(s) + 1 : ((left \o one) \o right)[j] =
           IF j <= i THEN (left \o one)[j] ELSE right[j - i]
  <2> DEFINE begun == left \o one
  <2>1. begun \in Seq(S) /\ Len(begun) = i
    BY <1>5
  <2> HIDE DEF begun
  <2>2. /\ begun \o right \in Seq(S) /\ Len(begun \o right) = Len(begun) + Len(right)
        /\ \A j \in 1 .. Len(begun) + Len(right) : (begun \o right)[j] =
             IF j <= Len(begun) THEN begun[j] ELSE right[j - Len(begun)]
    BY <1>3, <2>1, ConcatProperties
  <2>3. Len(begun) + Len(right) = Len(s) + 1
    BY <1>1, <1>3, <2>1
  <2>4. QED BY <2>1, <2>2, <2>3 DEF begun
<1>7. InsertAt(s, i, e) = (left \o one) \o right
  BY DEF InsertAt, left, one, right
<1>8. ASSUME NEW j \in 1 .. Len(s) + 1
      PROVE  ((left \o one) \o right)[j]
               = IF j < i THEN s[j] ELSE IF j = i THEN e ELSE s[j - 1]
  <2>1. CASE j < i
    <3>1. j \in 1 .. i /\ j <= i - 1 /\ j \in 1 .. i - 1
      BY <1>1, <2>1
    <3>2. ((left \o one) \o right)[j] = (left \o one)[j]
      <4>1. j <= i
        BY <1>1, <2>1
      <4>2. QED BY <1>6, <4>1
    <3>3. (left \o one)[j] = left[j]
      BY <1>5, <3>1
    <3>4. left[j] = s[j]
      BY <1>2, <3>1
    <3>5. QED BY <2>1, <3>2, <3>3, <3>4
  <2>2. CASE j = i
    <3>1. j \in 1 .. i /\ ~(j <= i - 1) /\ j - (i - 1) = 1 /\ j <= i
      BY <1>1, <2>2
    <3>2. ((left \o one) \o right)[j] = (left \o one)[j] /\ (left \o one)[j] = one[1]
      BY <1>5, <1>6, <3>1
    <3>3. QED BY <1>1, <1>4, <2>2, <3>2
  <2>3. CASE j > i
    <3>1. j - i \in 1 .. Len(s) - i + 1 /\ i + (j - i) - 1 = j - 1 /\ ~(j <= i)
      BY <1>1, <2>3
    <3>2. ((left \o one) \o right)[j] = right[j - i]
      BY <1>6, <3>1
    <3>3. right[j - i] = s[j - 1]
      BY <1>3, <3>1
    <3>4. ~(j < i) /\ j # i
      BY <1>1, <2>3
    <3>5. QED BY <3>2, <3>3, <3>4
  <2>4. j < i \/ j = i \/ j > i
    BY <1>1
  <2>5. QED BY <2>1, <2>2, <2>3, <2>4
<1>9. QED BY <1>6, <1>7, <1>8

LEMMA RemoveAtIs ==
  ASSUME NEW S, NEW s \in Seq(S), NEW i \in 1 .. Len(s)
  PROVE  /\ RemoveAt(s, i) \in Seq(S) /\ Len(RemoveAt(s, i)) = Len(s) - 1
         /\ \A j \in 1 .. Len(s) - 1 : RemoveAt(s, i)[j] = IF j < i THEN s[j] ELSE s[j + 1]
<1> DEFINE left == SubSeq(s, 1, i - 1)
           right == SubSeq(s, i + 1, Len(s))
<1>1. Len(s) \in Nat /\ i \in Nat \ {0} /\ i <= Len(s) /\ \A j \in 1 .. Len(s) : s[j] \in S
  BY SeqIs
<1>2. /\ left \in Seq(S) /\ Len(left) = i - 1
      /\ \A j \in 1 .. i - 1 : left[j] = s[j]
  <2>1. PICK m \in Int : m = i - 1
    BY <1>1
  <2>2. \A j \in 1 .. m : s[j] \in S
    BY <1>1, <2>1
  <2>3. /\ SubSeq(s, 1, m) \in Seq(S) /\ Len(SubSeq(s, 1, m)) = IF 1 <= m THEN m - 1 + 1 ELSE 0
        /\ \A j \in 1 .. m - 1 + 1 : SubSeq(s, 1, m)[j] = s[1 + j - 1]
    BY <2>2, SubSeqProperties
  <2>4. QED BY <1>1, <2>1, <2>3
<1>3. /\ right \in Seq(S) /\ Len(right) = Len(s) - i
      /\ \A j \in 1 .. Len(s) - i : right[j] = s[i + j]
  <2>1. PICK m \in Int : m = i + 1
    BY <1>1
  <2>2. \A j \in m .. Len(s) : s[j] \in S
    BY <1>1, <2>1
  <2>3. /\ SubSeq(s, m, Len(s)) \in Seq(S)
        /\ Len(SubSeq(s, m, Len(s))) = IF m <= Len(s) THEN Len(s) - m + 1 ELSE 0
        /\ \A j \in 1 .. Len(s) - m + 1 : SubSeq(s, m, Len(s))[j] = s[m + j - 1]
    BY <1>1, <2>2, SubSeqProperties
  <2>4. QED BY <1>1, <2>1, <2>3
<1> HIDE DEF left, right
<1>4. /\ left \o right \in Seq(S) /\ Len(left \o right) = Len(s) - 1
      /\ \A j \in 1 .. Len(s) - 1 : (left \o right)[j] =
           IF j <= i - 1 THEN left[j] ELSE right[j - (i - 1)]
  <2>1. /\ left \o right \in Seq(S) /\ Len(left \o right) = Len(left) + Len(right)
        /\ \A j \in 1 .. Len(left) + Len(right) : (left \o right)[j] =
             IF j <= Len(left) THEN left[j] ELSE right[j - Len(left)]
    BY <1>2, <1>3, ConcatProperties
  <2>2. Len(left) + Len(right) = Len(s) - 1
    BY <1>1, <1>2, <1>3
  <2>3. QED BY <1>2, <2>1, <2>2
<1>5. RemoveAt(s, i) = left \o right
  BY DEF RemoveAt, left, right
<1>6. ASSUME NEW j \in 1 .. Len(s) - 1
      PROVE  (left \o right)[j] = IF j < i THEN s[j] ELSE s[j + 1]
  <2>1. CASE j < i
    <3>1. j \in 1 .. i - 1 /\ j <= i - 1
      BY <1>1, <2>1
    <3>2. (left \o right)[j] = left[j] /\ left[j] = s[j]
      BY <1>2, <1>4, <3>1
    <3>3. QED BY <2>1, <3>2
  <2>2. CASE ~(j < i)
    <3>1. j - (i - 1) \in 1 .. Len(s) - i /\ i + (j - (i - 1)) = j + 1 /\ ~(j <= i - 1)
      BY <1>1, <2>2
    <3>2. (left \o right)[j] = right[j - (i - 1)]
      BY <1>4, <3>1
    <3>3. right[j - (i - 1)] = s[j + 1]
      BY <1>3, <3>1
    <3>4. QED BY <2>2, <3>2, <3>3
  <2>3. QED BY <2>1, <2>2
<1>7. QED BY <1>4, <1>5, <1>6

(* A new record joins the others, under a key of its own.                  *)
LEMMA InsertKeepsTable ==
  ASSUME NEW t, isTable(t), NEW i \in 1 .. Len(t) + 1, NEW e \in Record(Keys),
         e.key \notin keysOf(t)
  PROVE  isTable(InsertAt(t, i, e)) /\ ToSet(InsertAt(t, i, e)) = ToSet(t) \cup {e}
<1> DEFINE u == InsertAt(t, i, e)
           n == Len(t)
<1>1. /\ n \in Nat /\ t \in Seq(Record(Keys)) /\ DOMAIN t = 1 .. n
      /\ i \in 1 .. n + 1
  BY SeqIs DEF isTable
<1>2. /\ u \in Seq(Record(Keys)) /\ Len(u) = n + 1
      /\ \A j \in 1 .. n + 1 : u[j] = IF j < i THEN t[j] ELSE IF j = i THEN e ELSE t[j - 1]
  <2>1. t \in Seq(Record(Keys)) /\ i \in 1 .. Len(t) + 1
    BY <1>1
  <2>2. QED BY ONLY <2>1, e \in Record(Keys), InsertAtIs
<1>3. DOMAIN u = 1 .. n + 1
  BY <1>1, <1>2, SeqIs
<1> HIDE DEF u, n
<1>4. \A j \in 1 .. n : t[j].key # e.key
  BY <1>1 DEF keysOf
<1>5. ASSUME NEW j \in 1 .. n + 1, NEW k \in 1 .. n + 1, u[j].key = u[k].key
      PROVE  j = k
  <2>1. \A x, y \in 1 .. n : t[x].key = t[y].key => x = y
    BY <1>1 DEF isTable, uniqueKeys
  <2>2. CASE j < i /\ k < i
    BY <1>1, <1>2, <1>5, <2>1, <2>2
  <2>3. CASE j > i /\ k > i
    <3>1. j - 1 \in 1 .. n /\ k - 1 \in 1 .. n
      BY <1>1, <2>3
    <3>2. t[j - 1].key = t[k - 1].key
      BY <1>1, <1>2, <1>5, <2>3
    <3>3. j - 1 = k - 1
      BY <2>1, <3>1, <3>2
    <3>4. QED BY <1>1, <3>3
  <2>4. CASE j < i /\ k > i
    <3>1. j \in 1 .. n /\ k - 1 \in 1 .. n
      BY <1>1, <2>4
    <3>2. t[j].key = t[k - 1].key
      BY <1>1, <1>2, <1>5, <2>4
    <3>3. j = k - 1
      BY <2>1, <3>1, <3>2
    <3>4. QED BY <1>1, <2>4, <3>3
  <2>5. CASE j > i /\ k < i
    <3>1. k \in 1 .. n /\ j - 1 \in 1 .. n
      BY <1>1, <2>5
    <3>2. t[k].key = t[j - 1].key
      BY <1>1, <1>2, <1>5, <2>5
    <3>3. k = j - 1
      BY <2>1, <3>1, <3>2
    <3>4. QED BY <1>1, <2>5, <3>3
  <2>6. CASE j = i /\ k # i
    <3>1. u[j] = e /\ u[k] = (IF k < i THEN t[k] ELSE t[k - 1])
      BY <1>2, <2>6
    <3>2. (k < i => k \in 1 .. n) /\ (~(k < i) => k - 1 \in 1 .. n)
      BY <1>1, <2>6
    <3>3. QED BY <1>4, <1>5, <3>1, <3>2
  <2>7. CASE j # i /\ k = i
    <3>1. u[k] = e /\ u[j] = (IF j < i THEN t[j] ELSE t[j - 1])
      BY <1>2, <2>7
    <3>2. (j < i => j \in 1 .. n) /\ (~(j < i) => j - 1 \in 1 .. n)
      BY <1>1, <2>7
    <3>3. QED BY <1>4, <1>5, <3>1, <3>2
  <2>8. QED BY <1>1, <2>2, <2>3, <2>4, <2>5, <2>6, <2>7
<1>6. isTable(u)
  BY <1>2, <1>3, <1>5 DEF isTable, uniqueKeys
<1>7. ASSUME NEW x \in ToSet(u) PROVE x \in ToSet(t) \cup {e}
  <2>1. PICK j \in 1 .. n + 1 : u[j] = x
    BY <1>3 DEF ToSet
  <2>2. CASE j < i
    <3>1. j \in 1 .. n /\ x = t[j]
      BY <1>1, <1>2, <2>1, <2>2
    <3>2. QED BY <1>1, <3>1 DEF ToSet
  <2>3. CASE j = i
    BY <1>1, <1>2, <2>1, <2>3
  <2>4. CASE j > i
    <3>1. j - 1 \in 1 .. n /\ ~(j < i) /\ j # i
      BY <1>1, <2>4
    <3>2. u[j] = t[j - 1]
      BY <1>2, <3>1
    <3>3. QED BY <1>1, <2>1, <3>1, <3>2 DEF ToSet
  <2>5. QED BY <1>1, <2>2, <2>3, <2>4
<1>8. e \in ToSet(u)
  BY <1>1, <1>2, <1>3 DEF ToSet
<1>9. ASSUME NEW x \in ToSet(t) PROVE x \in ToSet(u)
  <2>1. PICK j \in 1 .. n : t[j] = x
    BY <1>1 DEF ToSet
  <2>2. CASE j < i
    <3>1. j \in 1 .. n + 1 /\ u[j] = x
      BY <1>1, <1>2, <2>1, <2>2
    <3>2. QED BY <1>3, <3>1 DEF ToSet
  <2>3. CASE ~(j < i)
    <3>1. j + 1 \in 1 .. n + 1 /\ u[j + 1] = x
      BY <1>1, <1>2, <2>1, <2>3
    <3>2. QED BY <1>3, <3>1 DEF ToSet
  <2>4. QED BY <2>2, <2>3
<1>10. QED BY <1>6, <1>7, <1>8, <1>9 DEF u

(* A record that is removed takes its key along.                           *)
LEMMA RemoveKeepsTable ==
  ASSUME NEW t, isTable(t), NEW i \in 1 .. Len(t)
  PROVE  /\ isTable(RemoveAt(t, i)) /\ ToSet(RemoveAt(t, i)) = ToSet(t) \ {t[i]}
         /\ t[i].key \notin keysOf(RemoveAt(t, i)) /\ Len(RemoveAt(t, i)) = Len(t) - 1
         /\ \A r \in ToSet(t) : r.key = t[i].key => r = t[i]
<1> DEFINE u == RemoveAt(t, i)
           n == Len(t)
<1>1. /\ n \in Nat /\ t \in Seq(Record(Keys)) /\ DOMAIN t = 1 .. n
      /\ i \in 1 .. n
  BY SeqIs DEF isTable
<1>2. /\ u \in Seq(Record(Keys)) /\ Len(u) = n - 1
      /\ \A j \in 1 .. n - 1 : u[j] = IF j < i THEN t[j] ELSE t[j + 1]
  BY <1>1, RemoveAtIs
<1>3. DOMAIN u = 1 .. n - 1
  BY <1>1, <1>2, SeqIs
<1> HIDE DEF u, n
<1>4. \A x, y \in 1 .. n : t[x].key = t[y].key => x = y
  BY <1>1 DEF isTable, uniqueKeys
<1>5. \A j \in 1 .. n - 1 : \E x \in 1 .. n : /\ x # i /\ u[j] = t[x]
                                            /\ x = IF j < i THEN j ELSE j + 1
  <2>1. ASSUME NEW j \in 1 .. n - 1
        PROVE  \E x \in 1 .. n : /\ x # i /\ u[j] = t[x] /\ x = IF j < i THEN j ELSE j + 1
    <3>1. CASE j < i
      BY <1>1, <1>2, <3>1
    <3>2. CASE ~(j < i)
      BY <1>1, <1>2, <3>2
    <3>3. QED BY <3>1, <3>2
  <2>2. QED BY <2>1
<1>6. ASSUME NEW j \in 1 .. n - 1, NEW k \in 1 .. n - 1, u[j].key = u[k].key
      PROVE  j = k
  <2>1. PICK x \in 1 .. n : u[j] = t[x] /\ x = IF j < i THEN j ELSE j + 1
    BY <1>5
  <2>2. PICK y \in 1 .. n : u[k] = t[y] /\ y = IF k < i THEN k ELSE k + 1
    BY <1>5
  <2>3. x = y
    BY <1>4, <1>6, <2>1, <2>2
  <2>4. QED BY <1>1, <2>1, <2>2, <2>3
<1>7. isTable(u)
  BY <1>2, <1>3, <1>6 DEF isTable, uniqueKeys
<1>8. ASSUME NEW r \in ToSet(u) PROVE r \in ToSet(t) /\ r.key # t[i].key
  <2>1. PICK j \in 1 .. n - 1 : u[j] = r
    BY <1>3 DEF ToSet
  <2>2. PICK x \in 1 .. n : x # i /\ u[j] = t[x]
    BY <1>5
  <2>3. t[x] \in ToSet(t)
    BY <1>1 DEF ToSet
  <2>4. QED BY <1>1, <1>4, <2>1, <2>2, <2>3
<1>9. ASSUME NEW r \in ToSet(t) PROVE r \in ToSet(u) \/ r = t[i]
  <2>1. PICK x \in 1 .. n : t[x] = r
    BY <1>1 DEF ToSet
  <2>2. CASE x < i
    <3>1. x \in 1 .. n - 1 /\ u[x] = r
      BY <1>1, <1>2, <2>1, <2>2
    <3>2. QED BY <1>3, <3>1 DEF ToSet
  <2>3. CASE x > i
    <3>1. x - 1 \in 1 .. n - 1 /\ u[x - 1] = r
      BY <1>1, <1>2, <2>1, <2>3
    <3>2. QED BY <1>3, <3>1 DEF ToSet
  <2>4. QED BY <1>1, <2>1, <2>2, <2>3
<1>10. \A r \in ToSet(t) : r.key = t[i].key => r = t[i]
  BY <1>8, <1>9
<1>11. ToSet(u) = ToSet(t) \ {t[i]}
  BY <1>8, <1>9
<1>12. t[i].key \notin keysOf(u)
  <2>1. keysOf(u) = {r.key : r \in ToSet(u)}
    BY DEF keysOf, ToSet
  <2>2. QED BY <1>8, <2>1
<1>13. QED BY <1>2, <1>7, <1>10, <1>11, <1>12 DEF u, n

(* Under unique keys, the records are as many as their places.             *)
LEMMA SizeIs ==
  ASSUME NEW t, isTable(t)
  PROVE  IsFiniteSet(ToSet(t)) /\ Cardinality(ToSet(t)) = Len(t)
<1> DEFINE places == 1 .. Len(t)
<1>1. DOMAIN t = places /\ Len(t) \in Nat /\ t \in [places -> Record(Keys)]
  BY SeqIs DEF isTable
<1>2. IsFiniteSet(places) /\ Cardinality(places) = Len(t)
  <2>1. PICK n \in Nat : n = Len(t)
    BY <1>1
  <2>2. IsFiniteSet(1 .. n) /\ Cardinality(1 .. n) = n
    BY FS_Interval
  <2>3. QED BY <2>1, <2>2
<1>3. ToSet(t) = {t[i] : i \in places}
  BY <1>1 DEF ToSet
<1>4. \A i, j \in places : t[i] = t[j] => i = j
  BY <1>1 DEF isTable, uniqueKeys
<1> HIDE DEF places
<1>5. t \in [places -> ToSet(t)]
  BY <1>1, <1>3
<1>6. t \in Surjection(places, ToSet(t))
  BY <1>3, <1>5 DEF Surjection
<1>7. t \in Injection(places, ToSet(t))
  BY <1>4, <1>5, Fun_IsInj
<1>8. QED BY <1>2, <1>6, <1>7, FS_Surjection

(* The records that share a timestamp are finitely many.                   *)
LEMMA SharingIs ==
  ASSUME NEW t, isTable(t), NEW time
  PROVE  IsFiniteSet(sharing(t, time)) /\ Cardinality(sharing(t, time)) \in Nat
<1>1. IsFiniteSet(ToSet(t))
  BY SizeIs
<1>2. sharing(t, time) \in SUBSET ToSet(t)
  BY DEF sharing
<1>3. QED BY <1>1, <1>2, FS_Subset, FS_CardinalityType

(* What a timestamp of the collection has room for.                        *)
LEMMA RoomIs ==
  ASSUME NEW t, isTable(t), NEW w \in Asked, ~overfull(t, w), clock \in Nat
  PROVE  /\ \A time \in 1 .. clock : Cardinality(sharing(t, time)) <= limitOf(w)
         /\ clock # 0 => Cardinality(sharing(t, clock)) < limitOf(w)
<1>1. limitOf(w) = fetchLimit([w.query EXCEPT !.top = otherwise(@, ClientPageSize)], w.prefer)
  BY DEF limitOf, topAsked
<1>2. limitOf(w) \in Nat
  BY LimitIs
<1>3. ASSUME NEW time \in 1 .. clock
      PROVE  Cardinality(sharing(t, time)) + (IF time = clock THEN 1 ELSE 0) <= limitOf(w)
  <2>1. Cardinality(sharing(t, time)) \in Nat
    BY SharingIs
  <2>2. ~(Cardinality(sharing(t, time)) + (IF time = clock THEN 1 ELSE 0) > limitOf(w))
    BY <1>1 DEF overfull
  <2>3. QED BY <1>2, <2>1, <2>2
<1>4. \A time \in 1 .. clock : Cardinality(sharing(t, time)) <= limitOf(w)
  <2>1. ASSUME NEW time \in 1 .. clock PROVE Cardinality(sharing(t, time)) <= limitOf(w)
    <3>1. Cardinality(sharing(t, time)) \in Nat
      BY SharingIs
    <3>2. QED BY <1>2, <1>3, <3>1
  <2>2. QED BY <2>1
<1>5. clock # 0 => Cardinality(sharing(t, clock)) < limitOf(w)
  <2>1. Cardinality(sharing(t, clock)) \in Nat
    BY SharingIs
  <2>2. clock # 0 => clock \in 1 .. clock
    OBVIOUS
  <2>3. QED BY <1>2, <1>3, <2>1, <2>2
<1>6. QED BY <1>4, <1>5

-----------------------------------------------------------------------------
(* The writers and the clock. *)

LEMMA WriteKeeps ==
  ASSUME WalkInv, NEW t, NEW key, Written(t, key), isTable(t),
         \A r \in ToSet(t) : r \in ToSet(table) \/ r.timestamp = clock,
         \A r \in ToSet(table) : r.key # key => r \in ToSet(t)
  PROVE  WalkInv'
<1>1. /\ table' = t /\ unchanged' = {r \in unchanged : r.key # key}
      /\ moved' = (moved \/ ~keepsPlaces(table, t))
      /\ crowded' = (crowded \/ overfull(t, walk.walk))
      /\ UNCHANGED <<clock, plan, outcome, todo, walk, fetched>>
  BY DEF Written
<1>2. TableInv /\ isTable(table)
  BY DEF WalkInv, TableInv, isTable
<1>3. ProcessInv /\ walk.walk \in Asked
  BY DEF WalkInv, ProcessInv
<1>4. TableInv'
  <2>1. \A r \in ToSet(t) : 1 <= r.timestamp /\ r.timestamp <= clock
    BY <1>2 DEF TableInv
  <2>2. unchanged' \subseteq ToSet(t)
    BY <1>1, <1>2 DEF TableInv
  <2>3. QED BY <1>1, <1>2, <2>1, <2>2 DEF TableInv, isTable
<1>5. ProcessInv'
  BY <1>1, <1>3 DEF ProcessInv
<1>6. RequestInv'
  BY <1>1 DEF WalkInv, RequestInv, linked, ascending, descending, offsetPaged
<1>7. PrefixInv'
  <2> DEFINE all == selected(table, walk.walk.query)
             new == selected(t, walk.walk.query)
  <2>1. SUFFICES ASSUME offsetPaged, plan.honoursSkip, ~moved, keepsPlaces(table, t),
                        NEW k \in 1 .. Len(new), k <= walk.totalRecordsFetched,
                        new[k] \in unchanged, new[k].key # key
                 PROVE  new[k] \in fetched
    BY <1>1 DEF PrefixInv, offsetPaged, inWalksOrder
  <2>2. new[k] \in ToSet(table)
    BY <1>2, <2>1 DEF TableInv
  <2>3. matches(new[k], walk.walk.query)
    BY SelectedIs DEF isTable, isAnswer
  <2>4. PICK j \in 1 .. Len(all) : all[j] = new[k]
    <3>1. isAnswer(all, table, walk.walk.query)
      BY <1>2, SelectedIs DEF isTable
    <3> HIDE DEF all, new
    <3>2. QED BY <2>2, <2>3, <3>1 DEF isAnswer
  <2>5. DOMAIN all = 1 .. Len(all) /\ DOMAIN new = 1 .. Len(new)
    BY <1>2, SelectedIs, SeqIs DEF isTable, isAnswer
  <2>6. j = k
    <3>1. keepsPlaces(table, t) /\ all[j].key = new[k].key => j = k
      BY <2>5 DEF keepsPlaces, inWalksOrder
    <3>2. QED BY <2>1, <2>4, <3>1
  <2>7. PrefixInv
    BY DEF WalkInv
  <2> HIDE DEF new
  <2>8. k \in 1 .. Len(all) /\ all[k] = new[k]
    BY <2>4, <2>6
  <2>9. QED BY <2>1, <2>7, <2>8 DEF PrefixInv, inWalksOrder
<1>8. CursorInv'
  BY <1>1 DEF WalkInv, CursorInv, ascending, descending
<1>9. RoomInv'
  <2>1. SUFFICES ASSUME ~crowded, ~overfull(t, walk.walk), ~ended
                 PROVE  /\ ~overfull(t, walk.walk)'
                        /\ (descending /\ walk.phase = "sent" /\ walk.lastIsoTimestamp = Unset) =>
                              /\ walk.requestUri.le <= clock
                              /\ \A r \in unchanged' : r.timestamp <= walk.requestUri.le
                              /\ Cardinality(sharing(t, walk.requestUri.le)) < limitOf(walk.walk)
    BY <1>1 DEF RoomInv, ended, descending
  <2>2. overfull(t, walk.walk)' <=> overfull(t, walk.walk)
    BY <1>1 DEF overfull
  <2>3. SUFFICES ASSUME descending, walk.phase = "sent", walk.lastIsoTimestamp = Unset
                 PROVE  /\ walk.requestUri.le <= clock
                        /\ \A r \in unchanged : r.timestamp <= walk.requestUri.le
                        /\ Cardinality(sharing(t, walk.requestUri.le)) < limitOf(walk.walk)
    BY <1>1, <2>1, <2>2
  <2> DEFINE le == walk.requestUri.le
  <2>4. /\ le <= clock /\ \A r \in unchanged : r.timestamp <= le
        /\ Cardinality(sharing(table, le)) < limitOf(walk.walk)
    BY <2>1, <2>3 DEF WalkInv, RoomInv
  <2>5. Cardinality(sharing(t, le)) < limitOf(walk.walk)
    <3>1. CASE le = clock
      BY <1>2, <1>3, <2>1, <3>1, RoomIs DEF TableInv
    <3>2. CASE le # clock
      <4>1. sharing(t, le) \in SUBSET sharing(table, le)
        BY <3>2 DEF sharing
      <4>2. IsFiniteSet(sharing(table, le)) /\ Cardinality(sharing(table, le)) \in Nat
        BY <1>2, SharingIs
      <4>3. Cardinality(sharing(t, le)) <= Cardinality(sharing(table, le))
        BY <4>1, <4>2, FS_Subset
      <4>4. Cardinality(sharing(t, le)) \in Nat /\ limitOf(walk.walk) \in Nat
        BY <1>3, SharingIs, LimitIs
      <4>5. QED BY <2>4, <4>2, <4>3, <4>4
    <3>3. QED BY <3>1, <3>2
  <2>6. QED BY <2>4, <2>5
<1>10. (Lost => Lost') /\ (due \subseteq fetched => due' \subseteq fetched')
  BY <1>1 DEF Lost, offsetPaged, due
<1>11. NextInv'
  BY <1>1, <1>10 DEF WalkInv, NextInv, linked, ascending, descending
<1>12. PhaseInv'
  BY <1>1 DEF WalkInv, PhaseInv
<1>13. EndInv'
  <2>1. finished' <=> finished
    BY <1>1 DEF finished, ended, limitReached
  <2>2. QED BY <1>10, <2>1 DEF WalkInv, EndInv
<1>14. QED BY <1>4, <1>5, <1>6, <1>7, <1>8, <1>9, <1>11, <1>12, <1>13 DEF WalkInv

LEMMA CreateKeeps ==
  ASSUME WalkInv, Create
  PROVE  WalkInv'
<1>1. PICK k \in Keys \ keysOf(table), i \in 1 .. Len(table) + 1 :
        Written(InsertAt(table, i, [key |-> k, timestamp |-> clock]), k)
  BY DEF Create
<1> DEFINE e == [key |-> k, timestamp |-> clock]
<1>2. isTable(table) /\ clock \in Nat
  BY DEF WalkInv, TableInv, isTable
<1>3. e \in Record(Keys) /\ e.key \notin keysOf(table) /\ e.timestamp = clock
  BY <1>2 DEF Record
<1> HIDE DEF e
<1>4. isTable(InsertAt(table, i, e)) /\ ToSet(InsertAt(table, i, e)) = ToSet(table) \cup {e}
  BY <1>2, <1>3, InsertKeepsTable
<1>5. Written(InsertAt(table, i, e), k)
  BY <1>1 DEF e
<1>6. QED BY <1>3, <1>4, <1>5, WriteKeeps

LEMMA ModifyKeeps ==
  ASSUME WalkInv, Modify
  PROVE  WalkInv'
<1>1. PICK i \in DOMAIN table, j \in DOMAIN table :
        Written(InsertAt(RemoveAt(table, i), j, [table[i] EXCEPT !.timestamp = clock]),
                table[i].key)
  BY DEF Modify
<1>2. isTable(table) /\ clock \in Nat
  BY DEF WalkInv, TableInv, isTable
<1>3. /\ DOMAIN table = 1 .. Len(table) /\ Len(table) \in Nat
      /\ table[i] \in Record(Keys) /\ table[i] \in ToSet(table)
  BY <1>2, SeqIs DEF isTable
<1> DEFINE e == [table[i] EXCEPT !.timestamp = clock]
           rest1 == RemoveAt(table, i)
<1>4. e \in Record(Keys) /\ e.key = table[i].key /\ e.timestamp = clock
  BY <1>2, <1>3 DEF Record
<1>5. /\ isTable(rest1) /\ ToSet(rest1) = ToSet(table) \ {table[i]}
      /\ table[i].key \notin keysOf(rest1) /\ Len(rest1) = Len(table) - 1
      /\ \A r \in ToSet(table) : r.key = table[i].key => r = table[i]
  BY <1>2, <1>3, RemoveKeepsTable
<1>6. Written(InsertAt(rest1, j, e), table[i].key)
  BY <1>1
<1> HIDE DEF e, rest1
<1>7. j \in 1 .. Len(rest1) + 1
  BY <1>3, <1>5
<1>8. /\ isTable(InsertAt(rest1, j, e))
      /\ ToSet(InsertAt(rest1, j, e)) = ToSet(rest1) \cup {e}
  BY <1>4, <1>5, <1>7, InsertKeepsTable
<1>9. /\ \A r \in ToSet(InsertAt(rest1, j, e)) : r \in ToSet(table) \/ r.timestamp = clock
      /\ \A r \in ToSet(table) : r.key # table[i].key => r \in ToSet(InsertAt(rest1, j, e))
  BY <1>4, <1>5, <1>8
<1>10. QED BY <1>6, <1>8, <1>9, WriteKeeps

LEMMA DeleteKeeps ==
  ASSUME WalkInv, Delete
  PROVE  WalkInv'
<1>1. PICK i \in DOMAIN table : Written(RemoveAt(table, i), table[i].key)
  BY DEF Delete
<1>2. isTable(table)
  BY DEF WalkInv, TableInv, isTable
<1>3. DOMAIN table = 1 .. Len(table) /\ Len(table) \in Nat
  BY <1>2, SeqIs DEF isTable
<1>4. isTable(RemoveAt(table, i)) /\ ToSet(RemoveAt(table, i)) = ToSet(table) \ {table[i]}
  BY <1>2, <1>3, RemoveKeepsTable
<1>5. /\ \A r \in ToSet(RemoveAt(table, i)) : r \in ToSet(table) \/ r.timestamp = clock
      /\ \A r \in ToSet(table) : r.key # table[i].key => r \in ToSet(RemoveAt(table, i))
  BY <1>4
<1>6. QED BY <1>1, <1>4, <1>5, WriteKeeps

(* A new present has no records yet, and the last one is full no sooner.   *)
LEMMA TickKeeps ==
  ASSUME WalkInv, Tick
  PROVE  WalkInv'
<1>1. /\ clock' = clock + 1
      /\ UNCHANGED <<table, plan, outcome, todo, walk, unchanged, moved, crowded, fetched>>
  BY DEF Tick, history
<1>2. /\ TableInv /\ isTable(table) /\ clock \in Nat \ {0}
      /\ ProcessInv /\ walk.walk \in Asked
  BY DEF WalkInv, TableInv, ProcessInv, isTable
<1>3. TableInv'
  <2>1. \A r \in ToSet(table) : r.timestamp <= clock + 1
    <3>1. \A r \in ToSet(table) : r.timestamp \in Nat /\ r.timestamp <= clock
      <4>1. ToSet(table) \subseteq Record(Keys)
        BY <1>2, SeqIs DEF isTable
      <4>2. QED BY <1>2, <4>1 DEF TableInv, Record
    <3>2. QED BY <1>2, <3>1
  <2>2. QED BY <1>1, <1>2, <2>1 DEF TableInv
<1>4. ProcessInv'
  BY <1>1, <1>2 DEF ProcessInv
<1>5. RequestInv' /\ PhaseInv'
  BY <1>1 DEF WalkInv, RequestInv, PhaseInv, linked, ascending, descending, offsetPaged
<1>6. PrefixInv' /\ CursorInv'
  BY <1>1 DEF WalkInv, PrefixInv, CursorInv, offsetPaged, inWalksOrder, ascending, descending
<1>7. RoomInv'
  <2>1. SUFFICES ASSUME ~crowded, ~ended, RoomInv
                 PROVE  /\ ~overfull(table, walk.walk)'
                        /\ (descending /\ walk.phase = "sent" /\ walk.lastIsoTimestamp = Unset) =>
                              /\ walk.requestUri.le <= clock + 1
                              /\ \A r \in unchanged : r.timestamp <= walk.requestUri.le
                              /\ Cardinality(sharing(table, walk.requestUri.le))
                                   < limitOf(walk.walk)
    BY <1>1 DEF WalkInv, RoomInv, ended, descending
  <2> DEFINE limit == limitOf(walk.walk)
             size(time) == Cardinality(sharing(table, time))
  <2>2. limit \in Nat \ {0} /\ \A time : size(time) \in Nat
    BY <1>2, LimitIs, SharingIs
  <2>3. ~overfull(table, walk.walk)
    BY <2>1 DEF RoomInv
  <2>4. \A time \in 1 .. clock : size(time) <= limit
    BY <1>2, <2>3, RoomIs
  <2>5. size(clock + 1) = 0
    <3>1. \A r \in ToSet(table) : r.timestamp \in Nat /\ r.timestamp <= clock
      <4>1. ToSet(table) \subseteq Record(Keys)
        BY <1>2, SeqIs DEF isTable
      <4>2. QED BY <1>2, <4>1 DEF TableInv, Record
    <3>2. \A r \in ToSet(table) : r.timestamp # clock + 1
      BY <1>2, <3>1
    <3>3. sharing(table, clock + 1) = {}
      BY <3>2 DEF sharing
    <3>4. QED BY <3>3, FS_EmptySet
  <2>6. \A time \in 1 .. clock + 1 :
          ~(size(time) + (IF time = clock + 1 THEN 1 ELSE 0) > limit)
    <3> HIDE DEF size, limit
    <3>1. ASSUME NEW time \in 1 .. clock + 1
          PROVE  ~(size(time) + (IF time = clock + 1 THEN 1 ELSE 0) > limit)
      <4>1. CASE time = clock + 1
        BY <1>2, <2>2, <2>5, <4>1
      <4>2. CASE time # clock + 1
        <5>1. time \in 1 .. clock
          BY <1>2, <4>2
        <5>2. size(time) <= limit /\ size(time) \in Nat
          BY <2>2, <2>4, <5>1
        <5>3. QED BY <2>2, <4>2, <5>2
      <4>3. QED BY <4>1, <4>2
    <3>2. QED BY <3>1
  <2>7. ~overfull(table, walk.walk)'
    BY <1>1, <2>6 DEF overfull, limitOf, topAsked
  <2>8. ASSUME descending, walk.phase = "sent", walk.lastIsoTimestamp = Unset
        PROVE  /\ walk.requestUri.le <= clock + 1
               /\ \A r \in unchanged : r.timestamp <= walk.requestUri.le
               /\ Cardinality(sharing(table, walk.requestUri.le)) < limitOf(walk.walk)
    <3>1. /\ walk.requestUri.le <= clock
          /\ \A r \in unchanged : r.timestamp <= walk.requestUri.le
          /\ Cardinality(sharing(table, walk.requestUri.le)) < limitOf(walk.walk)
      BY <2>1, <2>8 DEF RoomInv
    <3>2. walk.requestUri.le \in Int
      BY <2>8 DEF WalkInv, RequestInv
    <3>3. QED BY <1>2, <3>1, <3>2
  <2>9. QED BY <2>7, <2>8
<1>8. (Lost' <=> Lost) /\ due' = due /\ (finished' <=> finished)
  BY <1>1 DEF Lost, offsetPaged, due, finished, ended, limitReached
<1>9. NextInv' /\ EndInv'
  BY <1>1, <1>8 DEF WalkInv, NextInv, EndInv, linked, ascending, descending
<1>10. QED BY <1>3, <1>4, <1>5, <1>6, <1>7, <1>9 DEF WalkInv

-----------------------------------------------------------------------------
(* The steps of a process that bring no records. *)

(* What neither moves the cursor nor brings records keeps what was received. *)
LEMMA SteadyKeeps ==
  ASSUME WalkInv, UNCHANGED <<table, clock, plan, unchanged, moved, crowded, fetched>>,
         walk'.walk = walk.walk, walk'.lastIsoTimestamp = walk.lastIsoTimestamp,
         walk'.totalRecordsFetched = walk.totalRecordsFetched
  PROVE  /\ TableInv' /\ PrefixInv' /\ CursorInv'
         /\ (Lost' <=> Lost) /\ due' = due
         /\ (overfull(table, walk.walk)' <=> overfull(table, walk.walk))
<1>1. TableInv'
  BY DEF WalkInv, TableInv
<1>2. PrefixInv'
  BY DEF WalkInv, PrefixInv, offsetPaged, inWalksOrder
<1>3. CursorInv'
  BY DEF WalkInv, CursorInv, ascending, descending
<1>4. (Lost' <=> Lost) /\ due' = due
  BY DEF Lost, offsetPaged, due
<1>5. overfull(table, walk.walk)' <=> overfull(table, walk.walk)
  BY DEF overfull
<1>6. QED BY <1>1, <1>2, <1>3, <1>4, <1>5

(* After an error the walk is where it was.                                *)
LEMMA FailedKeeps ==
  ASSUME WalkInv, UNCHANGED <<table, clock, plan, unchanged, moved, crowded, fetched>>,
         walk'.walk = walk.walk, walk'.lastIsoTimestamp = walk.lastIsoTimestamp,
         walk'.totalRecordsFetched = walk.totalRecordsFetched,
         walk'.requestUri = walk.requestUri, walk'.failing, ProcessInv',
         walk.phase \in {"sent", "waiting"}, walk'.phase \in {"next", "waiting", "ended"},
         walk'.nextLink \in {walk.nextLink, Unset},
         walk.phase = "waiting" => /\ walk'.nextLink = walk.nextLink
                                   /\ walk'.pageSize = walk.pageSize,
         walk'.phase = "next" => walk'.numErrors <= MaxErrorCount
  PROVE  WalkInv'
<1>1. /\ TableInv' /\ PrefixInv' /\ CursorInv'
      /\ (Lost' <=> Lost) /\ due' = due
      /\ (overfull(table, walk.walk)' <=> overfull(table, walk.walk))
  BY SteadyKeeps
<1>2. RequestInv /\ PhaseInv /\ RoomInv /\ walk.walk \in Asked
  BY DEF WalkInv, ProcessInv
<1>3. topAsked(walk.walk) \in Nat \ {0} /\ Unset \notin Nat
  BY <1>2, LimitIs, PagingAssumption
<1>4. /\ (offsetPaged' <=> offsetPaged) /\ (linked' <=> linked)
      /\ (ascending' <=> ascending) /\ (descending' <=> descending)
  BY DEF offsetPaged, linked, ascending, descending
<1>5. RequestInv'
  <2>1. ~linked => otherwise(walk.requestUri.top, walk'.pageSize) = topAsked(walk.walk)
    <3>1. CASE walk.phase = "sent"
      BY <1>2, <1>3, <3>1 DEF RequestInv, otherwise
    <3>2. CASE walk.phase = "waiting"
      BY <1>2, <3>2 DEF RequestInv
    <3>3. QED BY <3>1, <3>2
  <2>2. linked /\ walk'.nextLink = Unset =>
          walk.requestUri.skip = walk.totalRecordsFetched
    <3>1. CASE walk.phase = "sent"
      BY <1>2, <3>1 DEF RequestInv, linked, offsetPaged
    <3>2. CASE walk.phase = "waiting"
      BY <1>2, <3>2 DEF RequestInv, PhaseInv
    <3>3. QED BY <3>1, <3>2
  <2>3. walk'.phase # "sent"
    OBVIOUS
  <2>4. QED BY <1>2, <1>4, <2>1, <2>2, <2>3 DEF RequestInv
<1>6. RoomInv'
  <2>1. ~ended
    BY DEF ended
  <2>2. QED BY <1>1, <1>2, <2>1 DEF RoomInv
<1>7. NextInv' /\ PhaseInv' /\ EndInv'
  BY DEF NextInv, PhaseInv, EndInv, finished
<1>8. QED BY <1>1, <1>5, <1>6, <1>7 DEF WalkInv

LEMMA AnsweredIs ==
  ASSUME walk \in Iterator
  PROVE  /\ answered \in Iterator /\ answered.numErrors + 1 \in Nat
         /\ walk.numErrors + 1 \in Nat
         /\ answered.phase = walk.phase /\ answered.walk = walk.walk
         /\ answered.lastIsoTimestamp = walk.lastIsoTimestamp
         /\ answered.totalRecordsFetched = walk.totalRecordsFetched
         /\ answered.requestUri = walk.requestUri /\ answered.nextLink = walk.nextLink
         /\ answered.lastRequestUri = walk.requestUri /\ answered.numErrors = walk.numErrors
<1>1. /\ answered \in Iterator
      /\ answered.phase = walk.phase /\ answered.walk = walk.walk
      /\ answered.lastIsoTimestamp = walk.lastIsoTimestamp
      /\ answered.totalRecordsFetched = walk.totalRecordsFetched
      /\ answered.requestUri = walk.requestUri /\ answered.nextLink = walk.nextLink
      /\ answered.lastRequestUri = walk.requestUri /\ answered.numErrors = walk.numErrors
  BY DEF Iterator, answered
<1>2. walk.numErrors \in Nat
  BY DEF Iterator
<1>3. QED BY <1>1, <1>2

LEMMA HttpErrorKeeps ==
  ASSUME WalkInv, HttpError
  PROVE  WalkInv'
<1> DEFINE failed == [answered EXCEPT !.numErrors = @ + 1, !.failing = TRUE]
<1>1. /\ UNCHANGED <<table, clock, plan, todo, unchanged, moved, crowded, fetched>>
      /\ walk.phase = "sent"
      /\ \/ walk' = resumed(failed)
         \/ walk' = [failed EXCEPT !.phase = "waiting", !.owing = TRUE]
         \/ walk' = [failed EXCEPT !.phase = "ended"]
  BY DEF HttpError, source, history
<1>2. walk \in Iterator /\ ProcessInv
  BY DEF WalkInv, ProcessInv
<1>3. /\ failed \in Iterator /\ failed.failing /\ failed.phase = walk.phase
      /\ failed.walk = walk.walk /\ failed.lastIsoTimestamp = walk.lastIsoTimestamp
      /\ failed.totalRecordsFetched = walk.totalRecordsFetched
      /\ failed.requestUri = walk.requestUri /\ failed.nextLink = walk.nextLink
  <2>1. failed = [answered EXCEPT !.numErrors = answered.numErrors + 1, !.failing = TRUE]
    OBVIOUS
  <2>2. PICK n \in Nat : n = answered.numErrors + 1
    BY <1>2, AnsweredIs
  <2>3. failed = [answered EXCEPT !.numErrors = n, !.failing = TRUE] /\ answered \in Iterator
    BY <1>2, <2>1, <2>2, AnsweredIs
  <2> HIDE DEF failed
  <2>4. /\ failed \in Iterator /\ failed.failing /\ failed.phase = answered.phase
        /\ failed.walk = answered.walk /\ failed.lastIsoTimestamp = answered.lastIsoTimestamp
        /\ failed.totalRecordsFetched = answered.totalRecordsFetched
        /\ failed.requestUri = answered.requestUri /\ failed.nextLink = answered.nextLink
    BY <2>3 DEF Iterator
  <2>5. QED BY <1>2, <2>4, AnsweredIs
<1> HIDE DEF failed
<1>4. /\ walk' \in Iterator
      /\ walk'.failing /\ walk'.phase \in {"next", "waiting", "ended"}
      /\ walk'.walk = walk.walk /\ walk'.lastIsoTimestamp = walk.lastIsoTimestamp
      /\ walk'.totalRecordsFetched = walk.totalRecordsFetched
      /\ walk'.requestUri = walk.requestUri /\ walk'.nextLink = walk.nextLink
  <2>1. CASE walk' = resumed(failed)
    <3>1. PICK p \in {"next", "ended"} : walk' = [failed EXCEPT !.phase = p]
      BY <2>1 DEF resumed
    <3>2. QED BY <1>3, <3>1 DEF Iterator
  <2>2. CASE walk' = [failed EXCEPT !.phase = "waiting", !.owing = TRUE]
    BY <1>3, <2>2 DEF Iterator
  <2>3. CASE walk' = [failed EXCEPT !.phase = "ended"]
    BY <1>3, <2>3 DEF Iterator
  <2>4. QED BY <1>1, <2>1, <2>2, <2>3
<1>5. walk'.phase = "next" => walk'.numErrors <= MaxErrorCount
  <2>1. walk'.phase = "next" => walk'.numErrors = failed.numErrors
                                /\ ~(failed.numErrors > MaxErrorCount)
    BY <1>1, <1>3 DEF Iterator, resumed
  <2>2. failed.numErrors \in Nat /\ MaxErrorCount \in Nat
    BY <1>3, ReplicationAssumption DEF Iterator
  <2>3. QED BY <2>1, <2>2
<1>6. ProcessInv'
  BY <1>1, <1>2, <1>4 DEF ProcessInv
<1>7. QED BY <1>1, <1>4, <1>5, <1>6, FailedKeeps

LEMMA UnreachableKeeps ==
  ASSUME WalkInv, Unreachable
  PROVE  WalkInv'
<1> DEFINE failed == [walk EXCEPT !.numErrors = @ + 1, !.failing = TRUE]
<1>1. /\ UNCHANGED <<table, clock, plan, todo, unchanged, moved, crowded, fetched>>
      /\ walk.phase = "sent" /\ walk' = resumed(failed)
  BY DEF Unreachable, source, history
<1>2. walk \in Iterator /\ ProcessInv
  BY DEF WalkInv, ProcessInv
<1>3. /\ failed \in Iterator /\ failed.failing /\ failed.phase = walk.phase
      /\ failed.walk = walk.walk /\ failed.lastIsoTimestamp = walk.lastIsoTimestamp
      /\ failed.totalRecordsFetched = walk.totalRecordsFetched
      /\ failed.requestUri = walk.requestUri /\ failed.nextLink = walk.nextLink
  <2>1. PICK n \in Nat : n = walk.numErrors + 1
    BY <1>2, AnsweredIs
  <2>2. failed = [walk EXCEPT !.numErrors = n, !.failing = TRUE]
    BY <2>1
  <2> HIDE DEF failed
  <2>3. QED BY <1>2, <2>2 DEF Iterator
<1> HIDE DEF failed
<1>4. /\ walk' \in Iterator
      /\ walk'.failing /\ walk'.phase \in {"next", "waiting", "ended"}
      /\ walk'.walk = walk.walk /\ walk'.lastIsoTimestamp = walk.lastIsoTimestamp
      /\ walk'.totalRecordsFetched = walk.totalRecordsFetched
      /\ walk'.requestUri = walk.requestUri /\ walk'.nextLink = walk.nextLink
  BY <1>1, <1>3 DEF Iterator, resumed
<1>5. walk'.phase = "next" => walk'.numErrors <= MaxErrorCount
  <2>1. walk'.phase = "next" => walk'.numErrors = failed.numErrors
                                /\ ~(failed.numErrors > MaxErrorCount)
    BY <1>1, <1>3 DEF Iterator, resumed
  <2>2. failed.numErrors \in Nat /\ MaxErrorCount \in Nat
    BY <1>3, ReplicationAssumption DEF Iterator
  <2>3. QED BY <2>1, <2>2
<1>6. ProcessInv'
  BY <1>1, <1>2, <1>4 DEF ProcessInv
<1>7. QED BY <1>1, <1>4, <1>5, <1>6, FailedKeeps

LEMMA WakeKeeps ==
  ASSUME WalkInv, Wake
  PROVE  WalkInv'
<1>1. /\ UNCHANGED <<table, clock, plan, todo, unchanged, moved, crowded, fetched>>
      /\ walk.phase = "waiting" /\ walk' = resumed(walk)
  BY DEF Wake, source, history
<1>2. walk \in Iterator /\ ProcessInv /\ walk.failing
  BY <1>1 DEF WalkInv, ProcessInv, PhaseInv
<1>3. /\ walk' \in Iterator
      /\ walk'.failing /\ walk'.phase \in {"next", "ended"}
      /\ walk'.walk = walk.walk /\ walk'.lastIsoTimestamp = walk.lastIsoTimestamp
      /\ walk'.totalRecordsFetched = walk.totalRecordsFetched
      /\ walk'.requestUri = walk.requestUri /\ walk'.nextLink = walk.nextLink
      /\ walk'.pageSize = walk.pageSize
  BY <1>1, <1>2 DEF Iterator, resumed
<1>4. walk'.phase = "next" => walk'.numErrors <= MaxErrorCount
  <2>1. walk'.phase = "next" => walk'.numErrors = walk.numErrors
                                /\ ~(walk.numErrors > MaxErrorCount)
    BY <1>1, <1>2 DEF Iterator, resumed
  <2>2. walk.numErrors \in Nat /\ MaxErrorCount \in Nat
    BY <1>2, ReplicationAssumption DEF Iterator
  <2>3. QED BY <2>1, <2>2
<1>5. ProcessInv'
  BY <1>1, <1>2, <1>3 DEF ProcessInv
<1>6. QED BY <1>1, <1>3, <1>4, <1>5, FailedKeeps

LEMMA LookupErrorKeeps ==
  ASSUME WalkInv, LookupError
  PROVE  WalkInv'
<1>1. /\ UNCHANGED <<table, clock, plan, todo, unchanged, moved, crowded, fetched>>
      /\ walk.phase = "sent" /\ walk' = [answered EXCEPT !.phase = "ended", !.failing = TRUE]
  BY DEF LookupError, source, history
<1>2. walk \in Iterator /\ ProcessInv
  BY DEF WalkInv, ProcessInv
<1>3. /\ walk' \in Iterator
      /\ walk'.failing /\ walk'.phase = "ended"
      /\ walk'.walk = walk.walk /\ walk'.lastIsoTimestamp = walk.lastIsoTimestamp
      /\ walk'.totalRecordsFetched = walk.totalRecordsFetched
      /\ walk'.requestUri = walk.requestUri /\ walk'.nextLink = walk.nextLink
  BY <1>1, <1>2 DEF Iterator, answered
<1>4. ProcessInv'
  BY <1>1, <1>2, <1>3 DEF ProcessInv
<1>5. QED BY <1>1, <1>3, <1>4, FailedKeeps

(* A page that cannot be read leaves the iterator where it is, failing.    *)
LEMMA GarbledIs ==
  ASSUME walk \in Iterator
  PROVE  LET failed == [received(answered, <<>>, Unset) EXCEPT !.failing = TRUE]
         IN /\ failed \in Iterator /\ failed.failing /\ failed.phase = walk.phase
            /\ failed.walk = walk.walk /\ failed.lastIsoTimestamp = walk.lastIsoTimestamp
            /\ failed.totalRecordsFetched = walk.totalRecordsFetched
            /\ failed.requestUri = walk.requestUri /\ failed.nextLink = Unset
            /\ failed.pageSize = 0
<1> DEFINE failed == [received(answered, <<>>, Unset) EXCEPT !.failing = TRUE]
<1>1. computeLastIsoTimestamp(answered, <<>>) = walk.lastIsoTimestamp
  BY DEF computeLastIsoTimestamp, answered, Iterator
<1>2. walk.totalRecordsFetched \in Nat /\ Len(<<>>) = 0
  BY DEF Iterator
<1>3. /\ failed \in Iterator /\ failed.failing /\ failed.phase = walk.phase
      /\ failed.walk = walk.walk /\ failed.lastIsoTimestamp = walk.lastIsoTimestamp
      /\ failed.totalRecordsFetched = walk.totalRecordsFetched
      /\ failed.requestUri = walk.requestUri /\ failed.nextLink = Unset
      /\ failed.pageSize = 0
  <2>1. failed = [answered EXCEPT !.lastIsoTimestamp = walk.lastIsoTimestamp, !.pageSize = 0,
                                  !.nextLink = Unset,
                                  !.totalRecordsFetched = walk.totalRecordsFetched,
                                  !.failing = TRUE]
    <3>1. answered.totalRecordsFetched + Len(<<>>) = walk.totalRecordsFetched
      BY <1>2, AnsweredIs
    <3>2. answered \in Iterator
      BY AnsweredIs
    <3>3. received(answered, <<>>, Unset)
            = [answered EXCEPT !.lastIsoTimestamp = computeLastIsoTimestamp(answered, <<>>),
                               !.pageSize = Len(<<>>), !.nextLink = Unset,
                               !.totalRecordsFetched = answered.totalRecordsFetched + Len(<<>>),
                               !.failing = FALSE]
      BY <3>2 DEF Iterator, received
    <3>4. received(answered, <<>>, Unset)
            = [answered EXCEPT !.lastIsoTimestamp = walk.lastIsoTimestamp,
                               !.pageSize = 0, !.nextLink = Unset,
                               !.totalRecordsFetched = walk.totalRecordsFetched,
                               !.failing = FALSE]
      BY <1>1, <1>2, <3>1, <3>3
    <3>5. QED BY <3>2, <3>4 DEF Iterator
  <2> HIDE DEF failed
  <2>2. answered \in Iterator
    BY AnsweredIs
  <2>3. /\ failed \in Iterator /\ failed.failing /\ failed.phase = answered.phase
        /\ failed.walk = answered.walk /\ failed.lastIsoTimestamp = walk.lastIsoTimestamp
        /\ failed.totalRecordsFetched = walk.totalRecordsFetched
        /\ failed.requestUri = answered.requestUri /\ failed.nextLink = Unset
        /\ failed.pageSize = 0
    <3>1. walk.lastIsoTimestamp \in Int \cup {Unset} /\ 0 \in Nat
          /\ walk.totalRecordsFetched \in Nat
      BY DEF Iterator
    <3>2. QED BY <2>1, <2>2, <3>1 DEF Iterator
  <2>4. QED BY <2>3, AnsweredIs
<1>4. QED BY <1>3

LEMMA GarbledPageKeeps ==
  ASSUME WalkInv, GarbledPage
  PROVE  WalkInv'
<1> DEFINE failed == [received(answered, <<>>, Unset) EXCEPT !.failing = TRUE]
<1>1. /\ UNCHANGED <<table, clock, plan, todo, unchanged, moved, crowded, fetched>>
      /\ walk.phase = "sent" /\ walk' = resumed(failed)
  BY DEF GarbledPage, source, history
<1>2. walk \in Iterator /\ ProcessInv
  BY DEF WalkInv, ProcessInv
<1>3. /\ failed \in Iterator /\ failed.failing /\ failed.phase = walk.phase
      /\ failed.walk = walk.walk /\ failed.lastIsoTimestamp = walk.lastIsoTimestamp
      /\ failed.totalRecordsFetched = walk.totalRecordsFetched
      /\ failed.requestUri = walk.requestUri /\ failed.nextLink = Unset
      /\ failed.pageSize = 0
  BY <1>2, GarbledIs
<1> HIDE DEF failed
<1>4. /\ walk' \in Iterator
      /\ walk'.failing /\ walk'.phase = "ended"
      /\ walk'.walk = walk.walk /\ walk'.lastIsoTimestamp = walk.lastIsoTimestamp
      /\ walk'.totalRecordsFetched = walk.totalRecordsFetched
      /\ walk'.requestUri = walk.requestUri /\ walk'.nextLink = Unset
  BY <1>1, <1>3 DEF Iterator, resumed
<1>5. ProcessInv'
  BY <1>1, <1>2, <1>4 DEF ProcessInv
<1>6. QED BY <1>1, <1>4, <1>5, FailedKeeps

(* What follows a walk leaves it as it ended.                              *)
LEMMA RestKeeps ==
  ASSUME WalkInv, UNCHANGED <<table, clock, plan, unchanged, moved, crowded, fetched>>,
         \/ walk' = walk
         \/ walk.phase = "ended" /\ walk' = [walk EXCEPT !.phase = "reported"],
         outcome' \in {"running", "done"} => outcome \in {"running", "done"},
         todo' \in Seq(Asked)
  PROVE  WalkInv'
<1>1. walk \in Iterator /\ ProcessInv /\ RequestInv /\ RoomInv /\ NextInv /\ PhaseInv /\ EndInv
  BY DEF WalkInv, ProcessInv
<1>2. /\ walk' \in Iterator /\ walk'.walk = walk.walk
      /\ walk'.lastIsoTimestamp = walk.lastIsoTimestamp
      /\ walk'.totalRecordsFetched = walk.totalRecordsFetched
      /\ walk'.requestUri = walk.requestUri /\ walk'.nextLink = walk.nextLink
      /\ walk'.lastRequestUri = walk.lastRequestUri
      /\ walk'.pageSize = walk.pageSize /\ walk'.failing = walk.failing
      /\ walk'.numErrors = walk.numErrors
      /\ \/ walk'.phase = walk.phase
         \/ walk.phase = "ended" /\ walk'.phase = "reported"
  <2>1. CASE walk' = walk
    BY <1>1, <2>1
  <2>2. CASE walk.phase = "ended" /\ walk' = [walk EXCEPT !.phase = "reported"]
    BY <1>1, <2>2 DEF Iterator
  <2>3. QED BY <2>1, <2>2
<1>3. /\ TableInv' /\ PrefixInv' /\ CursorInv'
      /\ (Lost' <=> Lost) /\ due' = due
      /\ (overfull(table, walk.walk)' <=> overfull(table, walk.walk))
  BY <1>2, SteadyKeeps
<1>4. /\ (offsetPaged' <=> offsetPaged) /\ (linked' <=> linked)
      /\ (ascending' <=> ascending) /\ (descending' <=> descending)
      /\ (ended' <=> ended)
  BY <1>2 DEF offsetPaged, linked, ascending, descending, ended
<1>5. ProcessInv'
  BY <1>1, <1>2 DEF ProcessInv
<1>6. RequestInv'
  BY <1>1, <1>2, <1>4 DEF RequestInv
<1>7. RoomInv'
  BY <1>1, <1>2, <1>3, <1>4 DEF RoomInv, sharing
<1>8. NextInv'
  BY <1>1, <1>2, <1>3, <1>4 DEF NextInv
<1>9. PhaseInv'
  BY <1>1, <1>2 DEF PhaseInv
<1>10. EndInv'
  <2>1. finished' => finished
    BY <1>2, <1>4 DEF finished, limitReached
  <2>2. QED BY <1>1, <1>3, <2>1 DEF EndInv
<1>11. QED BY <1>3, <1>5, <1>6, <1>7, <1>8, <1>9, <1>10 DEF WalkInv

LEMMA ReportKeeps ==
  ASSUME WalkInv, Report
  PROVE  WalkInv'
<1>1. /\ UNCHANGED <<table, clock, plan, unchanged, moved, crowded, fetched>>
      /\ UNCHANGED <<outcome, todo>>
      /\ walk.phase = "ended" /\ walk' = [walk EXCEPT !.phase = "reported"]
  BY DEF Report, source, history
<1>2. todo \in Seq(Asked)
  BY DEF WalkInv, ProcessInv
<1>3. QED BY <1>1, <1>2, RestKeeps

LEMMA FinishKeeps ==
  ASSUME WalkInv, Finish
  PROVE  WalkInv'
<1>1. /\ UNCHANGED <<table, clock, plan, unchanged, moved, crowded, fetched>>
      /\ UNCHANGED <<walk, todo>> /\ outcome = "running"
  BY DEF Finish, source, history
<1>2. todo \in Seq(Asked)
  BY DEF WalkInv, ProcessInv
<1>3. QED BY <1>1, <1>2, RestKeeps

(* The walks of a plan ask for all there is.                               *)
LEMMA PlansAsk ==
  ASSUME WalksAskForAll, NEW p \in Plans
  PROVE  p.walks \in Seq(Asked) /\ p.walks # <<>>
<1>1. p.walks \in Seq(Walk) /\ p.walks # <<>>
  BY ReplicationAssumption
<1>2. /\ DOMAIN p.walks = 1 .. Len(p.walks) /\ Len(p.walks) \in Nat
      /\ p.walks \in [1 .. Len(p.walks) -> Walk]
  BY <1>1, SeqIs
<1>3. \A i \in 1 .. Len(p.walks) : p.walks[i] \in Asked
  BY <1>2 DEF WalksAskForAll, Asked
<1>4. p.walks \in [1 .. Len(p.walks) -> Asked]
  BY <1>2, <1>3
<1>5. QED BY <1>1, <1>2, <1>4, SeqDef

LEMMA NextRunKeeps ==
  ASSUME WalksAskForAll, WalkInv, NextRun
  PROVE  WalkInv'
<1>1. /\ UNCHANGED <<table, clock, plan, unchanged, moved, crowded, fetched>>
      /\ UNCHANGED walk /\ outcome = "done" /\ todo' = plan.walks
  BY DEF NextRun, source
<1>2. todo' \in Seq(Asked)
  BY <1>1, PlansAsk DEF WalkInv, ProcessInv
<1>3. QED BY <1>1, <1>2, RestKeeps

LEMMA CountKeeps ==
  ASSUME WalkInv, Count
  PROVE  WalkInv'
<1>1. /\ UNCHANGED <<table, clock, plan, todo, outcome, unchanged, moved, crowded, fetched>>
      /\ walk.phase = "count" /\ walk' = [walk EXCEPT !.phase = "next"]
  BY DEF Count, source, history
<1>2. walk \in Iterator /\ ProcessInv /\ RequestInv /\ RoomInv /\ PhaseInv
  BY DEF WalkInv, ProcessInv
<1>3. /\ walk' \in Iterator /\ walk'.walk = walk.walk
      /\ walk'.lastIsoTimestamp = walk.lastIsoTimestamp
      /\ walk'.totalRecordsFetched = walk.totalRecordsFetched
      /\ walk'.requestUri = walk.requestUri /\ walk'.nextLink = walk.nextLink
      /\ walk'.lastRequestUri = Unset
      /\ walk'.pageSize = walk.pageSize /\ walk'.failing = walk.failing
      /\ walk'.numErrors = walk.numErrors /\ walk'.numErrors <= MaxErrorCount
      /\ walk'.phase = "next"
  BY <1>1, <1>2 DEF Iterator, PhaseInv
<1>4. /\ TableInv' /\ PrefixInv' /\ CursorInv'
      /\ (overfull(table, walk.walk)' <=> overfull(table, walk.walk))
  BY <1>1, <1>3, SteadyKeeps
<1>5. /\ (offsetPaged' <=> offsetPaged) /\ (linked' <=> linked)
      /\ (ascending' <=> ascending) /\ (descending' <=> descending)
      /\ ~ended /\ ~ended'
  BY <1>1, <1>3 DEF offsetPaged, linked, ascending, descending, ended
<1>6. ProcessInv'
  BY <1>1, <1>2, <1>3 DEF ProcessInv
<1>7. RequestInv'
  <2>1. walk.lastRequestUri = Unset
    BY <1>1, <1>2 DEF PhaseInv
  <2>2. QED BY <1>2, <1>3, <1>5, <2>1 DEF RequestInv
<1>8. RoomInv'
  BY <1>1, <1>2, <1>3, <1>4, <1>5 DEF RoomInv
<1>9. NextInv' /\ PhaseInv' /\ EndInv'
  BY <1>3, <1>5 DEF NextInv, PhaseInv, EndInv, finished
<1>10. QED BY <1>4, <1>6, <1>7, <1>8, <1>9 DEF WalkInv

LEMMA BeginKeeps ==
  ASSUME WalkInv, Begin
  PROVE  WalkInv'
<1> DEFINE w == Head(todo)
<1>1. /\ UNCHANGED <<table, clock, plan, outcome>> /\ todo # <<>>
      /\ walk' = iterator(w) /\ todo' = Tail(todo)
      /\ unchanged' = ToSet(table) /\ fetched' = {}
      /\ moved' = FALSE /\ crowded' = overfull(table, w)
  BY DEF Begin, source
<1>2. TableInv /\ isTable(table) /\ ProcessInv /\ todo \in Seq(Asked)
  BY DEF WalkInv, TableInv, ProcessInv, isTable
<1>3. w \in Asked /\ Tail(todo) \in Seq(Asked)
  BY <1>1, <1>2, HeadTailProperties
<1> HIDE DEF w
<1>4. w \in Walk /\ w.query \in Request /\ asksForAll(w)
  BY <1>3 DEF Asked, Walk
<1>5. /\ walk' \in Iterator /\ walk'.walk = w /\ walk'.phase \in {"next", "count"}
      /\ walk'.requestUri = w.query /\ walk'.lastRequestUri = Unset
      /\ walk'.lastIsoTimestamp = Unset /\ walk'.nextLink = Unset
      /\ walk'.pageSize = ClientPageSize /\ walk'.totalRecordsFetched = 0
      /\ walk'.numErrors = 0 /\ ~walk'.failing
  <2>1. ClientPageSize \in Nat /\ 0 \in Nat
    BY ReplicationAssumption
  <2>2. iterator(w) \in Iterator
    BY <1>4, <2>1 DEF iterator, Iterator
  <2>3. QED BY <1>1, <2>2 DEF iterator
<1>6. TableInv'
  BY <1>1, <1>2 DEF TableInv, overfull
<1>7. ProcessInv'
  BY <1>1, <1>2, <1>3, <1>5 DEF ProcessInv
<1>8. RequestInv'
  <2>1. linked' => w.query.top = Unset /\ w.query.skip = 0
    BY <1>4, <1>5 DEF linked, asksForAll
  <2>2. QED BY <1>5, <2>1 DEF RequestInv, topAsked, selectsAs
<1>9. PrefixInv'
  <2>1. inWalksOrder(table)' = selected(table, w.query)
    BY <1>1, <1>5 DEF inWalksOrder
  <2>2. Len(selected(table, w.query)) \in Nat
    BY <1>2, SelectedIs DEF isTable, isAnswer
  <2>3. \A k \in 1 .. Len(selected(table, w.query)) : ~(k <= 0)
    BY <2>2
  <2>4. QED BY <1>5, <2>1, <2>3 DEF PrefixInv
<1>10. CursorInv'
  BY <1>5 DEF CursorInv
<1>11. RoomInv'
  <2>1. crowded' <=> overfull(table, walk.walk)'
    BY <1>1, <1>5 DEF overfull
  <2>2. QED BY <1>5, <2>1 DEF RoomInv
<1>12. NextInv' /\ EndInv'
  BY <1>5 DEF NextInv, EndInv, finished
<1>13. PhaseInv'
  BY <1>5, ReplicationAssumption DEF PhaseInv
<1>14. QED BY <1>6, <1>7, <1>8, <1>9, <1>10, <1>11, <1>12, <1>13 DEF WalkInv

-----------------------------------------------------------------------------
(* A request. *)

(* The next request belongs to the walk and begins where the last ended.   *)
LEMMA BuildIs ==
  ASSUME TableInv, ProcessInv, RequestInv
  PROVE  LET q == buildRequest(walk)
         IN /\ q \in Request
            /\ ~linked => q.top = topAsked(walk.walk)
            /\ offsetPaged => selectsAs(q, walk.walk.query)
            /\ offsetPaged /\ ~linked => q.skip = walk.totalRecordsFetched
            /\ linked => /\ q.top = Unset
                         /\ q = IF walk.nextLink # Unset THEN walk.nextLink ELSE walk.requestUri
            /\ ascending => /\ q.ge = otherwise(walk.lastIsoTimestamp, 0) /\ q.le = Unset
                            /\ q.orderby = "asc" /\ q.skip = 0
            /\ descending => /\ q.ge = Unset /\ q.orderby = "desc" /\ q.skip = 0
                             /\ q.le = otherwise(walk.lastIsoTimestamp, clock)
<1>1. walk \in Iterator /\ walk.walk \in Walk /\ walk.walk \in Asked /\ clock \in Nat
  BY DEF TableInv, ProcessInv, Iterator
<1>2. /\ walk.requestUri \in Request /\ walk.totalRecordsFetched \in Nat
      /\ walk.lastIsoTimestamp \in Int \cup {Unset} /\ walk.nextLink \in Request \cup {Unset}
      /\ walk.pageSize \in Nat
  BY <1>1 DEF Iterator
<1>3. PICK top : top = otherwise(walk.requestUri.top, walk.pageSize)
  OBVIOUS
<1>4. top \in Nat
  BY <1>2, <1>3 DEF Request, otherwise
<1> DEFINE p == [walk.requestUri EXCEPT !.top = top]
<1>5. /\ p \in Request /\ p.top = top /\ p.skip = walk.requestUri.skip
      /\ p.ge = walk.requestUri.ge /\ p.le = walk.requestUri.le
      /\ p.orderby = walk.requestUri.orderby
  BY <1>2, <1>4 DEF Request
<1>6. p = [walk.requestUri EXCEPT !.top = otherwise(@, walk.pageSize)]
  BY <1>3
<1>7. ~linked => top = topAsked(walk.walk)
  BY <1>3 DEF RequestInv
<1> HIDE DEF p
<1>8. CASE walk.walk.strategy \in {"TopAndSkip", "Lookup"}
  <2>1. buildRequest(walk) = [p EXCEPT !.skip = walk.totalRecordsFetched]
    BY <1>6, <1>8 DEF buildRequest
  <2>2. offsetPaged /\ ~linked /\ ~ascending /\ ~descending
    BY <1>8 DEF offsetPaged, linked, ascending, descending
  <2>3. selectsAs(walk.requestUri, walk.walk.query)
    BY <2>2 DEF RequestInv
  <2>4. QED BY <1>2, <1>5, <1>7, <2>1, <2>2, <2>3 DEF Request, selectsAs
<1>9. CASE walk.walk.strategy = "TimestampAsc"
  <2>1. buildRequest(walk) =
          [p EXCEPT !.skip = 0, !.ge = otherwise(walk.lastIsoTimestamp, 0), !.le = Unset,
                    !.orderby = "asc"]
    BY <1>6, <1>9 DEF buildRequest
  <2>2. ~offsetPaged /\ ~linked /\ ~descending
    BY <1>9 DEF offsetPaged, linked, descending
  <2>3. PICK from \in Int : from = otherwise(walk.lastIsoTimestamp, 0)
    BY <1>2 DEF otherwise
  <2>4. PICK r : r = [p EXCEPT !.skip = 0, !.ge = from, !.le = Unset, !.orderby = "asc"]
    OBVIOUS
  <2>5. /\ r \in Request /\ r.top = top /\ r.skip = 0 /\ r.ge = from /\ r.le = Unset
        /\ r.orderby = "asc"
    BY <1>5, <2>4 DEF Request
  <2>6. buildRequest(walk) = r
    BY <2>1, <2>3, <2>4
  <2>7. QED BY <1>7, <2>2, <2>3, <2>5, <2>6
<1>10. CASE walk.walk.strategy = "TimestampDesc"
  <2>1. buildRequest(walk) =
          [p EXCEPT !.skip = 0, !.le = otherwise(walk.lastIsoTimestamp, clock), !.ge = Unset,
                    !.orderby = "desc"]
    BY <1>6, <1>10 DEF buildRequest
  <2>2. ~offsetPaged /\ ~linked /\ ~ascending
    BY <1>10 DEF offsetPaged, linked, ascending
  <2>3. PICK to \in Int : to = otherwise(walk.lastIsoTimestamp, clock)
    BY <1>1, <1>2 DEF otherwise
  <2>4. PICK r : r = [p EXCEPT !.skip = 0, !.le = to, !.ge = Unset, !.orderby = "desc"]
    OBVIOUS
  <2>5. /\ r \in Request /\ r.top = top /\ r.skip = 0 /\ r.le = to /\ r.ge = Unset
        /\ r.orderby = "desc"
    BY <1>5, <2>4 DEF Request
  <2>6. buildRequest(walk) = r
    BY <2>1, <2>3, <2>4
  <2>7. QED BY <1>7, <2>2, <2>3, <2>5, <2>6
<1>11. CASE walk.walk.strategy = "NextLink"
  <2>1. buildRequest(walk) = otherwise(walk.nextLink, walk.requestUri)
    BY <1>11 DEF buildRequest
  <2>2. offsetPaged /\ linked /\ ~ascending /\ ~descending
    BY <1>11 DEF offsetPaged, linked, ascending, descending
  <2>3. CASE walk.nextLink = Unset
    BY <1>2, <2>1, <2>2, <2>3 DEF RequestInv, otherwise
  <2>4. CASE walk.nextLink # Unset
    BY <1>2, <2>1, <2>2, <2>4 DEF RequestInv, otherwise
  <2>5. QED BY <2>3, <2>4
<1>12. walk.walk.strategy \in Strategies
  BY <1>1 DEF Walk
<1>13. QED BY <1>8, <1>9, <1>10, <1>11, <1>12 DEF Strategies

LEMMA SendKeeps ==
  ASSUME WalkInv, Send
  PROVE  WalkInv'
<1> DEFINE q == buildRequest(walk)
           stops == walk.walk.strategy # "Lookup" /\ q = walk.lastRequestUri
<1>1. /\ UNCHANGED <<table, clock, plan, todo, outcome, unchanged, moved, crowded, fetched>>
      /\ walk.phase = "next"
      /\ walk' = IF stops THEN [walk EXCEPT !.phase = "ended"]
                 ELSE [walk EXCEPT !.phase = "sent", !.requestUri = q, !.owing = FALSE]
  BY DEF Send, source, history
<1>2. /\ TableInv /\ ProcessInv /\ RequestInv /\ RoomInv /\ NextInv /\ PhaseInv
      /\ isTable(table)
  BY DEF WalkInv, TableInv, isTable
<1>3. /\ q \in Request
      /\ ~linked => q.top = topAsked(walk.walk)
      /\ offsetPaged => selectsAs(q, walk.walk.query)
      /\ offsetPaged /\ ~linked => q.skip = walk.totalRecordsFetched
      /\ linked => /\ q.top = Unset
                   /\ q = IF walk.nextLink # Unset THEN walk.nextLink ELSE walk.requestUri
      /\ ascending => /\ q.ge = otherwise(walk.lastIsoTimestamp, 0) /\ q.le = Unset
                      /\ q.orderby = "asc" /\ q.skip = 0
      /\ descending => /\ q.ge = Unset /\ q.orderby = "desc" /\ q.skip = 0
                       /\ q.le = otherwise(walk.lastIsoTimestamp, clock)
  BY <1>2, BuildIs
<1> HIDE DEF q
<1>4. /\ walk \in Iterator /\ walk.walk \in Asked /\ walk.lastIsoTimestamp \in Int \cup {Unset}
      /\ clock \in Nat \ {0} /\ Unset \notin Int /\ walk.walk.strategy \in Strategies
  BY <1>2, PagingAssumption DEF TableInv, ProcessInv, Iterator, Walk
<1>5. CASE stops
  <2>1. /\ walk' \in Iterator /\ walk'.walk = walk.walk
        /\ walk'.lastIsoTimestamp = walk.lastIsoTimestamp
        /\ walk'.totalRecordsFetched = walk.totalRecordsFetched
        /\ walk'.requestUri = walk.requestUri /\ walk'.nextLink = walk.nextLink
        /\ walk'.lastRequestUri = walk.lastRequestUri
        /\ walk'.pageSize = walk.pageSize /\ walk'.failing = walk.failing
        /\ walk'.phase = "ended"
    BY <1>1, <1>4, <1>5 DEF Iterator
  <2>2. /\ TableInv' /\ PrefixInv' /\ CursorInv' /\ (Lost' <=> Lost) /\ due' = due
    BY <1>1, <2>1, SteadyKeeps
  <2>3. /\ (offsetPaged' <=> offsetPaged) /\ (linked' <=> linked)
        /\ (ascending' <=> ascending) /\ (descending' <=> descending)
        /\ ended'
    BY <2>1 DEF offsetPaged, linked, ascending, descending, ended
  <2>4. ProcessInv'
    BY <1>1, <1>2, <2>1 DEF ProcessInv
  <2>5. RequestInv'
    BY <1>2, <2>1, <2>3 DEF RequestInv
  <2>6. RoomInv' /\ NextInv' /\ PhaseInv'
    BY <2>1, <2>3 DEF RoomInv, NextInv, PhaseInv
  <2>7. ~walk.failing /\ walk.lastRequestUri # Unset => Lost \/ due \subseteq fetched
    <3>1. SUFFICES ASSUME ~walk.failing, walk.lastRequestUri # Unset
                   PROVE  Lost \/ due \subseteq fetched
      OBVIOUS
    <3>2. q = walk.lastRequestUri
      BY <1>5
    <3>3. walk.totalRecordsFetched \in Nat
      BY <1>4 DEF Iterator
    <3>4. CASE walk.walk.strategy = "TopAndSkip"
      <4>1. offsetPaged /\ ~linked
        BY <3>4 DEF offsetPaged, linked
      <4>2. q.skip < walk.totalRecordsFetched
        BY <1>1, <1>2, <3>1, <3>2, <3>4 DEF NextInv
      <4>3. QED BY <1>3, <3>3, <4>1, <4>2
    <3>5. CASE linked
      <4>1. CASE walk.nextLink = Unset
        BY <1>1, <1>2, <3>1, <3>5, <4>1 DEF NextInv
      <4>2. CASE walk.nextLink # Unset
        <5>1. q.skip < walk.totalRecordsFetched
          BY <1>1, <1>2, <3>1, <3>2, <3>5, <4>2 DEF NextInv
        <5>2. q = walk.nextLink /\ walk.nextLink.skip = walk.totalRecordsFetched
          BY <1>2, <1>3, <3>5, <4>2 DEF RequestInv
        <5>3. QED BY <3>3, <5>1, <5>2
      <4>3. QED BY <4>1, <4>2
    <3>6. CASE ascending
      <4>1. walk.lastIsoTimestamp # Unset /\ q.ge # walk.lastIsoTimestamp
        BY <1>1, <1>2, <3>1, <3>2, <3>6 DEF NextInv
      <4>2. QED BY <1>3, <3>6, <4>1 DEF otherwise
    <3>7. CASE descending
      <4>1. /\ walk.lastIsoTimestamp # Unset
            /\ q.le = walk.lastIsoTimestamp => Lost \/ due \subseteq fetched
        BY <1>1, <1>2, <3>1, <3>2, <3>7 DEF NextInv
      <4>2. QED BY <1>3, <3>7, <4>1 DEF otherwise
    <3>8. QED BY <1>4, <1>5, <3>4, <3>5, <3>6, <3>7
              DEF Strategies, linked, ascending, descending
  <2>8. EndInv'
    BY <1>1, <2>1, <2>2, <2>7 DEF EndInv, finished
  <2>9. QED BY <2>2, <2>4, <2>5, <2>6, <2>8 DEF WalkInv
<1>6. CASE ~stops
  <2>1. /\ walk' \in Iterator /\ walk'.walk = walk.walk
        /\ walk'.lastIsoTimestamp = walk.lastIsoTimestamp
        /\ walk'.totalRecordsFetched = walk.totalRecordsFetched
        /\ walk'.requestUri = q /\ walk'.nextLink = walk.nextLink
        /\ walk'.lastRequestUri = walk.lastRequestUri
        /\ walk'.pageSize = walk.pageSize /\ walk'.failing = walk.failing
        /\ walk'.phase = "sent" /\ walk'.numErrors = walk.numErrors
    BY <1>1, <1>3, <1>4, <1>6 DEF Iterator
  <2>2. /\ TableInv' /\ PrefixInv' /\ CursorInv'
        /\ (overfull(table, walk.walk)' <=> overfull(table, walk.walk))
    BY <1>1, <2>1, SteadyKeeps
  <2>3. /\ (offsetPaged' <=> offsetPaged) /\ (linked' <=> linked)
        /\ (ascending' <=> ascending) /\ (descending' <=> descending)
        /\ ~ended /\ ~ended'
    BY <1>1, <2>1 DEF offsetPaged, linked, ascending, descending, ended
  <2>4. ProcessInv'
    BY <1>1, <1>2, <2>1 DEF ProcessInv
  <2>5. RequestInv'
    <3>1. topAsked(walk.walk) # Unset
      BY <1>4, LimitIs
    <3>2. ~linked => otherwise(q.top, walk.pageSize) = topAsked(walk.walk)
      BY <1>3, <3>1 DEF otherwise
    <3>3. linked => offsetPaged
      BY DEF linked, offsetPaged
    <3>4. linked /\ walk.nextLink # Unset =>
            /\ selectsAs(walk.nextLink, walk.walk.query) /\ walk.nextLink.top = Unset
            /\ walk.nextLink.skip = walk.totalRecordsFetched
      BY <1>2 DEF RequestInv
    <3>5. linked => q.skip = walk.totalRecordsFetched
      <4>1. CASE walk.nextLink # Unset
        BY <1>3, <3>4, <4>1
      <4>2. CASE walk.nextLink = Unset /\ (walk.lastRequestUri = Unset \/ walk.failing)
        BY <1>2, <1>3, <4>2 DEF RequestInv
      <4>3. CASE walk.nextLink = Unset /\ walk.lastRequestUri # Unset /\ ~walk.failing
        <5>1. walk.lastRequestUri = walk.requestUri
          BY <1>1, <1>2, <4>3 DEF PhaseInv
        <5>2. linked => q = walk.requestUri /\ walk.walk.strategy # "Lookup"
          BY <1>3, <4>3 DEF linked
        <5>3. QED BY <1>6, <5>1, <5>2
      <4>4. QED BY <4>1, <4>2, <4>3
    <3>6. ascending => /\ q.ge = otherwise(walk.lastIsoTimestamp, 0) /\ q.le = Unset
                       /\ q.orderby = "asc" /\ q.skip = 0
      BY <1>3
    <3>7. descending => /\ q.ge = Unset /\ q.le \in Int /\ q.orderby = "desc" /\ q.skip = 0
                        /\ walk.lastIsoTimestamp # Unset => q.le = walk.lastIsoTimestamp
      BY <1>3, <1>4 DEF otherwise
    <3>8. QED BY <1>3, <2>1, <2>3, <3>2, <3>3, <3>4, <3>5, <3>6, <3>7 DEF RequestInv
  <2>6. RoomInv'
    <3>1. SUFFICES ASSUME ~crowded
                   PROVE  /\ ~overfull(table, walk.walk)
                          /\ descending /\ walk.lastIsoTimestamp = Unset =>
                               /\ q.le <= clock /\ \A r \in unchanged : r.timestamp <= q.le
                               /\ Cardinality(sharing(table, q.le)) < limitOf(walk.walk)
      BY <1>1, <2>1, <2>2, <2>3 DEF RoomInv
    <3>2. ~overfull(table, walk.walk)
      BY <1>2, <2>3, <3>1 DEF RoomInv
    <3>3. ASSUME descending, walk.lastIsoTimestamp = Unset
          PROVE  /\ q.le <= clock /\ \A r \in unchanged : r.timestamp <= q.le
                 /\ Cardinality(sharing(table, q.le)) < limitOf(walk.walk)
      <4>1. q.le = clock
        BY <1>3, <3>3 DEF otherwise
      <4>2. \A r \in unchanged : r.timestamp <= clock
        BY <1>2 DEF TableInv
      <4>3. Cardinality(sharing(table, clock)) < limitOf(walk.walk)
        BY <1>2, <1>4, <3>2, RoomIs
      <4>4. QED BY <1>4, <4>1, <4>2, <4>3
    <3>4. QED BY <3>2, <3>3
  <2>7. NextInv' /\ EndInv'
    BY <2>1, <2>3 DEF NextInv, EndInv, finished
  <2>8. PhaseInv'
    BY <1>1, <1>2, <2>1 DEF PhaseInv
  <2>9. QED BY <2>2, <2>4, <2>5, <2>6, <2>7, <2>8 DEF WalkInv
<1>7. QED BY <1>5, <1>6

-----------------------------------------------------------------------------
(* A page. *)

(* The request as a server takes it that may ignore $skip.                 *)
servedAs == IF plan.honoursSkip THEN walk.requestUri ELSE [walk.requestUri EXCEPT !.skip = 0]

roomOf == fetchLimit(walk.requestUri, walk.walk.prefer)

LEMMA ServedIs ==
  ASSUME ProcessInv, RequestInv, walk.phase = "sent", isTable(table)
  PROVE  /\ walk.requestUri \in Request /\ servedAs \in Request
         /\ selectsAs(servedAs, walk.requestUri)
         /\ servedAs.skip = IF plan.honoursSkip THEN walk.requestUri.skip ELSE 0
         /\ roomOf \in Nat \ {0} /\ (~linked => roomOf = limitOf(walk.walk))
         /\ isAnswer(selected(table, servedAs), table, servedAs)
         /\ isSlice(served, selected(table, servedAs), servedAs.skip, roomOf)
<1> DEFINE q == walk.requestUri
           prefer == walk.walk.prefer
<1>1. walk \in Iterator /\ walk.walk \in Asked /\ q \in Request /\ q.skip \in Nat
  BY DEF ProcessInv, Iterator, Request
<1>2. /\ servedAs \in Request /\ servedAs.top = q.top /\ selectsAs(servedAs, q)
      /\ servedAs.skip = IF plan.honoursSkip THEN q.skip ELSE 0
  <2>1. CASE plan.honoursSkip
    BY <1>1, <2>1 DEF servedAs, selectsAs
  <2>2. CASE ~plan.honoursSkip
    BY <1>1, <2>2 DEF servedAs, selectsAs, Request
  <2>3. QED BY <2>1, <2>2
<1>3. fetchLimit(servedAs, prefer) = fetchLimit(q, prefer)
  BY <1>2 DEF fetchLimit
<1>4. q.top # 0
  <2>1. CASE linked
    BY <2>1, PagingAssumption DEF RequestInv
  <2>2. CASE ~linked
    BY <1>1, <2>2, LimitIs DEF RequestInv
  <2>3. QED BY <2>1, <2>2
<1>5. roomOf \in Nat \ {0} /\ (~linked => roomOf = limitOf(walk.walk))
  <2>1. fetchLimit(q, prefer) \in Nat \ {0}
    BY <1>1, <1>4, LimitIs
  <2>2. ~linked => fetchLimit(q, prefer) = limitOf(walk.walk)
    BY <1>1, LimitIs DEF RequestInv
  <2>3. QED BY <2>1, <2>2 DEF roomOf
<1>6. isAnswer(selected(table, servedAs), table, servedAs)
  BY SelectedIs DEF isTable
<1>7. isSlice(served, selected(table, servedAs), servedAs.skip, roomOf)
  <2>1. served = page(table, servedAs, prefer)
    BY DEF served, servedAs
  <2>2. fetchLimit(servedAs, prefer) = roomOf
    BY <1>3 DEF roomOf
  <2>3. QED BY <1>2, <1>5, <2>1, <2>2, PageIs DEF isTable
<1>8. QED BY <1>1, <1>2, <1>5, <1>6, <1>7

(* The records of a page are records of the collection that match.         *)
LEMMA ServedAreRecords ==
  ASSUME ProcessInv, RequestInv, walk.phase = "sent", isTable(table)
  PROVE  /\ isTable(served) /\ Len(served) \in Nat /\ Len(served) <= roomOf
         /\ \A x \in ToSet(served) : x \in ToSet(table) /\ matches(x, walk.requestUri)
<1> DEFINE all == selected(table, servedAs)
           skip == servedAs.skip
<1>1. /\ isAnswer(all, table, servedAs) /\ isSlice(served, all, skip, roomOf)
      /\ servedAs \in Request /\ selectsAs(servedAs, walk.requestUri)
      /\ roomOf \in Nat
  BY ServedIs
<1>2. skip \in Nat
  BY <1>1 DEF Request
<1>3. \A x : matches(x, servedAs) <=> matches(x, walk.requestUri)
  BY <1>1, SameSelection DEF isTable
<1> HIDE DEF all, skip
<1>4. /\ served \in Seq(Record(Keys)) /\ Len(served) \in Nat
      /\ \A i \in 1 .. Len(served) : skip + i \in 1 .. Len(all) /\ served[i] = all[skip + i]
  BY <1>1 DEF isSlice
<1>5. Len(served) <= roomOf
  <2>1. Len(all) \in Nat
    BY <1>1 DEF isAnswer
  <2>2. Len(served) = IF skip >= Len(all) THEN 0
                      ELSE IF Len(all) - skip <= roomOf THEN Len(all) - skip ELSE roomOf
    BY <1>1 DEF isSlice
  <2>3. QED BY <1>1, <1>2, <2>1, <2>2
<1>6. DOMAIN served = 1 .. Len(served)
  BY <1>4, SeqIs
<1>7. ASSUME NEW i \in 1 .. Len(served), NEW j \in 1 .. Len(served),
             served[i].key = served[j].key
      PROVE  i = j
  <2>1. \A k, m \in 1 .. Len(all) : all[k].key = all[m].key => k = m
    BY <1>1 DEF isAnswer
  <2>2. skip + i = skip + j
    BY <1>4, <1>7, <2>1
  <2>3. QED BY <1>2, <1>4, <2>2
<1>8. isTable(served)
  BY <1>4, <1>6, <1>7 DEF isTable, uniqueKeys
<1>9. ASSUME NEW x \in ToSet(served)
      PROVE  x \in ToSet(table) /\ matches(x, walk.requestUri)
  <2>1. PICK i \in 1 .. Len(served) : served[i] = x
    BY <1>6 DEF ToSet
  <2>2. skip + i \in 1 .. Len(all) /\ x = all[skip + i]
    BY <1>4, <2>1
  <2>3. \A k \in 1 .. Len(all) : all[k] \in ToSet(table) /\ matches(all[k], servedAs)
    BY <1>1 DEF isAnswer
  <2>4. QED BY <1>3, <2>2, <2>3
<1>10. QED BY <1>4, <1>5, <1>8, <1>9

(* The records of one timestamp are as many as a page of them, and more if *)
(* one is not on the page.                                                 *)
LEMMA SharersOf ==
  ASSUME NEW t, isTable(t), NEW records, isTable(records), ToSet(records) \subseteq ToSet(t),
         NEW time, \A x \in ToSet(records) : x.timestamp = time
  PROVE  /\ Len(records) <= Cardinality(sharing(t, time))
         /\ \A r \in ToSet(t) : r.timestamp = time /\ r \notin ToSet(records) =>
              Len(records) < Cardinality(sharing(t, time))
<1> DEFINE S == sharing(t, time)
           R == ToSet(records)
<1>1. IsFiniteSet(S) /\ Cardinality(S) \in Nat
  BY SharingIs
<1>2. IsFiniteSet(R) /\ Cardinality(R) = Len(records)
  BY SizeIs
<1>3. R \in SUBSET S
  BY DEF sharing
<1>4. /\ Cardinality(R) <= Cardinality(S)
      /\ Cardinality(S) = Cardinality(R) => S = R
  BY <1>1, <1>3, FS_Subset
<1>5. Cardinality(R) \in Nat
  BY <1>2, FS_CardinalityType
<1>6. ASSUME NEW r \in ToSet(t), r.timestamp = time, r \notin R
      PROVE  Len(records) < Cardinality(S)
  <2>1. r \in S
    BY <1>6 DEF sharing
  <2>2. Cardinality(S) # Cardinality(R)
    BY <1>4, <1>6, <2>1
  <2> HIDE DEF S, R
  <2>3. QED BY <1>1, <1>2, <1>4, <1>5, <2>2
<1>7. QED BY <1>2, <1>4, <1>6

(* A record that matches and is not on the first page of a walk by         *)
(* timestamp is behind a full page of records.                             *)
LEMMA NotServed ==
  ASSUME ProcessInv, RequestInv, walk.phase = "sent", isTable(table), ascending \/ descending,
         NEW r \in ToSet(table), matches(r, walk.requestUri), r \notin ToSet(served)
  PROVE  /\ Len(served) = limitOf(walk.walk)
         /\ ascending => \A x \in ToSet(served) : x.timestamp <= r.timestamp
         /\ descending => \A x \in ToSet(served) : r.timestamp <= x.timestamp
<1> DEFINE all == selected(table, servedAs)
           room == roomOf
<1>1. ~linked /\ ~offsetPaged
  BY DEF ascending, descending, linked, offsetPaged
<1>2. /\ isAnswer(all, table, servedAs) /\ isSlice(served, all, 0, room)
      /\ selectsAs(servedAs, walk.requestUri)
      /\ room \in Nat \ {0} /\ room = limitOf(walk.walk)
  <2>1. walk.requestUri.skip = 0
    BY DEF RequestInv
  <2>2. servedAs.skip = 0
    BY <2>1, ServedIs
  <2>3. isSlice(served, all, servedAs.skip, room)
    BY ServedIs
  <2>4. QED BY <1>1, <2>2, <2>3, ServedIs
<1>3. matches(r, servedAs)
  BY <1>2, SameSelection DEF isTable
<1>4. /\ ascending => servedAs.orderby = "asc"
      /\ descending => servedAs.orderby = "desc"
  BY <1>2 DEF RequestInv, selectsAs
<1> HIDE DEF all, room
<1>5. PICK k \in 1 .. Len(all) : all[k] = r
  BY <1>2, <1>3 DEF isAnswer
<1>6. /\ Len(all) \in Nat /\ Len(served) \in Nat
      /\ Len(served) = IF 0 >= Len(all) THEN 0
                       ELSE IF Len(all) - 0 <= room THEN Len(all) - 0 ELSE room
      /\ \A i \in 1 .. Len(served) : 0 + i \in 1 .. Len(all) /\ served[i] = all[0 + i]
      /\ served \in Seq(Record(Keys))
  BY <1>2 DEF isSlice, isAnswer
<1>7. \A i \in 1 .. Len(served) : i \in 1 .. Len(all) /\ served[i] = all[i]
  <2>1. ASSUME NEW i \in 1 .. Len(served) PROVE i \in 1 .. Len(all) /\ served[i] = all[i]
    <3>1. 0 + i = i
      BY <1>6
    <3>2. QED BY <1>6, <3>1
  <2>2. QED BY <2>1
<1>8. DOMAIN served = 1 .. Len(served)
  BY <1>6, SeqIs
<1>9. ~(k <= Len(served))
  <2>1. SUFFICES ASSUME k <= Len(served) PROVE FALSE
    OBVIOUS
  <2>2. k \in 1 .. Len(served)
    BY <1>6, <2>1
  <2>3. r \in ToSet(served)
    BY <1>5, <1>7, <1>8, <2>2 DEF ToSet
  <2>4. QED BY <2>3
<1>10. Len(served) = room
  BY <1>2, <1>6, <1>9
<1>11. ASSUME NEW x \in ToSet(served)
       PROVE  /\ ascending => x.timestamp <= r.timestamp
              /\ descending => r.timestamp <= x.timestamp
  <2>1. PICK i \in 1 .. Len(served) : served[i] = x
    BY <1>8 DEF ToSet
  <2>2. i \in 1 .. Len(all) /\ all[i] = x /\ i < k
    BY <1>6, <1>7, <1>9, <2>1
  <2>3. /\ ascending =>
             \A m, n \in 1 .. Len(all) : m < n => all[m].timestamp <= all[n].timestamp
        /\ descending =>
             \A m, n \in 1 .. Len(all) : m < n => all[n].timestamp <= all[m].timestamp
    BY <1>2, <1>4 DEF isAnswer
  <2>4. QED BY <1>5, <2>2, <2>3
<1>12. QED BY <1>2, <1>10, <1>11

(* The boundary of a page.                                                 *)
LEMMA BoundaryIs ==
  ASSUME NEW records, isTable(records), Len(records) # 0, NEW n \in Nat,
         \A x \in ToSet(records) : x.timestamp <= n
  PROVE  /\ \E x \in ToSet(records) : x.timestamp = Max(timestamps(records))
         /\ \E x \in ToSet(records) : x.timestamp = Min(timestamps(records))
         /\ \A x \in ToSet(records) : /\ x.timestamp <= Max(timestamps(records))
                                      /\ Min(timestamps(records)) <= x.timestamp
<1> DEFINE S == timestamps(records)
<1>1. S = {x.timestamp : x \in ToSet(records)}
  BY DEF timestamps, ToSet
<1>2. \A x \in ToSet(records) : x.timestamp \in Nat
  <2>1. ToSet(records) \subseteq Record(Keys)
    BY SeqIs DEF isTable
  <2>2. QED BY <2>1 DEF Record
<1>3. S \in SUBSET (0 .. n) /\ S \in SUBSET Nat
  BY <1>1, <1>2
<1>4. S # {}
  <2>1. DOMAIN records = 1 .. Len(records) /\ Len(records) \in Nat
    BY SeqIs DEF isTable
  <2>2. 1 \in DOMAIN records
    BY <2>1
  <2>3. QED BY <2>2 DEF timestamps
<1> HIDE DEF S
<1>5. Max(S) \in S /\ \A y \in S : y <= Max(S)
  BY <1>3, <1>4, MaxIsGreatest
<1>6. Min(S) \in S /\ \A y \in S : Min(S) <= y
  BY <1>3, <1>4, MinIsLeast
<1>7. QED BY <1>1, <1>5, <1>6 DEF S

(* What the three ways of taking a page have in common.                    *)
Receives ==
  /\ walk.phase = "sent"
  /\ UNCHANGED <<table, clock, plan, todo, unchanged, moved, crowded>>
  /\ fetched' = fetched \cup ToSet(served)
  /\ walk' \in Iterator /\ walk'.walk = walk.walk
  /\ walk'.requestUri = walk.requestUri /\ walk'.lastRequestUri = walk.requestUri
  /\ walk'.lastIsoTimestamp = computeLastIsoTimestamp(answered, served)
  /\ walk'.totalRecordsFetched = walk.totalRecordsFetched + Len(served)
  /\ walk'.numErrors = walk.numErrors /\ ~walk'.failing
  /\ \/ walk'.nextLink = link(served)
     \/ walk'.nextLink = Unset /\ ~linked
  /\ walk'.phase \in {"next", "ended"}
  /\ walk'.phase = "next" => Len(served) # 0
  /\ finished' => Len(served) = 0

LEMMA SameWalk ==
  ASSUME Receives
  PROVE  /\ (offsetPaged' <=> offsetPaged) /\ (linked' <=> linked)
         /\ (ascending' <=> ascending) /\ (descending' <=> descending)
         /\ (Lost' <=> Lost) /\ due' = due
         /\ (overfull(table, walk.walk)' <=> overfull(table, walk.walk))
<1>1. /\ walk'.walk = walk.walk /\ UNCHANGED <<table, clock, unchanged, moved, crowded>>
  BY DEF Receives
<1>2. QED BY <1>1 DEF offsetPaged, linked, ascending, descending, Lost, due, overfull

(* By offset, the answer from which a page is cut is the walk's.           *)
LEMMA OffsetAnswerIs ==
  ASSUME WalkInv, walk.phase = "sent", offsetPaged
  PROVE  /\ selected(table, servedAs) = inWalksOrder(table)
         /\ Len(inWalksOrder(table)) \in Nat /\ walk.totalRecordsFetched \in Nat
         /\ walk.requestUri.skip = walk.totalRecordsFetched
         /\ \A i \in 1 .. Len(served) :
              servedAs.skip + i \in 1 .. Len(inWalksOrder(table))
              /\ served[i] = inWalksOrder(table)[servedAs.skip + i]
         /\ Len(served) = IF servedAs.skip >= Len(inWalksOrder(table)) THEN 0
                          ELSE IF Len(inWalksOrder(table)) - servedAs.skip <= roomOf
                          THEN Len(inWalksOrder(table)) - servedAs.skip ELSE roomOf
         /\ \A r \in due : \E k \in 1 .. Len(inWalksOrder(table)) : inWalksOrder(table)[k] = r
<1>1. ProcessInv /\ RequestInv /\ TableInv /\ isTable(table)
  BY DEF WalkInv, TableInv, isTable
<1>2. selectsAs(servedAs, walk.requestUri) /\ selectsAs(walk.requestUri, walk.walk.query)
  BY <1>1, ServedIs DEF RequestInv
<1>3. selectsAs(servedAs, walk.walk.query)
  BY <1>2 DEF selectsAs
<1>4. selected(table, servedAs) = inWalksOrder(table)
  BY <1>1, <1>3, SameSelection DEF isTable, inWalksOrder
<1> DEFINE all == inWalksOrder(table)
<1>5. isSlice(served, all, servedAs.skip, roomOf)
  BY <1>1, <1>4, ServedIs
<1>6. isAnswer(all, table, walk.walk.query)
  BY <1>1, SelectedIs DEF isTable, inWalksOrder
<1>7. walk.requestUri.skip = walk.totalRecordsFetched /\ walk.totalRecordsFetched \in Nat
  BY <1>1 DEF RequestInv, ProcessInv, Iterator
<1>8. \A r \in due : r \in ToSet(table) /\ matches(r, walk.walk.query)
  BY <1>1 DEF due, offsetPaged, TableInv
<1> HIDE DEF all
<1>9. /\ Len(all) \in Nat
      /\ \A r \in due : \E k \in 1 .. Len(all) : all[k] = r
  BY <1>6, <1>8 DEF isAnswer
<1>10. /\ \A i \in 1 .. Len(served) :
            servedAs.skip + i \in 1 .. Len(all) /\ served[i] = all[servedAs.skip + i]
       /\ Len(served) = IF servedAs.skip >= Len(all) THEN 0
                        ELSE IF Len(all) - servedAs.skip <= roomOf
                        THEN Len(all) - servedAs.skip ELSE roomOf
  BY <1>5 DEF isSlice
<1>11. QED BY <1>4, <1>7, <1>9, <1>10 DEF all

LEMMA ServedPlaces ==
  ASSUME WalkInv, walk.phase = "sent"
  PROVE  /\ Len(served) \in Nat /\ Len(served) <= roomOf /\ roomOf \in Nat \ {0}
         /\ \A i \in 1 .. Len(served) : served[i] \in ToSet(served)
         /\ (served = <<>> <=> Len(served) = 0)
         /\ Len(served) = 0 => ToSet(served) = {}
<1>1. ProcessInv /\ RequestInv /\ isTable(table)
  BY DEF WalkInv, TableInv, isTable
<1>2. /\ isTable(served) /\ Len(served) \in Nat /\ Len(served) <= roomOf
      /\ roomOf \in Nat \ {0}
  BY <1>1, ServedAreRecords, ServedIs
<1>3. /\ \A i \in 1 .. Len(served) : served[i] \in ToSet(served)
      /\ (served = <<>> <=> Len(served) = 0)
      /\ \A x : x \in ToSet(served) <=> \E i \in 1 .. Len(served) : served[i] = x
  BY <1>2, SeqIs DEF isTable
<1>4. Len(served) = 0 => ToSet(served) = {}
  BY <1>3
<1>5. QED BY <1>2, <1>3, <1>4

LEMMA PrefixReceives ==
  ASSUME WalkInv, Receives
  PROVE  PrefixInv'
<1> DEFINE all == inWalksOrder(table)
           total == walk.totalRecordsFetched
<1>1. /\ walk.phase = "sent" /\ UNCHANGED <<table, plan, unchanged, moved>>
      /\ walk'.walk = walk.walk /\ walk'.totalRecordsFetched = total + Len(served)
      /\ fetched' = fetched \cup ToSet(served)
  BY DEF Receives
<1>2. all' = all
  BY <1>1 DEF inWalksOrder
<1>3. SUFFICES ASSUME offsetPaged, plan.honoursSkip, ~moved,
                      NEW k \in 1 .. Len(all), k <= total + Len(served), all[k] \in unchanged
               PROVE  all[k] \in fetched \cup ToSet(served)
  BY <1>1, <1>2, SameWalk DEF PrefixInv
<1>4. /\ Len(all) \in Nat /\ total \in Nat
      /\ \A i \in 1 .. Len(served) : served[i] = all[total + i]
  <2>1. servedAs.skip = total
    BY <1>1, <1>3, OffsetAnswerIs DEF servedAs
  <2>2. QED BY <1>1, <1>3, <2>1, OffsetAnswerIs
<1>5. PrefixInv
  BY DEF WalkInv
<1>6. Len(served) \in Nat /\ \A i \in 1 .. Len(served) : served[i] \in ToSet(served)
  BY <1>1, ServedPlaces
<1>7. CASE k <= total
  BY <1>3, <1>5, <1>7 DEF PrefixInv
<1>8. CASE ~(k <= total)
  <2> HIDE DEF all, total
  <2>1. PICK i \in Nat : i = k - total
    BY <1>4, <1>8
  <2>2. i \in 1 .. Len(served) /\ total + i = k
    BY <1>3, <1>4, <1>6, <1>8, <2>1
  <2>3. QED BY <1>4, <1>6, <2>2
<1>9. QED BY <1>7, <1>8

(* A page that is not full is the last.                                    *)
LEMMA OffsetEnds ==
  ASSUME WalkInv, Receives, offsetPaged, ~moved, Len(served) # roomOf
  PROVE  due \subseteq fetched'
<1> DEFINE all == inWalksOrder(table)
           total == walk.totalRecordsFetched
           skip == servedAs.skip
<1>1. walk.phase = "sent" /\ fetched' = fetched \cup ToSet(served)
  BY DEF Receives
<1>2. SUFFICES ASSUME NEW r \in due PROVE r \in fetched \cup ToSet(served)
  BY <1>1
<1>3. PICK k \in 1 .. Len(all) : all[k] = r
  BY <1>1, OffsetAnswerIs
<1>4. /\ Len(all) \in Nat /\ total \in Nat /\ walk.requestUri.skip = total
      /\ \A i \in 1 .. Len(served) : served[i] = all[skip + i]
      /\ Len(served) = IF skip >= Len(all) THEN 0
                       ELSE IF Len(all) - skip <= roomOf THEN Len(all) - skip ELSE roomOf
  BY <1>1, OffsetAnswerIs
<1>5. /\ Len(served) \in Nat /\ roomOf \in Nat \ {0}
      /\ \A i \in 1 .. Len(served) : served[i] \in ToSet(served)
  BY <1>1, ServedPlaces
<1>6. skip = IF plan.honoursSkip THEN total ELSE 0
  <2>1. ProcessInv /\ RequestInv /\ isTable(table)
    BY DEF WalkInv, TableInv, isTable
  <2>2. skip = IF plan.honoursSkip THEN walk.requestUri.skip ELSE 0
    BY <1>1, <2>1, ServedIs
  <2>3. QED BY <1>4, <2>2
<1>7. PrefixInv /\ r \in unchanged
  BY DEF WalkInv, due
<1> HIDE DEF all, total, skip
<1>8. skip + Len(served) >= Len(all) /\ skip \in Nat
  <2>1. skip \in Nat
    BY <1>4, <1>6
  <2>2. Len(served) # roomOf
    OBVIOUS
  <2>3. CASE skip >= Len(all)
    BY <1>4, <1>5, <2>1, <2>3
  <2>4. CASE ~(skip >= Len(all)) /\ Len(all) - skip <= roomOf
    BY <1>4, <1>5, <2>1, <2>4
  <2>5. CASE ~(skip >= Len(all)) /\ ~(Len(all) - skip <= roomOf)
    BY <1>4, <2>2, <2>5
  <2>6. QED BY <2>1, <2>3, <2>4, <2>5
<1>9. CASE k <= skip
  <2>1. plan.honoursSkip /\ k <= total
    BY <1>4, <1>6, <1>9
  <2>2. QED BY <1>3, <1>7, <2>1 DEF PrefixInv, all, total
<1>10. CASE ~(k <= skip)
  <2>1. PICK i \in Nat : i = k - skip
    BY <1>4, <1>8, <1>10
  <2>2. i \in 1 .. Len(served) /\ skip + i = k
    BY <1>4, <1>5, <1>8, <1>10, <2>1
  <2>3. QED BY <1>3, <1>4, <1>5, <2>2
<1>11. QED BY <1>9, <1>10

(* The cursor moves to the boundary of the page, or past it.               *)
LEMMA CursorIs ==
  ASSUME WalkInv, Receives
  PROVE  LET last == walk.lastIsoTimestamp
             high == Max(timestamps(served))
             low == Min(timestamps(served))
         IN /\ last \in Int \cup {Unset}
            /\ Len(served) = 0 => walk'.lastIsoTimestamp = last
            /\ Len(served) # 0 /\ ascending =>
                 walk'.lastIsoTimestamp = IF high = last THEN high + 1 ELSE high
            /\ Len(served) # 0 /\ descending =>
                 walk'.lastIsoTimestamp = IF low = last THEN low - 1 ELSE low
<1>1. walk \in Iterator /\ walk.phase = "sent"
  BY DEF WalkInv, ProcessInv, Receives
<1>2. answered.walk = walk.walk /\ answered.lastIsoTimestamp = walk.lastIsoTimestamp
  BY <1>1, AnsweredIs
<1>3. served = <<>> <=> Len(served) = 0
  BY <1>1, ServedPlaces
<1>4. walk'.lastIsoTimestamp = computeLastIsoTimestamp(answered, served)
  BY DEF Receives
<1>5. walk.lastIsoTimestamp \in Int \cup {Unset}
  BY <1>1 DEF Iterator
<1>6. Len(served) = 0 => walk'.lastIsoTimestamp = walk.lastIsoTimestamp
  BY <1>2, <1>3, <1>4 DEF computeLastIsoTimestamp
<1>7. ascending => walk.walk.strategy = "TimestampAsc"
  BY DEF ascending
<1>8. descending => walk.walk.strategy = "TimestampDesc"
  BY DEF descending
<1>9. Len(served) # 0 /\ ascending =>
        walk'.lastIsoTimestamp = IF Max(timestamps(served)) = walk.lastIsoTimestamp
                                   THEN Max(timestamps(served)) + 1
                                   ELSE Max(timestamps(served))
  BY <1>2, <1>3, <1>4, <1>7 DEF computeLastIsoTimestamp
<1>10. Len(served) # 0 /\ descending =>
         walk'.lastIsoTimestamp = IF Min(timestamps(served)) = walk.lastIsoTimestamp
                                    THEN Min(timestamps(served)) + -1
                                    ELSE Min(timestamps(served))
  BY <1>2, <1>3, <1>4, <1>8 DEF computeLastIsoTimestamp
<1>11. Len(served) # 0 => Min(timestamps(served)) \in Int
  <2>1. ProcessInv /\ RequestInv /\ TableInv /\ isTable(table)
    BY DEF WalkInv, TableInv, isTable
  <2>2. isTable(served) /\ \A x \in ToSet(served) : x \in ToSet(table)
    BY <1>1, <2>1, ServedAreRecords
  <2>3. clock \in Nat /\ \A x \in ToSet(served) : x.timestamp <= clock
    BY <2>1, <2>2 DEF TableInv
  <2>4. Len(served) # 0 => \E x \in ToSet(served) : x.timestamp = Min(timestamps(served))
    BY <2>2, <2>3, BoundaryIs
  <2>5. ToSet(served) \subseteq Record(Keys)
    BY <2>2, SeqIs DEF isTable
  <2>6. QED BY <2>4, <2>5 DEF Record
<1>12. QED BY <1>5, <1>6, <1>9, <1>10, <1>11

(* What the proofs about a page by timestamp use of it.                    *)
LEMMA TimePageIs ==
  ASSUME WalkInv, Receives, ascending \/ descending
  PROVE  /\ clock \in Nat \ {0} /\ Unset \notin Int /\ limitOf(walk.walk) \in Nat \ {0}
         /\ Len(served) \in Nat /\ fetched' = fetched \cup ToSet(served)
         /\ \A r \in unchanged : /\ r \in ToSet(table) /\ r.timestamp \in Nat
                                 /\ 1 <= r.timestamp /\ r.timestamp <= clock
         /\ \A x \in ToSet(served) : /\ x.timestamp \in Nat
                                     /\ 1 <= x.timestamp /\ x.timestamp <= clock
                                     /\ matches(x, walk.requestUri)
         /\ \A r \in ToSet(table) : matches(r, walk.requestUri) /\ r \notin ToSet(served) =>
              /\ Len(served) = limitOf(walk.walk)
              /\ ascending => \A x \in ToSet(served) : x.timestamp <= r.timestamp
              /\ descending => \A x \in ToSet(served) : r.timestamp <= x.timestamp
         /\ \A time :
              (\A x \in ToSet(served) : x.timestamp = time) =>
                /\ Len(served) <= Cardinality(sharing(table, time))
                /\ \A r \in ToSet(table) : r.timestamp = time /\ r \notin ToSet(served) =>
                     Len(served) < Cardinality(sharing(table, time))
         /\ \A time : Cardinality(sharing(table, time)) \in Nat
<1>1. /\ walk.phase = "sent" /\ ProcessInv /\ RequestInv /\ TableInv /\ isTable(table)
      /\ walk.walk \in Asked /\ fetched' = fetched \cup ToSet(served)
  BY DEF Receives, WalkInv, ProcessInv, TableInv, isTable
<1>2. clock \in Nat \ {0} /\ Unset \notin Int /\ limitOf(walk.walk) \in Nat \ {0}
  BY <1>1, PagingAssumption, LimitIs DEF TableInv
<1>3. \A r \in ToSet(table) : r.timestamp \in Nat /\ 1 <= r.timestamp /\ r.timestamp <= clock
  <2>1. ToSet(table) \subseteq Record(Keys)
    BY <1>1, SeqIs DEF isTable
  <2>2. QED BY <1>1, <2>1 DEF TableInv, Record
<1>4. unchanged \subseteq ToSet(table)
  BY <1>1 DEF TableInv
<1>5. /\ isTable(served) /\ Len(served) \in Nat
      /\ \A x \in ToSet(served) : x \in ToSet(table) /\ matches(x, walk.requestUri)
  BY <1>1, ServedAreRecords
<1>6. ASSUME NEW r \in ToSet(table), matches(r, walk.requestUri), r \notin ToSet(served)
      PROVE  /\ Len(served) = limitOf(walk.walk)
             /\ ascending => \A x \in ToSet(served) : x.timestamp <= r.timestamp
             /\ descending => \A x \in ToSet(served) : r.timestamp <= x.timestamp
  BY <1>1, <1>6, NotServed
<1>7. ASSUME NEW time, \A x \in ToSet(served) : x.timestamp = time
      PROVE  /\ Len(served) <= Cardinality(sharing(table, time))
             /\ \A r \in ToSet(table) : r.timestamp = time /\ r \notin ToSet(served) =>
                  Len(served) < Cardinality(sharing(table, time))
  <2>1. ToSet(served) \subseteq ToSet(table)
    BY <1>5
  <2>2. QED BY <1>1, <1>5, <1>7, <2>1, SharersOf
<1>8. \A time : Cardinality(sharing(table, time)) \in Nat
  BY <1>1, SharingIs
<1>9. QED BY <1>1, <1>2, <1>3, <1>4, <1>5, <1>6, <1>7, <1>8

(* The page by timestamp has a boundary within the present.                *)
LEMMA TimeBoundaryIs ==
  ASSUME WalkInv, Receives, ascending \/ descending, Len(served) # 0
  PROVE  LET high == Max(timestamps(served))
             low == Min(timestamps(served))
         IN /\ high \in 1 .. clock /\ low \in 1 .. clock
            /\ \A x \in ToSet(served) : low <= x.timestamp /\ x.timestamp <= high
            /\ \E x \in ToSet(served) : x.timestamp = high
            /\ \E x \in ToSet(served) : x.timestamp = low
<1>1. isTable(served)
  BY ServedAreRecords DEF Receives, WalkInv, TableInv, isTable
<1>2. clock \in Nat /\ \A x \in ToSet(served) : /\ x.timestamp \in Nat
                                               /\ 1 <= x.timestamp /\ x.timestamp <= clock
  BY TimePageIs
<1>3. /\ \E x \in ToSet(served) : x.timestamp = Max(timestamps(served))
      /\ \E x \in ToSet(served) : x.timestamp = Min(timestamps(served))
      /\ \A x \in ToSet(served) : /\ x.timestamp <= Max(timestamps(served))
                                  /\ Min(timestamps(served)) <= x.timestamp
  BY <1>1, <1>2, BoundaryIs
<1>4. QED BY <1>2, <1>3

LEMMA CursorReceives ==
  ASSUME WalkInv, Receives
  PROVE  CursorInv'
<1> DEFINE last == walk.lastIsoTimestamp
           next == walk'.lastIsoTimestamp
           q == walk.requestUri
           limit == limitOf(walk.walk)
<1>1. SUFFICES ASSUME ~crowded, next # Unset, ascending \/ descending, NEW r \in unchanged,
                      ascending => r.timestamp < next, descending => r.timestamp > next,
                      r \notin fetched, r \notin ToSet(served)
               PROVE  FALSE
  <2>1. fetched' = fetched \cup ToSet(served) /\ UNCHANGED <<crowded, unchanged>>
    BY DEF Receives
  <2>2. ~(ascending /\ descending)
    BY DEF ascending, descending
  <2>3. QED BY <2>1, <2>2, SameWalk DEF CursorInv
<1>2. /\ clock \in Nat \ {0} /\ Unset \notin Int /\ limit \in Nat \ {0}
      /\ Len(served) \in Nat /\ r \in ToSet(table) /\ r.timestamp \in Nat
      /\ \A x \in ToSet(served) : x.timestamp \in Nat /\ matches(x, q)
      /\ matches(r, q) =>
           /\ Len(served) = limit
           /\ ascending => \A x \in ToSet(served) : x.timestamp <= r.timestamp
           /\ descending => \A x \in ToSet(served) : r.timestamp <= x.timestamp
      /\ \A time : Cardinality(sharing(table, time)) \in Nat
  BY <1>1, TimePageIs
<1>3. /\ last \in Int \cup {Unset}
      /\ Len(served) = 0 => next = last
      /\ Len(served) # 0 /\ ascending =>
           next = IF Max(timestamps(served)) = last THEN Max(timestamps(served)) + 1
                  ELSE Max(timestamps(served))
      /\ Len(served) # 0 /\ descending =>
           next = IF Min(timestamps(served)) = last THEN Min(timestamps(served)) - 1
                  ELSE Min(timestamps(served))
  BY CursorIs
<1>4. /\ last # Unset /\ ascending => ~(r.timestamp < last)
      /\ last # Unset /\ descending => ~(r.timestamp > last)
  BY <1>1 DEF WalkInv, CursorInv
<1>5. Len(served) # 0
  BY <1>1, <1>3, <1>4
<1>6. /\ ascending => q.ge = otherwise(last, 0) /\ q.le = Unset
      /\ descending => /\ q.ge = Unset /\ q.le \in Int
                       /\ last # Unset => q.le = last
  BY DEF WalkInv, RequestInv, Receives
<1>7. \A time \in 1 .. clock : Cardinality(sharing(table, time)) <= limit
  <2>1. RoomInv /\ ~ended /\ isTable(table) /\ walk.walk \in Asked
    BY DEF WalkInv, ProcessInv, TableInv, isTable, Receives, ended
  <2>2. ~overfull(table, walk.walk)
    BY <1>1, <2>1 DEF RoomInv
  <2>3. QED BY <1>2, <2>1, <2>2, RoomIs
<1>8. descending /\ last = Unset => r.timestamp <= q.le
  BY <1>1 DEF WalkInv, RoomInv, Receives, ended
<1>9. ASSUME ascending PROVE FALSE
  <2> DEFINE high == Max(timestamps(served))
  <2>1. /\ high \in 1 .. clock /\ \A x \in ToSet(served) : x.timestamp <= high
        /\ \E x \in ToSet(served) : x.timestamp = high
    BY <1>1, <1>5, TimeBoundaryIs
  <2>2. next = IF high = last THEN high + 1 ELSE high
    BY <1>3, <1>5, <1>9
  <2> HIDE DEF high
  <2>3. matches(r, q)
    <3>1. q.le = Unset /\ q.ge = otherwise(last, 0)
      BY <1>6, <1>9
    <3>2. r.timestamp >= otherwise(last, 0)
      BY <1>2, <1>3, <1>4, <1>9 DEF otherwise
    <3>3. QED BY <3>1, <3>2 DEF matches
  <2>4. Len(served) = limit /\ \A x \in ToSet(served) : x.timestamp <= r.timestamp
    BY <1>2, <1>9, <2>3
  <2>5. high <= r.timestamp /\ r.timestamp < next
    BY <1>1, <1>9, <2>1, <2>4
  <2>6. high = last /\ r.timestamp = high
    BY <1>2, <2>1, <2>2, <2>5
  <2>7. \A x \in ToSet(served) : x.timestamp = high
    <3>1. q.ge = high /\ high # Unset
      BY <1>2, <1>6, <1>9, <2>1, <2>6 DEF otherwise
    <3>2. \A x \in ToSet(served) : x.timestamp >= high
      BY <1>2, <3>1 DEF matches
    <3>3. QED BY <1>2, <2>1, <3>2
  <2>8. Len(served) < Cardinality(sharing(table, high))
    BY <1>1, <1>2, <2>6, <2>7, TimePageIs
  <2>9. Cardinality(sharing(table, high)) <= limit
    BY <1>7, <2>1
  <2>10. QED BY <1>2, <2>4, <2>8, <2>9
<1>10. ASSUME descending PROVE FALSE
  <2> DEFINE low == Min(timestamps(served))
  <2>1. /\ low \in 1 .. clock /\ \A x \in ToSet(served) : low <= x.timestamp
        /\ \E x \in ToSet(served) : x.timestamp = low
    BY <1>1, <1>5, TimeBoundaryIs
  <2>2. next = IF low = last THEN low - 1 ELSE low
    BY <1>3, <1>5, <1>10
  <2> HIDE DEF low
  <2>3. matches(r, q)
    <3>1. q.ge = Unset /\ q.le \in Int
      BY <1>6, <1>10
    <3>2. r.timestamp <= q.le
      <4>1. CASE last = Unset
        BY <1>8, <1>10, <4>1
      <4>2. CASE last # Unset
        BY <1>2, <1>3, <1>4, <1>6, <1>10, <4>2
      <4>3. QED BY <4>1, <4>2
    <3>3. QED BY <3>1, <3>2 DEF matches
  <2>4. Len(served) = limit /\ \A x \in ToSet(served) : r.timestamp <= x.timestamp
    BY <1>2, <1>10, <2>3
  <2>5. r.timestamp <= low /\ r.timestamp > next
    BY <1>1, <1>10, <2>1, <2>4
  <2>6. low = last /\ r.timestamp = low
    BY <1>2, <2>1, <2>2, <2>5
  <2>7. \A x \in ToSet(served) : x.timestamp = low
    <3>1. q.le = low /\ low # Unset
      BY <1>2, <1>6, <1>10, <2>1, <2>6
    <3>2. \A x \in ToSet(served) : x.timestamp <= low
      BY <1>2, <3>1 DEF matches
    <3>3. QED BY <1>2, <2>1, <3>2
  <2>8. Len(served) < Cardinality(sharing(table, low))
    BY <1>1, <1>2, <2>6, <2>7, TimePageIs
  <2>9. Cardinality(sharing(table, low)) <= limit
    BY <1>7, <2>1
  <2>10. QED BY <1>2, <2>4, <2>8, <2>9
<1>11. QED BY <1>1, <1>9, <1>10

(* An empty page by timestamp ends a walk that has received all.           *)
LEMMA TimeEnds ==
  ASSUME WalkInv, Receives, ascending \/ descending, ~crowded, Len(served) = 0
  PROVE  due \subseteq fetched'
<1> DEFINE last == walk.lastIsoTimestamp
           q == walk.requestUri
<1>1. SUFFICES ASSUME NEW r \in unchanged, r \notin fetched
               PROVE  FALSE
  BY TimePageIs DEF due
<1>2. /\ Unset \notin Int /\ r \in ToSet(table) /\ r.timestamp \in Nat
      /\ limitOf(walk.walk) \in Nat \ {0}
      /\ matches(r, q) /\ r \notin ToSet(served) => Len(served) = limitOf(walk.walk)
  BY <1>1, TimePageIs
<1>3. r \notin ToSet(served)
  BY ServedPlaces DEF Receives
<1>4. ~matches(r, q)
  BY <1>2, <1>3
<1>5. /\ last \in Int \cup {Unset}
      /\ ascending => q.ge = otherwise(last, 0) /\ q.le = Unset
      /\ descending => /\ q.ge = Unset /\ q.le \in Int
                       /\ last # Unset => q.le = last
  BY DEF WalkInv, RequestInv, ProcessInv, Iterator, Receives
<1>6. /\ last # Unset /\ ascending => ~(r.timestamp < last)
      /\ last # Unset /\ descending => ~(r.timestamp > last)
  BY <1>1 DEF WalkInv, CursorInv
<1>7. descending /\ last = Unset => r.timestamp <= q.le
  BY <1>1 DEF WalkInv, RoomInv, Receives, ended
<1>8. CASE ascending
  <2>1. r.timestamp >= otherwise(last, 0) /\ q.le = Unset /\ q.ge = otherwise(last, 0)
    BY <1>2, <1>5, <1>6, <1>8 DEF otherwise
  <2>2. QED BY <1>4, <2>1 DEF matches
<1>9. CASE descending
  <2>1. r.timestamp <= q.le /\ q.ge = Unset
    <3>1. CASE last = Unset
      BY <1>5, <1>7, <1>9, <3>1
    <3>2. CASE last # Unset
      BY <1>2, <1>5, <1>6, <1>9, <3>2
    <3>3. QED BY <3>1, <3>2
  <2>2. QED BY <1>4, <2>1 DEF matches
<1>10. QED BY <1>8, <1>9

LEMMA RequestReceives ==
  ASSUME WalkInv, Receives
  PROVE  RequestInv'
<1> DEFINE q == walk.requestUri
           total == walk.totalRecordsFetched
<1>1. /\ walk.phase = "sent" /\ RequestInv /\ walk.walk \in Asked /\ q \in Request
      /\ total \in Nat /\ walk' \in Iterator
      /\ walk'.walk = walk.walk /\ walk'.requestUri = q /\ walk'.lastRequestUri = q
      /\ walk'.totalRecordsFetched = total + Len(served)
      /\ ~walk'.failing /\ walk'.phase # "sent"
      /\ walk'.nextLink = link(served) \/ (walk'.nextLink = Unset /\ ~linked)
  BY DEF WalkInv, ProcessInv, Iterator, Receives
<1>2. /\ (offsetPaged' <=> offsetPaged) /\ (linked' <=> linked)
  BY SameWalk
<1>3. ~linked => otherwise(q.top, walk'.pageSize) = topAsked(walk.walk)
  <2>1. topAsked(walk.walk) # Unset
    BY <1>1, LimitIs, PagingAssumption
  <2>2. ~linked => q.top = topAsked(walk.walk)
    BY <1>1 DEF RequestInv
  <2>3. QED BY <2>1, <2>2 DEF otherwise
<1>4. ASSUME linked, walk'.nextLink # Unset
      PROVE  /\ selectsAs(walk'.nextLink, walk.walk.query) /\ walk'.nextLink.top = Unset
             /\ walk'.nextLink.skip = total + Len(served)
  <2>1. walk'.nextLink = link(served)
    BY <1>1, <1>4
  <2>2. /\ isPartial(q, walk.walk.prefer, Len(served))
        /\ walk'.nextLink = buildNextLink(q, walk.walk.prefer)
    BY <1>4, <2>1 DEF link
  <2>3. Len(served) = roomOf
    BY <2>2 DEF isPartial, roomOf
  <2>4. PICK skip : skip = q.skip + roomOf
    OBVIOUS
  <2>5. walk'.nextLink = [q EXCEPT !.skip = skip]
    BY <2>2, <2>4 DEF buildNextLink, roomOf
  <2>6. /\ walk'.nextLink.skip = skip /\ walk'.nextLink.top = q.top
        /\ selectsAs(walk'.nextLink, q)
    BY <1>1, <2>5 DEF Request, selectsAs
  <2>7. q.top = Unset /\ selectsAs(q, walk.walk.query) /\ q.skip = total
    BY <1>1, <1>4 DEF RequestInv, linked, offsetPaged
  <2>8. QED BY <2>3, <2>4, <2>6, <2>7 DEF selectsAs
<1>5. q # Unset
  BY <1>1, ReplicationAssumption
<1>6. /\ offsetPaged => selectsAs(q, walk.walk.query)
      /\ linked => q.top = Unset
  BY <1>1 DEF RequestInv
<1> HIDE DEF q, total
<1>7. QED BY <1>1, <1>2, <1>3, <1>4, <1>5, <1>6 DEF RequestInv

(* Before the walk goes on, the next request is another one, or everything *)
(* has been received.                                                      *)
LEMMA NextReceives ==
  ASSUME WalkInv, Receives
  PROVE  NextInv'
<1> DEFINE q == walk.requestUri
           total == walk.totalRecordsFetched
           last == walk.lastIsoTimestamp
           next == walk'.lastIsoTimestamp
<1>1. /\ walk.phase = "sent" /\ RequestInv /\ walk' \in Iterator
      /\ walk'.walk = walk.walk /\ walk'.lastRequestUri = q
      /\ walk'.totalRecordsFetched = total + Len(served) /\ total \in Nat
      /\ walk'.nextLink = link(served) \/ (walk'.nextLink = Unset /\ ~linked)
      /\ walk'.phase = "next" => Len(served) # 0
      /\ fetched' = fetched \cup ToSet(served)
  BY DEF WalkInv, ProcessInv, Iterator, Receives
<1>2. SUFFICES ASSUME Len(served) # 0
               PROVE  /\ walk.walk.strategy = "TopAndSkip" => q.skip < total + Len(served)
                      /\ linked => IF walk'.nextLink = Unset THEN Lost \/ due \subseteq fetched'
                                   ELSE q.skip < total + Len(served)
                      /\ ascending => next # Unset /\ q.ge # next
                      /\ descending => /\ next # Unset
                                       /\ q.le = next => Lost \/ due \subseteq fetched'
  BY <1>1, SameWalk DEF NextInv
<1>3. Len(served) \in Nat /\ roomOf \in Nat \ {0} /\ Len(served) <= roomOf
  BY <1>1, ServedPlaces
<1>4. offsetPaged => q.skip = total /\ q.skip < total + Len(served)
  <2>1. offsetPaged => q.skip = total
    BY <1>1 DEF RequestInv
  <2> HIDE DEF q, total
  <2>2. QED BY <1>1, <1>2, <1>3, <2>1
<1>5. walk.walk.strategy = "TopAndSkip" => q.skip < total + Len(served)
  BY <1>4 DEF offsetPaged
<1>6. ASSUME linked
      PROVE  IF walk'.nextLink = Unset THEN Lost \/ due \subseteq fetched'
             ELSE q.skip < total + Len(served)
  <2>1. offsetPaged
    BY <1>6 DEF linked, offsetPaged
  <2>2. CASE walk'.nextLink # Unset
    BY <1>4, <2>1, <2>2
  <2>3. CASE walk'.nextLink = Unset
    <3>1. link(served) = Unset
      BY <1>1, <1>6, <2>3
    <3>2. ~isPartial(q, walk.walk.prefer, Len(served))
      <4>1. buildNextLink(q, walk.walk.prefer) \in Request
        <5>1. q \in Request /\ q.skip \in Nat
          BY DEF WalkInv, ProcessInv, Iterator, Request
        <5>2. PICK skip \in Nat : skip = q.skip + fetchLimit(q, walk.walk.prefer)
          BY <1>3, <5>1 DEF roomOf
        <5>3. buildNextLink(q, walk.walk.prefer) = [q EXCEPT !.skip = skip]
          BY <5>2 DEF buildNextLink
        <5>4. QED BY <5>1, <5>3 DEF Request
      <4>2. QED BY <3>1, <4>1, ReplicationAssumption DEF link
    <3>3. q.top = Unset
      BY <1>1, <1>6 DEF RequestInv
    <3>4. Len(served) # roomOf
      BY <1>2, <1>3, <3>2, <3>3 DEF isPartial, roomOf
    <3>5. ~Lost => due \subseteq fetched'
      BY <2>1, <3>4, OffsetEnds DEF Lost
    <3>6. QED BY <2>3, <3>5
  <2>4. QED BY <2>2, <2>3
<1>7. /\ Unset \notin Int /\ last \in Int \cup {Unset}
      /\ ascending => next = IF Max(timestamps(served)) = last THEN Max(timestamps(served)) + 1
                             ELSE Max(timestamps(served))
      /\ descending => next = IF Min(timestamps(served)) = last THEN Min(timestamps(served)) - 1
                              ELSE Min(timestamps(served))
  BY <1>2, CursorIs, PagingAssumption
<1>8. ASSUME ascending PROVE next # Unset /\ q.ge # next
  <2>1. Max(timestamps(served)) \in 1 .. clock /\ clock \in Nat
    BY <1>2, <1>8, TimeBoundaryIs, TimePageIs
  <2>2. q.ge = otherwise(last, 0)
    BY <1>1, <1>8 DEF RequestInv
  <2>3. CASE last = Unset
    BY <1>7, <1>8, <2>1, <2>2, <2>3 DEF otherwise
  <2>4. CASE last # Unset
    BY <1>7, <1>8, <2>1, <2>2, <2>4 DEF otherwise
  <2>5. QED BY <2>3, <2>4
<1>9. ASSUME descending PROVE /\ next # Unset
                              /\ q.le = next => Lost \/ due \subseteq fetched'
  <2> DEFINE low == Min(timestamps(served))
  <2>1. low \in 1 .. clock /\ clock \in Nat /\ \A x \in ToSet(served) : low <= x.timestamp
    BY <1>2, <1>9, TimeBoundaryIs, TimePageIs
  <2>2. next = IF low = last THEN low - 1 ELSE low
    BY <1>7, <1>9
  <2>3. q.ge = Unset /\ q.le \in Int /\ (last # Unset => q.le = last)
    BY <1>1, <1>9 DEF RequestInv
  <2> HIDE DEF low
  <2>4. next # Unset
    BY <1>7, <2>1, <2>2
  <2>5. ASSUME q.le = next, ~Lost PROVE due \subseteq fetched'
    <3>1. last = Unset /\ next = low
      BY <1>7, <2>1, <2>2, <2>3, <2>5
    <3>2. ~crowded /\ due = unchanged
      BY <1>9, <2>5 DEF Lost, due, descending, offsetPaged
    <3>3. /\ \A r \in unchanged : r.timestamp <= q.le
          /\ Cardinality(sharing(table, q.le)) < limitOf(walk.walk)
      BY <1>1, <1>9, <3>1, <3>2 DEF WalkInv, RoomInv, ended
    <3>4. SUFFICES ASSUME NEW r \in unchanged, r \notin ToSet(served) PROVE FALSE
      BY <1>1, <3>2
    <3>5. r \in ToSet(table) /\ matches(r, q)
      <4>1. r \in ToSet(table) /\ r.timestamp <= q.le
        BY <1>9, <3>3, <3>4, TimePageIs
      <4>2. QED BY <2>3, <4>1 DEF matches
    <3>6. Len(served) = limitOf(walk.walk)
      BY <1>9, <3>4, <3>5, TimePageIs
    <3>7. \A x \in ToSet(served) : x.timestamp = q.le
      <4>1. \A x \in ToSet(served) : x.timestamp \in Nat /\ matches(x, q)
        BY <1>9, TimePageIs
      <4>2. \A x \in ToSet(served) : x.timestamp <= q.le
        BY <1>7, <2>3, <4>1 DEF matches
      <4>3. q.le = low
        BY <2>5, <3>1
      <4>4. QED BY <2>1, <4>1, <4>2, <4>3
    <3>8. Len(served) <= Cardinality(sharing(table, q.le))
      BY <1>9, <3>7, TimePageIs
    <3>9. Cardinality(sharing(table, q.le)) \in Nat /\ limitOf(walk.walk) \in Nat
      BY <1>9, TimePageIs
    <3>10. QED BY <1>3, <3>3, <3>6, <3>8, <3>9
  <2>6. QED BY <2>4, <2>5
<1>10. QED BY <1>5, <1>6, <1>8, <1>9

LEMMA ReceivesKeeps ==
  ASSUME WalkInv, Receives
  PROVE  WalkInv'
<1>1. /\ walk.phase = "sent" /\ UNCHANGED <<table, clock, plan, todo, unchanged, moved, crowded>>
      /\ walk' \in Iterator /\ walk'.walk = walk.walk /\ walk'.lastRequestUri = walk.requestUri
      /\ walk'.requestUri = walk.requestUri
      /\ walk'.phase \in {"next", "ended"} /\ walk'.numErrors = walk.numErrors
      /\ (finished' => Len(served) = 0)
  BY DEF Receives
<1>2. /\ TableInv /\ ProcessInv /\ RoomInv /\ PhaseInv /\ ~ended
      /\ (Lost' <=> Lost) /\ due' = due
      /\ (overfull(table, walk.walk)' <=> overfull(table, walk.walk))
  BY <1>1, SameWalk DEF WalkInv, ended
<1>3. TableInv'
  BY <1>1, <1>2 DEF TableInv
<1>4. ProcessInv'
  BY <1>1, <1>2 DEF ProcessInv
<1>5. RequestInv' /\ PrefixInv' /\ CursorInv' /\ NextInv'
  BY RequestReceives, PrefixReceives, CursorReceives, NextReceives
<1>6. RoomInv'
  BY <1>1, <1>2 DEF RoomInv
<1>7. PhaseInv'
  BY <1>1, <1>2 DEF PhaseInv
<1>8. EndInv'
  <2>1. SUFFICES ASSUME Len(served) = 0, ~Lost PROVE due \subseteq fetched'
    BY <1>1, <1>2 DEF EndInv
  <2>2. CASE offsetPaged
    <3>1. Len(served) # roomOf
      BY <1>1, <2>1, ServedPlaces
    <3>2. QED BY <2>1, <2>2, <3>1, OffsetEnds DEF Lost
  <2>3. CASE ~offsetPaged
    <3>1. walk.walk.strategy \in Strategies
      BY <1>2 DEF ProcessInv, Iterator, Walk
    <3>2. ascending \/ descending
      BY <2>3, <3>1 DEF Strategies, offsetPaged, ascending, descending
    <3>3. QED BY <2>1, <2>3, <3>2, TimeEnds DEF Lost
  <2>4. QED BY <2>2, <2>3
<1>9. QED BY <1>3, <1>4, <1>5, <1>6, <1>7, <1>8 DEF WalkInv

LEMMA WalkIsTyped ==
  ASSUME WalkInv
  PROVE  Typed
BY DEF WalkInv, TableInv, ProcessInv, Typed

(* A page holds records of the collection, each once.                      *)
LEMMA ServedTyped ==
  ASSUME Typed
  PROVE  /\ isTable(served) /\ Len(served) \in Nat /\ ToSet(served) \subseteq ToSet(table)
         /\ served = <<>> <=> Len(served) = 0
         /\ fetchLimit(walk.requestUri, walk.walk.prefer) \in Nat
<1> DEFINE q == servedAs
           prefer == walk.walk.prefer
           all == selected(table, q)
<1>1. /\ walk.requestUri \in Request /\ prefer \in Nat \cup {Unset} /\ isTable(table)
  BY DEF Typed, Iterator, Walk, isTable
<1>2. q \in Request
  BY <1>1 DEF servedAs, Request
<1>3. \A r \in Request : fetchLimit(r, prefer) \in Nat
  <2>1. ASSUME NEW r \in Request PROVE fetchLimit(r, prefer) \in Nat
    <3>1. r.top \in Nat \cup {Unset} /\ DEFAULT_PAGE_SIZE \in Nat /\ MAX_PAGE_SIZE \in Nat
      BY PagingAssumption DEF Request
    <3>2. QED BY <1>1, <3>1, PagingAssumption DEF fetchLimit, lesser
  <2>2. QED BY <2>1
<1>4. isSlice(served, all, q.skip, fetchLimit(q, prefer))
  <2>1. served = page(table, q, prefer)
    BY DEF served, servedAs
  <2>2. QED BY <1>1, <1>2, <1>3, <2>1, PageIs DEF isTable
<1>5. isAnswer(all, table, q)
  BY <1>1, SelectedIs DEF isTable
<1>6. q.skip \in Nat
  BY <1>2 DEF Request
<1> HIDE DEF q, all
<1>7. /\ served \in Seq(Record(Keys)) /\ Len(served) \in Nat
      /\ \A i \in 1 .. Len(served) : q.skip + i \in 1 .. Len(all) /\ served[i] = all[q.skip + i]
  BY <1>4 DEF isSlice
<1>8. DOMAIN served = 1 .. Len(served) /\ (served = <<>> <=> Len(served) = 0)
  BY <1>7, SeqIs
<1>9. ASSUME NEW i \in 1 .. Len(served), NEW j \in 1 .. Len(served),
             served[i].key = served[j].key
      PROVE  i = j
  <2>1. \A k, m \in 1 .. Len(all) : all[k].key = all[m].key => k = m
    BY <1>5 DEF isAnswer
  <2>2. q.skip + i = q.skip + j
    <3>1. PICK k \in 1 .. Len(all) : k = q.skip + i /\ served[i] = all[k]
      BY <1>7
    <3>2. PICK m \in 1 .. Len(all) : m = q.skip + j /\ served[j] = all[m]
      BY <1>7
    <3>3. k = m
      BY <1>9, <2>1, <3>1, <3>2
    <3>4. QED BY <3>1, <3>2, <3>3
  <2>3. QED BY <1>6, <1>7, <2>2
<1>10. isTable(served)
  BY <1>7, <1>8, <1>9 DEF isTable, uniqueKeys
<1>11. ToSet(served) \subseteq ToSet(table)
  <2>1. \A k \in 1 .. Len(all) : all[k] \in ToSet(table)
    BY <1>5 DEF isAnswer
  <2>2. \A i \in DOMAIN served : served[i] \in ToSet(table)
    BY <1>7, <1>8, <2>1
  <2>3. QED BY <2>2 DEF ToSet
<1>12. QED BY <1>1, <1>3, <1>7, <1>8, <1>10, <1>11

(* Taking a page leaves an iterator.                                       *)
LEMMA ReceivedIs ==
  ASSUME Typed, NEW next \in {link(served), Unset}
  PROVE  LET w == received(answered, served, next)
         IN /\ w \in Iterator /\ w.walk = walk.walk /\ w.phase = walk.phase
            /\ w.requestUri = walk.requestUri /\ w.lastRequestUri = walk.requestUri
            /\ w.lastIsoTimestamp = computeLastIsoTimestamp(answered, served)
            /\ w.totalRecordsFetched = walk.totalRecordsFetched + Len(served)
            /\ w.numErrors = walk.numErrors /\ ~w.failing
            /\ w.nextLink = next /\ w.pageSize = Len(served)
<1>1. /\ walk \in Iterator
      /\ answered \in Iterator /\ answered.walk = walk.walk /\ answered.phase = walk.phase
      /\ answered.requestUri = walk.requestUri /\ answered.lastRequestUri = walk.requestUri
      /\ answered.totalRecordsFetched = walk.totalRecordsFetched
      /\ answered.numErrors = walk.numErrors
      /\ answered.lastIsoTimestamp = walk.lastIsoTimestamp
  BY AnsweredIs DEF Typed
<1>2. /\ isTable(served) /\ Len(served) \in Nat /\ \A x \in ToSet(served) : x \in ToSet(table)
      /\ walk.requestUri \in Request /\ roomOf \in Nat
  BY <1>1, ServedTyped DEF Iterator, roomOf
<1>3. PICK iso : iso = computeLastIsoTimestamp(answered, served)
  OBVIOUS
<1>4. iso \in Int \cup {Unset}
  <2>1. walk.lastIsoTimestamp \in Int \cup {Unset}
    BY <1>1 DEF Iterator
  <2>2. CASE served = <<>>
    BY <1>1, <1>3, <2>1, <2>2 DEF computeLastIsoTimestamp
  <2>3. CASE served # <<>>
    <3>1. clock \in Nat /\ \A x \in ToSet(served) : x.timestamp <= clock
      BY <1>2 DEF Typed
    <3>2. Len(served) # 0
      BY <2>3, ServedTyped
    <3>3. ToSet(served) \subseteq Record(Keys)
      BY <1>2, SeqIs DEF isTable
    <3>4. /\ \E x \in ToSet(served) : x.timestamp = Max(timestamps(served))
          /\ \E x \in ToSet(served) : x.timestamp = Min(timestamps(served))
      BY <1>2, <3>1, <3>2, BoundaryIs
    <3>5. Max(timestamps(served)) \in Nat /\ Min(timestamps(served)) \in Nat
      BY <3>3, <3>4 DEF Record
    <3>6. QED BY <1>1, <1>3, <2>1, <2>3, <3>5 DEF computeLastIsoTimestamp
  <2>4. QED BY <2>2, <2>3
<1>5. link(served) \in Request \cup {Unset}
  <2>1. PICK skip \in Nat : skip = walk.requestUri.skip + roomOf
    BY <1>2 DEF Request
  <2>2. buildNextLink(walk.requestUri, walk.walk.prefer) = [walk.requestUri EXCEPT !.skip = skip]
    BY <2>1 DEF buildNextLink, roomOf
  <2>3. buildNextLink(walk.requestUri, walk.walk.prefer) \in Request
    BY <1>2, <2>2 DEF Request
  <2>4. QED BY <2>3 DEF link
<1>6. PICK total \in Nat : total = walk.totalRecordsFetched + Len(served)
  BY <1>1, <1>2 DEF Iterator
<1>7. PICK size \in Nat : size = Len(served)
  BY <1>2
<1> DEFINE w == received(answered, served, next)
<1>8. w = [answered EXCEPT !.lastIsoTimestamp = iso, !.pageSize = size, !.nextLink = next,
                           !.totalRecordsFetched = total, !.failing = FALSE]
  BY <1>1, <1>3, <1>6, <1>7 DEF received
<1> HIDE DEF w
<1>9. /\ w \in Iterator /\ w.walk = answered.walk /\ w.phase = answered.phase
      /\ w.requestUri = answered.requestUri /\ w.lastRequestUri = answered.lastRequestUri
      /\ w.lastIsoTimestamp = iso /\ w.totalRecordsFetched = total
      /\ w.numErrors = answered.numErrors /\ ~w.failing /\ w.nextLink = next
      /\ w.pageSize = size
  BY <1>1, <1>4, <1>5, <1>8 DEF Iterator
<1>10. QED BY <1>1, <1>3, <1>6, <1>7, <1>9 DEF w

LEMMA PageKeeps ==
  ASSUME WalkInv, Page(served)
  PROVE  WalkInv'
<1> DEFINE w == received(answered, served, link(served))
<1>1. /\ walk.phase = "sent"
      /\ UNCHANGED <<table, clock, plan, todo, unchanged, moved, crowded>>
      /\ fetched' = fetched \cup ToSet(served)
      /\ walk' = resumed(w)
  BY DEF Page, Received, source
<1>2. /\ w \in Iterator /\ w.walk = walk.walk /\ w.phase = "sent"
      /\ w.requestUri = walk.requestUri /\ w.lastRequestUri = walk.requestUri
      /\ w.lastIsoTimestamp = computeLastIsoTimestamp(answered, served)
      /\ w.totalRecordsFetched = walk.totalRecordsFetched + Len(served)
      /\ w.numErrors = walk.numErrors /\ ~w.failing
      /\ w.nextLink = link(served) /\ w.pageSize = Len(served)
  BY <1>1, WalkIsTyped, ReceivedIs
<1>3. ~(walk.numErrors > MaxErrorCount)
  <2>1. walk.numErrors <= MaxErrorCount /\ walk.numErrors \in Nat
    BY <1>1 DEF WalkInv, PhaseInv, ProcessInv, Iterator
  <2>2. QED BY <2>1, ReplicationAssumption
<1> HIDE DEF w
<1>4. /\ walk' \in Iterator /\ walk'.walk = walk.walk
      /\ walk'.requestUri = walk.requestUri /\ walk'.lastRequestUri = walk.requestUri
      /\ walk'.lastIsoTimestamp = computeLastIsoTimestamp(answered, served)
      /\ walk'.totalRecordsFetched = w.totalRecordsFetched
      /\ walk'.numErrors = walk.numErrors /\ ~walk'.failing
      /\ walk'.nextLink = link(served)
      /\ walk'.phase = IF limitReached(w) \/ w.pageSize = 0 \/ w.numErrors > MaxErrorCount
                         THEN "ended" ELSE "next"
  BY <1>1, <1>2 DEF Iterator, resumed
<1>5. limitReached(w) => limitReached(walk)'
  BY <1>1, <1>4 DEF limitReached
<1>6. finished' => Len(served) = 0
  BY <1>2, <1>3, <1>4, <1>5 DEF finished, ended
<1>7. Receives
  BY <1>1, <1>2, <1>4, <1>6 DEF Receives
<1>8. QED BY <1>7, ReceivesKeeps

LEMMA InvalidPageKeeps ==
  ASSUME WalkInv, InvalidPage(served)
  PROVE  WalkInv'
<1> DEFINE w == received(answered, served, link(served))
<1>1. /\ walk.phase = "sent" /\ outcome' = "failed"
      /\ UNCHANGED <<table, clock, plan, todo, unchanged, moved, crowded>>
      /\ fetched' = fetched \cup ToSet(served)
      /\ walk' = [w EXCEPT !.phase = "ended"]
  BY DEF InvalidPage, Received, source
<1>2. /\ w \in Iterator /\ w.walk = walk.walk /\ w.phase = "sent"
      /\ w.requestUri = walk.requestUri /\ w.lastRequestUri = walk.requestUri
      /\ w.lastIsoTimestamp = computeLastIsoTimestamp(answered, served)
      /\ w.totalRecordsFetched = walk.totalRecordsFetched + Len(served)
      /\ w.numErrors = walk.numErrors /\ ~w.failing
      /\ w.nextLink = link(served) /\ w.pageSize = Len(served)
  BY <1>1, WalkIsTyped, ReceivedIs
<1> HIDE DEF w
<1>3. /\ walk' \in Iterator /\ walk'.walk = walk.walk
      /\ walk'.requestUri = walk.requestUri /\ walk'.lastRequestUri = walk.requestUri
      /\ walk'.lastIsoTimestamp = computeLastIsoTimestamp(answered, served)
      /\ walk'.totalRecordsFetched = w.totalRecordsFetched
      /\ walk'.numErrors = walk.numErrors /\ ~walk'.failing
      /\ walk'.nextLink = link(served) /\ walk'.phase = "ended"
  BY <1>1, <1>2 DEF Iterator
<1>4. ~finished'
  BY <1>1 DEF finished
<1>5. Receives
  BY <1>1, <1>2, <1>3, <1>4 DEF Receives
<1>6. QED BY <1>5, ReceivesKeeps

LEMMA LookupPageKeeps ==
  ASSUME WalkInv, LookupPage(served)
  PROVE  WalkInv'
<1> DEFINE w == received(answered, served, Unset)
           stuck == served # <<>> /\ keysOf(served) \subseteq {r.key : r \in fetched}
<1>1. /\ walk.phase = "sent" /\ walk.walk.strategy = "Lookup"
      /\ UNCHANGED <<table, clock, plan, todo, unchanged, moved, crowded>>
      /\ fetched' = fetched \cup ToSet(served)
      /\ walk' = [IteratorPage(served) EXCEPT !.phase = IF stuck THEN "ended" ELSE @]
      /\ outcome' = IF stuck THEN "failed" ELSE outcome
  BY DEF LookupPage, Received, source
<1>2. /\ w \in Iterator /\ w.walk = walk.walk /\ w.phase = "sent"
      /\ w.requestUri = walk.requestUri /\ w.lastRequestUri = walk.requestUri
      /\ w.lastIsoTimestamp = computeLastIsoTimestamp(answered, served)
      /\ w.totalRecordsFetched = walk.totalRecordsFetched + Len(served)
      /\ w.numErrors = walk.numErrors /\ ~w.failing
      /\ w.nextLink = Unset /\ w.pageSize = Len(served)
  BY <1>1, WalkIsTyped, ReceivedIs
<1>3. served = <<>> <=> Len(served) = 0
  BY <1>1, ServedPlaces
<1>4. ~linked
  BY <1>1 DEF linked
<1>5. walk.pageSize \in Nat
  BY DEF WalkInv, ProcessInv, Iterator
<1>6. IteratorPage(served) =
        [w EXCEPT !.pageSize = walk.pageSize,
                  !.phase = IF served = <<>> THEN "ended" ELSE "next"]
  BY DEF IteratorPage
<1> HIDE DEF w, stuck
<1>7. PICK phase \in {"next", "ended"} :
        /\ phase = IF stuck \/ served = <<>> THEN "ended" ELSE "next"
        /\ walk' = [w EXCEPT !.pageSize = walk.pageSize, !.phase = phase]
  <2>1. CASE stuck
    BY <1>1, <1>2, <1>6, <2>1 DEF Iterator
  <2>2. CASE ~stuck
    BY <1>1, <1>2, <1>6, <2>2 DEF Iterator
  <2>3. QED BY <2>1, <2>2
<1>8. /\ walk' \in Iterator /\ walk'.walk = walk.walk
      /\ walk'.requestUri = walk.requestUri /\ walk'.lastRequestUri = walk.requestUri
      /\ walk'.lastIsoTimestamp = computeLastIsoTimestamp(answered, served)
      /\ walk'.totalRecordsFetched = w.totalRecordsFetched
      /\ walk'.numErrors = walk.numErrors /\ ~walk'.failing
      /\ walk'.nextLink = Unset /\ walk'.phase = phase
  BY <1>2, <1>5, <1>7 DEF Iterator
<1>9. finished' => Len(served) = 0
  BY <1>1, <1>3, <1>7, <1>8 DEF finished, ended
<1>10. Receives
  BY <1>1, <1>2, <1>3, <1>4, <1>7, <1>8, <1>9 DEF Receives
<1>11. QED BY <1>10, ReceivesKeeps

-----------------------------------------------------------------------------
(* The invariant. *)

(* The collection to begin with.                                           *)
LEMMA InitTable ==
  ASSUME Init
  PROVE  /\ table \in Seq(Record(Keys)) /\ uniqueKeys(table)
         /\ \A r \in ToSet(table) : r.timestamp \in {1, 2}
<1> DEFINE size == Cardinality(Keys)
           names == SetToSeq(Keys)
<1>1. PICK times \in BoundedSeq({1, 2}, size) :
        table = [i \in DOMAIN times |-> [key |-> names[i], timestamp |-> times[i]]]
  BY DEF Init
<1>2. size \in Nat
  BY ReplicationAssumption, FS_CardinalityType
<1>3. names \in [1 .. size -> Keys] /\ \A i, j \in 1 .. size : names[i] = names[j] => i = j
  <2>1. \E f \in [1 .. size -> Keys] : IsInjective(f)
    <3>1. ExistsBijection(1 .. size, Keys)
      BY ReplicationAssumption, FS_CardinalityType
    <3>2. PICK f : f \in Bijection(1 .. size, Keys)
      BY <3>1 DEF ExistsBijection
    <3>3. f \in Injection(1 .. size, Keys)
      BY <3>2 DEF Bijection
    <3>4. f \in [1 .. size -> Keys] /\ IsInjective(f)
      BY <3>3 DEF Injection, IsInjective
    <3>5. QED BY <3>4
  <2>2. names \in [1 .. size -> Keys] /\ IsInjective(names)
    BY <2>1 DEF SetToSeq
  <2>3. QED BY <2>2 DEF IsInjective
<1>4. PICK n \in 0 .. size : times \in [1 .. n -> {1, 2}]
  BY <1>1 DEF BoundedSeq, SeqOf
<1> HIDE DEF size, names
<1>5. DOMAIN times = 1 .. n /\ n \in Nat /\ n <= size
  BY <1>2, <1>4
<1>6. /\ table \in [1 .. n -> Record(Keys)]
      /\ \A i \in 1 .. n : table[i].key = names[i] /\ table[i].timestamp \in {1, 2}
  <2>1. \A i \in 1 .. n : names[i] \in Keys /\ times[i] \in {1, 2} /\ times[i] \in Nat
    BY <1>2, <1>3, <1>4, <1>5
  <2>2. QED BY <1>1, <1>5, <2>1 DEF Record
<1>7. table \in Seq(Record(Keys)) /\ DOMAIN table = 1 .. n
  BY <1>5, <1>6, SeqDef
<1>8. uniqueKeys(table)
  <2>1. \A i \in 1 .. n : i \in 1 .. size
    BY <1>2, <1>5
  <2>2. QED BY <1>3, <1>6, <1>7, <2>1 DEF uniqueKeys
<1>9. ASSUME NEW r \in ToSet(table) PROVE r.timestamp \in {1, 2}
  <2>1. PICK i \in 1 .. n : table[i] = r
    BY <1>7 DEF ToSet
  <2>2. QED BY <1>6, <2>1
<1>10. QED BY <1>7, <1>8, <1>9

(* The iterator to begin with.                                             *)
LEMMA InitWalk ==
  ASSUME Init
  PROVE  LET w == plan.walks[1]
         IN /\ w \in Walk /\ plan.walks \in Seq(Walk) /\ 1 \in 1 .. Len(plan.walks)
            /\ walk \in Iterator /\ walk.walk = w /\ walk.phase \in {"ended", "reported"}
            /\ walk.requestUri = w.query /\ walk.lastRequestUri = Unset
            /\ walk.lastIsoTimestamp = Unset /\ walk.nextLink = Unset
            /\ walk.pageSize = ClientPageSize /\ walk.totalRecordsFetched = 0
            /\ ~walk.failing
<1> DEFINE w == plan.walks[1]
<1>1. plan \in Plans /\ walk = [iterator(w) EXCEPT !.phase = rest(w)]
  BY DEF Init
<1>2. plan.walks \in Seq(Walk) /\ plan.walks # <<>>
  BY <1>1, ReplicationAssumption
<1>3. Len(plan.walks) \in Nat /\ Len(plan.walks) # 0
  BY <1>2, SeqIs
<1>4. 1 \in 1 .. Len(plan.walks)
  BY <1>3
<1>5. w \in Walk
  BY <1>2, <1>4, SeqIs
<1> HIDE DEF w
<1>6. w.query \in Request /\ ClientPageSize \in Nat /\ 0 \in Nat
  BY <1>5, ReplicationAssumption DEF Walk
<1>7. iterator(w) \in Iterator
  BY <1>5, <1>6 DEF iterator, Iterator
<1>8. rest(w) \in {"ended", "reported"}
  BY DEF rest
<1>9. /\ walk \in Iterator /\ walk.walk = w /\ walk.phase \in {"ended", "reported"}
      /\ walk.requestUri = w.query /\ walk.lastRequestUri = Unset
      /\ walk.lastIsoTimestamp = Unset /\ walk.nextLink = Unset
      /\ walk.pageSize = ClientPageSize /\ walk.totalRecordsFetched = 0
      /\ ~walk.failing
  BY <1>1, <1>7, <1>8 DEF iterator, Iterator
<1>10. QED BY <1>2, <1>4, <1>5, <1>9 DEF w

LEMMA InitEstablishes ==
  ASSUME WalksAskForAll, Init
  PROVE  WalkInv
<1> DEFINE w == plan.walks[1]
<1>1. /\ clock = 3 /\ plan \in Plans /\ todo = plan.walks
      /\ unchanged = {} /\ fetched = {} /\ moved = FALSE /\ crowded = FALSE
  BY DEF Init
<1>2. TableInv
  <2>1. ASSUME NEW r \in ToSet(table) PROVE 1 <= r.timestamp /\ r.timestamp <= clock
    <3>1. r.timestamp \in {1, 2}
      BY InitTable
    <3>2. QED BY <1>1, <3>1
  <2>2. clock \in Nat \ {0} /\ unchanged \subseteq ToSet(table)
    BY <1>1
  <2>3. moved \in BOOLEAN /\ crowded \in BOOLEAN
    BY <1>1
  <2>4. QED BY <2>1, <2>2, <2>3, InitTable DEF TableInv
<1>3. /\ 1 \in 1 .. Len(plan.walks)
      /\ walk \in Iterator /\ walk.walk = w /\ walk.phase \in {"ended", "reported"}
      /\ walk.requestUri = w.query /\ walk.lastRequestUri = Unset
      /\ walk.lastIsoTimestamp = Unset /\ walk.nextLink = Unset
      /\ walk.pageSize = ClientPageSize /\ walk.totalRecordsFetched = 0
      /\ ~walk.failing
  BY InitWalk
<1>4. todo \in Seq(Asked) /\ w \in Asked
  BY <1>1, <1>3, PlansAsk, SeqIs
<1> HIDE DEF w
<1>5. ProcessInv
  BY <1>1, <1>3, <1>4 DEF ProcessInv
<1>6. RequestInv
  <2>1. linked => w.query.top = Unset /\ w.query.skip = 0
    BY <1>3, <1>4 DEF linked, Asked, asksForAll
  <2>2. QED BY <1>3, <2>1 DEF RequestInv, topAsked, selectsAs
<1>7. PrefixInv /\ CursorInv /\ RoomInv /\ NextInv /\ PhaseInv /\ EndInv
  BY <1>1, <1>3 DEF PrefixInv, CursorInv, RoomInv, NextInv, PhaseInv, EndInv, finished, ended
<1>8. QED BY <1>2, <1>5, <1>6, <1>7 DEF WalkInv

LEMMA NextKeeps ==
  ASSUME WalksAskForAll, WalkInv, [Next]_vars
  PROVE  WalkInv'
<1>1. CASE Begin
  BY <1>1, BeginKeeps
<1>2. CASE Count
  BY <1>2, CountKeeps
<1>3. CASE Send
  BY <1>3, SendKeeps
<1>4. CASE Answer
  <2>1. CASE Page(served)
    BY <2>1, PageKeeps
  <2>2. CASE InvalidPage(served)
    BY <2>2, InvalidPageKeeps
  <2>3. CASE LookupPage(served)
    BY <2>3, LookupPageKeeps
  <2>4. CASE GarbledPage
    BY <2>4, GarbledPageKeeps
  <2>5. CASE HttpError
    BY <2>5, HttpErrorKeeps
  <2>6. CASE Unreachable
    BY <2>6, UnreachableKeeps
  <2>7. CASE LookupError
    BY <2>7, LookupErrorKeeps
  <2>8. QED BY <1>4, <2>1, <2>2, <2>3, <2>4, <2>5, <2>6, <2>7 DEF Answer
<1>5. CASE Wake
  BY <1>5, WakeKeeps
<1>6. CASE Report
  BY <1>6, ReportKeeps
<1>7. CASE Finish
  BY <1>7, FinishKeeps
<1>8. CASE NextRun
  BY <1>8, NextRunKeeps
<1>9. CASE Create
  BY <1>9, CreateKeeps
<1>10. CASE Modify
  BY <1>10, ModifyKeeps
<1>11. CASE Delete
  BY <1>11, DeleteKeeps
<1>12. CASE Tick
  BY <1>12, TickKeeps
<1>13. CASE UNCHANGED vars
  <2>1. UNCHANGED <<table, clock, plan, todo, outcome, walk, unchanged, moved, crowded, fetched>>
    BY <1>13 DEF vars
  <2>2. todo \in Seq(Asked)
    BY DEF WalkInv, ProcessInv
  <2>3. QED BY <2>1, <2>2, RestKeeps
<1>14. QED BY <1>1, <1>2, <1>3, <1>4, <1>5, <1>6, <1>7, <1>8, <1>9, <1>10, <1>11, <1>12, <1>13
           DEF Next, Step

(* A walk that runs to its end has received every record that was there,   *)
(* unchanged, all along (replicationIterator and replicate of              *)
(* legacy/lib/replication): for every collection, page size, sequence of   *)
(* writes and sequence of faults, and for every plan whose walks ask for   *)
(* all there is.                                                           *)
THEOREM WalksComplete ==
  ASSUME WalksAskForAll
  PROVE  Spec => []WalksAreComplete
<1>1. Init => WalkInv
  BY InitEstablishes
<1>2. WalkInv /\ [Next]_vars => WalkInv'
  BY NextKeeps
<1>3. WalkInv => WalksAreComplete
  BY DEF WalkInv, EndInv, WalksAreComplete, Lost
<1>4. QED BY <1>1, <1>2, <1>3, PTL DEF Spec

-----------------------------------------------------------------------------
(* The types. *)

(* Whatever is written, the table is one.                                  *)
LEMMA WrittenTyped ==
  ASSUME Typed, Create \/ Modify \/ Delete
  PROVE  /\ isTable(table') /\ \A r \in ToSet(table') : r \in ToSet(table) \/ r.timestamp = clock
         /\ unchanged \subseteq ToSet(table) => unchanged' \subseteq ToSet(table')
         /\ UNCHANGED <<clock, plan, outcome, todo, walk, service>>
<1>1. isTable(table) /\ clock \in Nat
  BY DEF Typed, isTable
<1>2. /\ DOMAIN table = 1 .. Len(table) /\ Len(table) \in Nat
      /\ \A i \in 1 .. Len(table) : table[i] \in Record(Keys) /\ table[i] \in ToSet(table)
  BY <1>1, SeqIs DEF isTable
<1>3. ASSUME NEW t, NEW key, Written(t, key), isTable(t),
             \A r \in ToSet(t) : r \in ToSet(table) \/ r.timestamp = clock,
             \A r \in ToSet(table) : r.key # key => r \in ToSet(t)
      PROVE  /\ isTable(table') /\ \A r \in ToSet(table') : r \in ToSet(table) \/ r.timestamp = clock
             /\ unchanged \subseteq ToSet(table) => unchanged' \subseteq ToSet(table')
             /\ UNCHANGED <<clock, plan, outcome, todo, walk, service>>
  <2>1. /\ table' = t /\ unchanged' = {r \in unchanged : r.key # key}
        /\ UNCHANGED <<clock, plan, outcome, todo, walk, service>>
    BY <1>3 DEF Written
  <2>2. QED BY <1>3, <2>1
<1>4. CASE Create
  <2>1. PICK k \in Keys \ keysOf(table), i \in 1 .. Len(table) + 1 :
          Written(InsertAt(table, i, [key |-> k, timestamp |-> clock]), k)
    BY <1>4 DEF Create
  <2>2. PICK e : e = [key |-> k, timestamp |-> clock]
    OBVIOUS
  <2>3. e \in Record(Keys) /\ e.key \notin keysOf(table) /\ e.timestamp = clock
    BY <1>1, <2>2 DEF Record
  <2>4. isTable(InsertAt(table, i, e)) /\ ToSet(InsertAt(table, i, e)) = ToSet(table) \cup {e}
    BY <1>1, <2>3, InsertKeepsTable
  <2>5. Written(InsertAt(table, i, e), k)
    BY <2>1, <2>2
  <2>6. QED BY <1>3, <2>3, <2>4, <2>5
<1>5. CASE Modify
  <2>1. PICK i \in DOMAIN table, j \in DOMAIN table :
          Written(InsertAt(RemoveAt(table, i), j, [table[i] EXCEPT !.timestamp = clock]),
                  table[i].key)
    BY <1>5 DEF Modify
  <2>2. PICK e : e = [table[i] EXCEPT !.timestamp = clock]
    OBVIOUS
  <2>3. PICK others : others = RemoveAt(table, i)
    OBVIOUS
  <2>4. e \in Record(Keys) /\ e.key = table[i].key /\ e.timestamp = clock
    BY <1>1, <1>2, <2>2 DEF Record
  <2>5. /\ isTable(others) /\ ToSet(others) = ToSet(table) \ {table[i]}
        /\ table[i].key \notin keysOf(others) /\ Len(others) = Len(table) - 1
        /\ \A r \in ToSet(table) : r.key = table[i].key => r = table[i]
    BY <1>1, <1>2, <2>3, RemoveKeepsTable
  <2>6. j \in 1 .. Len(others) + 1
    BY <1>2, <2>5
  <2>7. /\ isTable(InsertAt(others, j, e))
        /\ ToSet(InsertAt(others, j, e)) = ToSet(others) \cup {e}
    BY <2>4, <2>5, <2>6, InsertKeepsTable
  <2>8. Written(InsertAt(others, j, e), table[i].key)
    BY <2>1, <2>2, <2>3
  <2>9. /\ \A r \in ToSet(InsertAt(others, j, e)) : r \in ToSet(table) \/ r.timestamp = clock
        /\ \A r \in ToSet(table) : r.key # table[i].key => r \in ToSet(InsertAt(others, j, e))
    BY <2>4, <2>5, <2>7
  <2>10. QED BY <1>3, <2>7, <2>8, <2>9
<1>6. CASE Delete
  <2>1. PICK i \in DOMAIN table : Written(RemoveAt(table, i), table[i].key)
    BY <1>6 DEF Delete
  <2>2. isTable(RemoveAt(table, i)) /\ ToSet(RemoveAt(table, i)) = ToSet(table) \ {table[i]}
    BY <1>1, <1>2, RemoveKeepsTable
  <2>3. QED BY <1>3, <2>1, <2>2
<1>7. QED BY <1>4, <1>5, <1>6

(* A request is one, whatever it is built from.                            *)
LEMMA BuildTyped ==
  ASSUME Typed
  PROVE  buildRequest(walk) \in Request
<1>1. /\ walk.requestUri \in Request /\ walk.totalRecordsFetched \in Nat /\ clock \in Nat
      /\ walk.lastIsoTimestamp \in Int \cup {Unset} /\ walk.nextLink \in Request \cup {Unset}
      /\ walk.pageSize \in Nat
  BY DEF Typed, Iterator
<1>2. PICK top \in Nat : top = otherwise(walk.requestUri.top, walk.pageSize)
  BY <1>1 DEF Request, otherwise
<1>3. PICK p \in Request : p = [walk.requestUri EXCEPT !.top = top]
  BY <1>1 DEF Request
<1>4. p = [walk.requestUri EXCEPT !.top = otherwise(@, walk.pageSize)]
  BY <1>2, <1>3
<1>5. PICK from \in Int : from = otherwise(walk.lastIsoTimestamp, 0)
  BY <1>1 DEF otherwise
<1>6. PICK to \in Int : to = otherwise(walk.lastIsoTimestamp, clock)
  BY <1>1 DEF otherwise
<1>7. [p EXCEPT !.skip = walk.totalRecordsFetched] \in Request
  BY <1>1 DEF Request
<1>8. [p EXCEPT !.skip = 0, !.ge = from, !.le = Unset, !.orderby = "asc"] \in Request
  BY DEF Request
<1>9. [p EXCEPT !.skip = 0, !.le = to, !.ge = Unset, !.orderby = "desc"] \in Request
  BY DEF Request
<1>10. otherwise(walk.nextLink, walk.requestUri) \in Request
  BY <1>1 DEF otherwise
<1>11. CASE walk.walk.strategy \in {"TopAndSkip", "Lookup"}
  BY <1>4, <1>7, <1>11 DEF buildRequest
<1>12. CASE walk.walk.strategy = "TimestampAsc"
  BY <1>4, <1>5, <1>8, <1>12 DEF buildRequest
<1>13. CASE walk.walk.strategy = "TimestampDesc"
  BY <1>4, <1>6, <1>9, <1>13 DEF buildRequest
<1>14. CASE walk.walk.strategy = "NextLink"
  BY <1>10, <1>14 DEF buildRequest
<1>15. walk.walk.strategy \in Strategies
  BY DEF Typed, Iterator, Walk
<1>16. QED BY <1>11, <1>12, <1>13, <1>14, <1>15 DEF Strategies

(* Whatever follows it, an iterator stays one.                             *)
LEMMA ResumedTyped ==
  ASSUME NEW w \in Iterator
  PROVE  resumed(w) \in Iterator /\ resumed(w).walk = w.walk
BY DEF resumed, Iterator

LEMMA AnswerTyped ==
  ASSUME Typed, Answer
  PROVE  /\ walk' \in Iterator /\ walk'.walk = walk.walk
         /\ outcome' \in {outcome, "failed", "exited"}
         /\ UNCHANGED <<table, clock, plan, todo, unchanged>>
         /\ \/ UNCHANGED service
            \/ service' = scorePayload(service, walk.walk.expand, served)
<1>1. walk \in Iterator
  BY DEF Typed
<1>2. /\ answered \in Iterator /\ answered.walk = walk.walk
      /\ answered.numErrors + 1 \in Nat /\ walk.numErrors + 1 \in Nat
  BY <1>1, AnsweredIs
<1>3. \A next \in {link(served), Unset} :
        /\ received(answered, served, next) \in Iterator
        /\ received(answered, served, next).walk = walk.walk
  BY ReceivedIs
<1>4. CASE Page(served)
  <2>1. /\ walk' = resumed(received(answered, served, link(served)))
        /\ service' = scorePayload(service, walk.walk.expand, served)
        /\ UNCHANGED <<table, clock, plan, todo, unchanged, outcome>>
    BY <1>4 DEF Page, source
  <2>2. QED BY <1>3, <2>1, ResumedTyped
<1>5. CASE InvalidPage(served)
  <2>1. /\ walk' = [received(answered, served, link(served)) EXCEPT !.phase = "ended"]
        /\ outcome' = "failed"
        /\ UNCHANGED <<table, clock, plan, todo, unchanged, service>>
    BY <1>5 DEF InvalidPage, source
  <2>2. QED BY <1>3, <2>1 DEF Iterator
<1>6. CASE LookupPage(served)
  <2> DEFINE w == received(answered, served, Unset)
             stuck == served # <<>> /\ keysOf(served) \subseteq {r.key : r \in fetched}
  <2>1. /\ walk' = [IteratorPage(served) EXCEPT !.phase = IF stuck THEN "ended" ELSE @]
        /\ outcome' = IF stuck THEN "failed" ELSE outcome
        /\ UNCHANGED <<table, clock, plan, todo, unchanged, service>>
    BY <1>6 DEF LookupPage, source
  <2>2. IteratorPage(served) =
          [w EXCEPT !.pageSize = walk.pageSize,
                    !.phase = IF served = <<>> THEN "ended" ELSE "next"]
    BY DEF IteratorPage
  <2>3. w \in Iterator /\ w.walk = walk.walk
    BY <1>3
  <2>4. walk.pageSize \in Nat
    BY <1>1 DEF Iterator
  <2> HIDE DEF w, stuck
  <2>5. /\ IteratorPage(served) \in Iterator /\ IteratorPage(served).walk = walk.walk
    BY <2>2, <2>3, <2>4 DEF Iterator
  <2>6. walk' \in Iterator /\ walk'.walk = walk.walk
    BY <2>1, <2>5 DEF Iterator
  <2>7. QED BY <2>1, <2>6
<1>7. CASE GarbledPage
  <2> DEFINE none == [received(answered, <<>>, Unset) EXCEPT !.failing = TRUE]
  <2>1. walk' = resumed(none) /\ UNCHANGED <<table, clock, plan, todo, unchanged, service, outcome>>
    BY <1>7 DEF GarbledPage, source, history
  <2>2. none \in Iterator /\ none.walk = walk.walk
    BY <1>1, GarbledIs
  <2>3. QED BY <2>1, <2>2, ResumedTyped
<1>8. CASE HttpError
  <2>1. PICK n \in Nat : n = answered.numErrors + 1
    BY <1>2
  <2> DEFINE failed == [answered EXCEPT !.numErrors = n, !.failing = TRUE]
  <2>2. failed \in Iterator /\ failed.walk = walk.walk
    BY <1>2 DEF Iterator
  <2>3. failed = [answered EXCEPT !.numErrors = @ + 1, !.failing = TRUE]
    BY <2>1
  <2> HIDE DEF failed
  <2>4. /\ \/ walk' = resumed(failed) /\ UNCHANGED outcome
           \/ walk' = [failed EXCEPT !.phase = "waiting", !.owing = TRUE] /\ UNCHANGED outcome
           \/ walk' = [failed EXCEPT !.phase = "ended"] /\ outcome' = "exited"
        /\ UNCHANGED <<table, clock, plan, todo, unchanged, service>>
    BY <1>8, <2>3 DEF HttpError, source, history
  <2>5. /\ [failed EXCEPT !.phase = "waiting", !.owing = TRUE] \in Iterator
        /\ [failed EXCEPT !.phase = "waiting", !.owing = TRUE].walk = walk.walk
        /\ [failed EXCEPT !.phase = "ended"] \in Iterator
        /\ [failed EXCEPT !.phase = "ended"].walk = walk.walk
        /\ resumed(failed) \in Iterator /\ resumed(failed).walk = walk.walk
    BY <2>2, ResumedTyped DEF Iterator
  <2>6. walk' \in Iterator /\ walk'.walk = walk.walk
    BY <2>4, <2>5
  <2>7. QED BY <2>4, <2>6
<1>9. CASE Unreachable
  <2>1. PICK n \in Nat : n = walk.numErrors + 1
    BY <1>2
  <2> DEFINE failed == [walk EXCEPT !.numErrors = n, !.failing = TRUE]
  <2>2. failed \in Iterator /\ failed.walk = walk.walk
    BY <1>1 DEF Iterator
  <2>3. /\ walk' = resumed(failed)
        /\ UNCHANGED <<table, clock, plan, todo, unchanged, service, outcome>>
    BY <1>9, <2>1 DEF Unreachable, source, history
  <2>4. QED BY <2>2, <2>3, ResumedTyped
<1>10. CASE LookupError
  <2>1. /\ walk' = [answered EXCEPT !.phase = "ended", !.failing = TRUE]
        /\ outcome' = "failed" \/ UNCHANGED outcome
        /\ UNCHANGED <<table, clock, plan, todo, unchanged, service>>
    BY <1>10 DEF LookupError, source, history
  <2>2. QED BY <1>2, <2>1 DEF Iterator
<1>11. QED BY <1>4, <1>5, <1>6, <1>7, <1>8, <1>9, <1>10 DEF Answer

(* A page makes finitely many items.                                       *)
LEMMA ItemsAreFinite ==
  ASSUME NEW expand, IsFiniteSet(expand), NEW r
  PROVE  IsFiniteSet(normalizeRecords(expand, r))
<1> DEFINE parents == {[model |-> "parent", record |-> r, carries |-> expand \ {e}] : e \in expand}
           parts == {[model |-> e, record |-> r.key, carries |-> {}] : e \in expand}
           f == [e \in expand |-> [model |-> "parent", record |-> r, carries |-> expand \ {e}]]
           g == [e \in expand |-> [model |-> e, record |-> r.key, carries |-> {}]]
<1>1. f \in Surjection(expand, parents)
  BY DEF Surjection
<1>2. g \in Surjection(expand, parts)
  BY DEF Surjection
<1>3. IsFiniteSet(parents) /\ IsFiniteSet(parts)
  BY <1>1, <1>2, FS_Surjection
<1>4. CASE expand = {}
  <2>1. normalizeRecords(expand, r) = {[model |-> "parent", record |-> r, carries |-> {}]}
    BY <1>4 DEF normalizeRecords
  <2>2. QED BY <2>1, FS_Singleton
<1>5. CASE expand # {}
  <2>1. normalizeRecords(expand, r) = parents \cup parts
    BY <1>5 DEF normalizeRecords
  <2> HIDE DEF parents, parts
  <2>2. QED BY <1>3, <2>1, FS_Union
<1>6. QED BY <1>4, <1>5

LEMMA HashesAreFinite ==
  ASSUME NEW expand, IsFiniteSet(expand), NEW S, NEW records \in Seq(S)
  PROVE  IsFiniteSet(hashes(expand, records))
<1> DEFINE places == DOMAIN records
           sets == {normalizeRecords(expand, records[i]) : i \in places}
           f == [i \in places |-> normalizeRecords(expand, records[i])]
<1>1. IsFiniteSet(places)
  BY SeqIs, FS_Interval
<1>2. f \in Surjection(places, sets)
  BY DEF Surjection
<1>3. IsFiniteSet(sets)
  BY <1>1, <1>2, FS_Surjection
<1>4. \A T \in sets : IsFiniteSet(T)
  BY ItemsAreFinite
<1>5. hashes(expand, records) = UNION sets
  BY DEF hashes
<1> HIDE DEF sets
<1>6. QED BY <1>3, <1>4, <1>5, FS_UNION

(* Scoring adds to the count the parents that are new.                     *)
LEMMA ScoreIs ==
  ASSUME Typed, ServiceInv, service' = scorePayload(service, walk.walk.expand, served)
  PROVE  LET new == hashes(walk.walk.expand, served)
             n == Cardinality(ofParent(new \ service.hashes))
         IN /\ ServiceInv' /\ service'.hashes = service.hashes \cup new
            /\ IsFiniteSet(ofParent(new \ service.hashes)) /\ n \in Nat
            /\ service'.numUniqueRecordsFetched = service.numUniqueRecordsFetched + n
<1> DEFINE new == hashes(walk.walk.expand, served)
           added == ofParent(new \ service.hashes)
<1>1. IsFiniteSet(new)
  <2>1. IsFiniteSet(walk.walk.expand)
    BY DEF Typed, Iterator, Walk
  <2>2. served \in Seq(Record(Keys))
    BY ServedTyped DEF isTable
  <2>3. QED BY <2>1, <2>2, HashesAreFinite
<1>2. service' = [service EXCEPT !.hashes = service.hashes \cup new,
                                 !.numUniqueRecordsFetched =
                                    service.numUniqueRecordsFetched + Cardinality(added)]
  BY DEF scorePayload, ServiceInv
<1> HIDE DEF new
<1>3. IsFiniteSet(added) /\ Cardinality(added) \in Nat
  <2>1. added \in SUBSET new
    BY DEF ofParent
  <2>2. QED BY <1>1, <2>1, FS_Subset, FS_CardinalityType
<1> HIDE DEF added
<1>4. PICK n \in Nat : n = service.numUniqueRecordsFetched + Cardinality(added)
  BY <1>3 DEF ServiceInv
<1>5. IsFiniteSet(service.hashes \cup new)
  BY <1>1, FS_Union DEF ServiceInv
<1>6. /\ DOMAIN service' = {"hashes", "numUniqueRecordsFetched", "count"}
      /\ service'.hashes = service.hashes \cup new /\ service'.count = service.count
      /\ service'.numUniqueRecordsFetched = n
  BY <1>2, <1>4 DEF ServiceInv
<1>7. ServiceInv'
  BY <1>5, <1>6 DEF ServiceInv
<1>8. QED BY <1>3, <1>4, <1>6, <1>7 DEF added, new

LEMMA InitTypes ==
  ASSUME Init
  PROVE  TypeInv
<1>1. /\ clock = 3 /\ plan \in Plans /\ todo = plan.walks /\ outcome = "running"
      /\ service = [hashes |-> {}, numUniqueRecordsFetched |-> 0, count |-> Unset]
      /\ unchanged = {}
  BY DEF Init
<1>2. Typed
  <2>1. ASSUME NEW r \in ToSet(table) PROVE r.timestamp <= clock
    <3>1. r.timestamp \in {1, 2}
      BY InitTable
    <3>2. QED BY <1>1, <3>1
  <2>2. QED BY <1>1, <2>1, InitTable, InitWalk DEF Typed
<1>3. ServiceInv
  BY <1>1, FS_EmptySet DEF ServiceInv
<1>4. QED BY <1>1, <1>2, <1>3, InitWalk DEF TypeInv

LEMMA StepTypes ==
  ASSUME TypeInv, Next
  PROVE  TypeInv'
<1>1. /\ Typed /\ plan \in Plans /\ todo \in Seq(Walk) /\ unchanged \subseteq ToSet(table)
      /\ outcome \in {"running", "done", "failed", "exited"} /\ ServiceInv
      /\ isTable(table) /\ walk \in Iterator /\ clock \in Nat
  BY DEF TypeInv, Typed, isTable
<1>2. CASE Begin
  <2>1. /\ UNCHANGED <<table, clock, plan, outcome, service>> /\ todo # <<>>
        /\ walk' = iterator(Head(todo)) /\ todo' = Tail(todo) /\ unchanged' = ToSet(table)
    BY <1>2 DEF Begin, source
  <2>2. Head(todo) \in Walk /\ Tail(todo) \in Seq(Walk)
    BY <1>1, <2>1, HeadTailProperties
  <2>3. walk' \in Iterator
    <3>1. /\ Head(todo).query \in Request /\ ClientPageSize \in Nat /\ 0 \in Nat
      BY <2>2, ReplicationAssumption DEF Walk
    <3>2. QED BY <2>1, <2>2, <3>1 DEF iterator, Iterator
  <2>4. QED BY <1>1, <2>1, <2>2, <2>3 DEF TypeInv, Typed, ServiceInv
<1>3. CASE Count
  <2>1. /\ UNCHANGED <<table, clock, plan, todo, outcome, unchanged>>
        /\ walk' = [walk EXCEPT !.phase = "next"]
        /\ \E c \in {Len(selected(table, walk.walk.query)), 0, NaN} :
             service' = [service EXCEPT !.count = c]
    BY <1>3 DEF Count, source, history
  <2>2. Len(selected(table, walk.walk.query)) \in Nat
    BY <1>1, SelectedIs DEF isTable, isAnswer
  <2>3. PICK c \in Nat \cup {NaN} : service' = [service EXCEPT !.count = c]
    BY <2>1, <2>2
  <2>4. walk' \in Iterator
    BY <1>1, <2>1 DEF Iterator
  <2>5. ServiceInv'
    BY <1>1, <2>3 DEF ServiceInv
  <2>6. QED BY <1>1, <2>1, <2>4, <2>5 DEF TypeInv, Typed
<1>4. CASE Send
  <2>1. PICK q \in Request : q = buildRequest(walk)
    BY <1>1, BuildTyped
  <2>2. /\ UNCHANGED <<table, clock, plan, todo, outcome, unchanged, service>>
        /\ \/ walk' = [walk EXCEPT !.phase = "ended"]
           \/ walk' = [walk EXCEPT !.phase = "sent", !.requestUri = q, !.owing = FALSE]
    BY <1>4, <2>1 DEF Send, source, history
  <2>3. walk' \in Iterator
    <3>1. CASE walk' = [walk EXCEPT !.phase = "ended"]
      BY <1>1, <3>1 DEF Iterator
    <3>2. CASE walk' = [walk EXCEPT !.phase = "sent", !.requestUri = q, !.owing = FALSE]
      BY <1>1, <3>2 DEF Iterator
    <3>3. QED BY <2>2, <3>1, <3>2
  <2>4. QED BY <1>1, <2>2, <2>3 DEF TypeInv, Typed, ServiceInv
<1>5. CASE Answer
  <2>1. /\ walk' \in Iterator /\ outcome' \in {outcome, "failed", "exited"}
        /\ UNCHANGED <<table, clock, plan, todo, unchanged>>
        /\ \/ UNCHANGED service
           \/ service' = scorePayload(service, walk.walk.expand, served)
    BY <1>1, <1>5, AnswerTyped
  <2>2. ServiceInv'
    <3>1. CASE UNCHANGED service
      BY <1>1, <3>1 DEF ServiceInv
    <3>2. CASE service' = scorePayload(service, walk.walk.expand, served)
      BY <1>1, <3>2, ScoreIs
    <3>3. QED BY <2>1, <3>1, <3>2
  <2>3. QED BY <1>1, <2>1, <2>2 DEF TypeInv, Typed
<1>6. CASE Wake
  <2>1. /\ UNCHANGED <<table, clock, plan, todo, outcome, unchanged, service>>
        /\ walk' = resumed(walk)
    BY <1>6 DEF Wake, source, history
  <2>2. QED BY <1>1, <2>1, ResumedTyped DEF TypeInv, Typed, ServiceInv
<1>7. CASE Report
  <2>1. /\ UNCHANGED <<table, clock, plan, todo, outcome, unchanged, service>>
        /\ walk' = [walk EXCEPT !.phase = "reported"]
    BY <1>7 DEF Report, source, history
  <2>2. walk' \in Iterator
    BY <1>1, <2>1 DEF Iterator
  <2>3. QED BY <1>1, <2>1, <2>2 DEF TypeInv, Typed, ServiceInv
<1>8. CASE Finish
  <2>1. /\ UNCHANGED <<table, clock, plan, todo, walk, unchanged, service>>
        /\ outcome' = "done"
    BY <1>8 DEF Finish, source, history
  <2>2. QED BY <1>1, <2>1 DEF TypeInv, Typed, ServiceInv
<1>9. CASE NextRun
  <2>1. /\ UNCHANGED <<table, clock, plan, walk, unchanged, service>>
        /\ outcome' = "running" /\ todo' = plan.walks
    BY <1>9 DEF NextRun, source
  <2>2. plan.walks \in Seq(Walk)
    BY <1>1, ReplicationAssumption
  <2>3. QED BY <1>1, <2>1, <2>2 DEF TypeInv, Typed, ServiceInv
<1>10. CASE Create \/ Modify \/ Delete
  <2>1. /\ isTable(table') /\ \A r \in ToSet(table') : r \in ToSet(table) \/ r.timestamp = clock
        /\ unchanged' \subseteq ToSet(table')
        /\ UNCHANGED <<clock, plan, outcome, todo, walk, service>>
    BY <1>1, <1>10, WrittenTyped
  <2>2. \A r \in ToSet(table') : r.timestamp <= clock
    BY <1>1, <2>1 DEF Typed
  <2>3. QED BY <1>1, <2>1, <2>2 DEF TypeInv, Typed, ServiceInv, isTable
<1>11. CASE Tick
  <2>1. /\ UNCHANGED <<table, plan, outcome, todo, walk, unchanged, service>>
        /\ clock' = clock + 1
    BY <1>11 DEF Tick, history
  <2>2. \A r \in ToSet(table) : r.timestamp <= clock + 1
    <3>1. \A r \in ToSet(table) : r.timestamp \in Nat /\ r.timestamp <= clock
      <4>1. ToSet(table) \subseteq Record(Keys)
        BY <1>1, SeqIs DEF isTable
      <4>2. QED BY <1>1, <4>1 DEF Typed, Record
    <3>2. QED BY <1>1, <3>1
  <2>3. QED BY <1>1, <2>1, <2>2 DEF TypeInv, Typed, ServiceInv
<1>12. QED BY <1>2, <1>3, <1>4, <1>5, <1>6, <1>7, <1>8, <1>9, <1>10, <1>11 DEF Next, Step

LEMMA TypeOKHolds ==
  ASSUME TypeInv
  PROVE  TypeOK
<1>1. /\ table \in Seq(Record(Keys)) /\ uniqueKeys(table) /\ isTable(table)
  BY DEF TypeInv, Typed, isTable
<1> DEFINE places == DOMAIN table
           f == [i \in places |-> table[i].key]
<1>2. Len(table) \in Nat /\ places = 1 .. Len(table)
  BY <1>1, SeqIs
<1>3. IsFiniteSet(places) /\ Cardinality(places) = Len(table)
  <2>1. PICK n \in Nat : n = Len(table)
    BY <1>2
  <2>2. IsFiniteSet(1 .. n) /\ Cardinality(1 .. n) = n
    BY FS_Interval
  <2>3. QED BY <1>2, <2>1, <2>2
<1>4. f \in Surjection(places, keysOf(table))
  BY DEF Surjection, keysOf
<1>5. f \in [places -> keysOf(table)] /\ \A i, j \in places : f[i] = f[j] => i = j
  BY <1>1, <1>4 DEF Surjection, uniqueKeys
<1> HIDE DEF f, places
<1>6. f \in Injection(places, keysOf(table))
  BY <1>5, Fun_IsInj
<1>7. Cardinality(keysOf(table)) = Len(table)
  BY <1>3, <1>4, <1>6, FS_Surjection
<1>8. QED BY <1>1, <1>7 DEF TypeInv, Typed, ServiceInv, TypeOK

(* The state has its type: the table has each key once, an iterator of     *)
(* whichever strategy stays one (legacy/lib/replication/utils.js and       *)
(* replication-iterator.ts), whatever is written, served and lost, and the *)
(* counters of the state service are numbers.                              *)
THEOREM TypesHold == Spec => []TypeOK
<1>1. Init => TypeInv
  BY InitTypes
<1>2. TypeInv /\ [Next]_vars => TypeInv'
  <2>1. CASE Next
    BY <2>1, StepTypes
  <2>2. ASSUME TypeInv, UNCHANGED vars PROVE TypeInv'
    BY <2>2 DEF vars, TypeInv, Typed, ServiceInv
  <2>3. QED BY <2>1, <2>2
<1>3. TypeInv => TypeOK
  BY TypeOKHolds
<1>4. QED BY <1>1, <1>2, <1>3, PTL DEF Spec

-----------------------------------------------------------------------------
(* The count. *)

LEMMA ParentsOfOne ==
  ASSUME NEW w \in OneExpansion, NEW records, NEW x \in ofParent(hashes(w.expand, records))
  PROVE  x = itself(x.record)
<1>1. PICK i \in DOMAIN records : x \in normalizeRecords(w.expand, records[i])
  BY DEF ofParent, hashes
<1>2. x.model = "parent"
  BY DEF ofParent
<1>3. CASE w.expand = {}
  BY <1>1, <1>3 DEF normalizeRecords, itself
<1>4. CASE w.expand # {}
  <2>1. PICK e \in STRING \ {"parent"} : w.expand = {e}
    <3>1. /\ w.expand \in SUBSET (STRING \ {"parent"}) /\ IsFiniteSet(w.expand)
          /\ Cardinality(w.expand) <= 1
      BY DEF OneExpansion, Walk
    <3>2. Cardinality(w.expand) \in Nat /\ Cardinality(w.expand) # 0
      BY <1>4, <3>1, FS_CardinalityType, FS_EmptySet
    <3>3. Cardinality(w.expand) = 1
      BY <3>1, <3>2
    <3>4. QED BY <3>1, <3>3, FS_Singleton
  <2>2. \/ x = [model |-> "parent", record |-> records[i], carries |-> {e} \ {e}]
        \/ x = [model |-> e, record |-> records[i].key, carries |-> {}]
    BY <1>1, <2>1 DEF normalizeRecords
  <2>3. x = [model |-> "parent", record |-> records[i], carries |-> {e} \ {e}]
    BY <1>2, <2>1, <2>2
  <2>4. {e} \ {e} = {}
    OBVIOUS
  <2>5. QED BY <2>3, <2>4 DEF itself
<1>5. QED BY <1>3, <1>4

LEMMA PlansExpandOne ==
  ASSUME NEW p \in Plans, \A i \in DOMAIN p.walks : Cardinality(p.walks[i].expand) <= 1
  PROVE  p.walks \in Seq(OneExpansion) /\ p.walks # <<>>
<1>1. p.walks \in Seq(Walk) /\ p.walks # <<>>
  BY ReplicationAssumption
<1>2. /\ DOMAIN p.walks = 1 .. Len(p.walks) /\ Len(p.walks) \in Nat
      /\ p.walks \in [1 .. Len(p.walks) -> Walk]
  BY <1>1, SeqIs
<1>3. \A i \in 1 .. Len(p.walks) : p.walks[i] \in OneExpansion
  BY <1>2 DEF OneExpansion
<1>4. p.walks \in [1 .. Len(p.walks) -> OneExpansion]
  BY <1>2, <1>3
<1>5. QED BY <1>1, <1>2, <1>4, SeqDef

(* What is new is counted, and what was there is not counted again.        *)
LEMMA ScoreCountsItems ==
  ASSUME Typed, ServiceInv, EveryItemCountsOnce,
         service' = scorePayload(service, walk.walk.expand, served)
  PROVE  EveryItemCountsOnce'
<1> DEFINE new == hashes(walk.walk.expand, served)
           old == service.hashes
           added == ofParent(new \ old)
           parents == ofParent(old)
<1>1. /\ service'.hashes = old \cup new /\ IsFiniteSet(added) /\ Cardinality(added) \in Nat
      /\ service'.numUniqueRecordsFetched = service.numUniqueRecordsFetched + Cardinality(added)
  BY ScoreIs
<1>2. service.numUniqueRecordsFetched = Cardinality(parents)
  BY DEF EveryItemCountsOnce
<1>3. IsFiniteSet(parents)
  <2>1. parents \in SUBSET old
    BY DEF ofParent
  <2>2. QED BY <2>1, FS_Subset DEF ServiceInv
<1> HIDE DEF new
<1>4. ofParent(old \cup new) = parents \cup added /\ parents \cap added = {}
  BY DEF ofParent
<1>5. Cardinality(parents \cup added) = Cardinality(parents) + Cardinality(added)
  <2> HIDE DEF parents, added
  <2>1. /\ Cardinality(parents) \in Nat /\ Cardinality(parents \cap added) = 0
        /\ Cardinality(parents \cup added)
             = Cardinality(parents) + Cardinality(added) - Cardinality(parents \cap added)
    BY <1>1, <1>3, <1>4, FS_Union, FS_EmptySet, FS_CardinalityType
  <2>2. QED BY <1>1, <2>1
<1>6. service'.numUniqueRecordsFetched = Cardinality(ofParent(service'.hashes))
  BY <1>1, <1>2, <1>4, <1>5
<1>7. QED BY <1>6 DEF EveryItemCountsOnce

\* Only an answer is scored.
LEMMA OnlyAnswersAreScored ==
  ASSUME Typed, ServiceInv, Next
  PROVE  \/ /\ service'.hashes = service.hashes
            /\ service'.numUniqueRecordsFetched = service.numUniqueRecordsFetched
         \/ service' = scorePayload(service, walk.walk.expand, served)
<1>1. CASE Count
  <2>1. \E c : service' = [service EXCEPT !.count = c]
    BY <1>1 DEF Count, source, history
  <2>2. QED BY <2>1 DEF ServiceInv
<1>2. CASE Answer
  BY <1>2, AnswerTyped
<1>3. CASE Begin \/ Send \/ Wake \/ Report \/ Finish \/ NextRun \/ Tick
  BY <1>3 DEF Begin, Send, Wake, Report, Finish, NextRun, Tick, source, history
<1>4. CASE Create \/ Modify \/ Delete
  BY <1>4, WrittenTyped
<1>5. QED BY <1>1, <1>2, <1>3, <1>4 DEF Next, Step

LEMMA StepCountsItems ==
  ASSUME TypeInv, EveryItemCountsOnce, Next
  PROVE  EveryItemCountsOnce'
<1>1. Typed /\ ServiceInv
  BY DEF TypeInv
<1>2. ASSUME service'.hashes = service.hashes,
             service'.numUniqueRecordsFetched = service.numUniqueRecordsFetched
      PROVE  EveryItemCountsOnce'
  BY <1>2 DEF EveryItemCountsOnce
<1>3. ASSUME service' = scorePayload(service, walk.walk.expand, served) PROVE EveryItemCountsOnce'
  BY <1>1, <1>3, ScoreCountsItems
<1>4. QED BY <1>1, <1>2, <1>3, OnlyAnswersAreScored

\* A request with one expansion at most adds no second item of a record.
LEMMA ScoreKeepsForms ==
  ASSUME Typed, ServiceInv, CountInv, walk'.walk = walk.walk, UNCHANGED todo,
         service' = scorePayload(service, walk.walk.expand, served)
  PROVE  CountInv'
<1> DEFINE new == hashes(walk.walk.expand, served)
           old == service.hashes
<1>1. service'.hashes = old \cup new
  BY ScoreIs
<1>2. /\ walk.walk \in OneExpansion /\ todo \in Seq(OneExpansion)
      /\ \A x \in ofParent(old) : x = itself(x.record)
  BY DEF CountInv
<1>3. \A x \in ofParent(new) : x = itself(x.record)
  BY <1>2, ParentsOfOne
<1> HIDE DEF new
<1>4. \A x \in ofParent(old \cup new) : x = itself(x.record)
  BY <1>2, <1>3 DEF ofParent
<1>5. QED BY <1>1, <1>2, <1>4 DEF CountInv

LEMMA StepCounts ==
  ASSUME expandsOneAtATime, TypeInv, CountInv, Next
  PROVE  CountInv'
<1>1. /\ Typed /\ ServiceInv /\ plan \in Plans /\ walk \in Iterator
      /\ walk.walk \in OneExpansion /\ todo \in Seq(OneExpansion)
  BY DEF TypeInv, Typed, CountInv
<1>2. ASSUME walk'.walk \in OneExpansion, todo' \in Seq(OneExpansion), UNCHANGED service
      PROVE  CountInv'
  BY <1>2 DEF CountInv
<1>3. CASE Begin
  <2>1. /\ UNCHANGED service /\ todo # <<>> /\ walk' = iterator(Head(todo))
        /\ todo' = Tail(todo)
    BY <1>3 DEF Begin, source
  <2>2. Head(todo) \in OneExpansion /\ Tail(todo) \in Seq(OneExpansion)
    BY <1>1, <2>1, HeadTailProperties
  <2>3. walk'.walk = Head(todo)
    BY <2>1 DEF iterator
  <2>4. QED BY <1>2, <2>1, <2>2, <2>3
<1>4. CASE Count
  <2>1. /\ UNCHANGED todo /\ walk' = [walk EXCEPT !.phase = "next"]
        /\ \E c : service' = [service EXCEPT !.count = c]
    BY <1>4 DEF Count, source, history
  <2>2. walk'.walk = walk.walk
    BY <1>1, <2>1 DEF Iterator
  <2>3. service'.hashes = service.hashes
    BY <1>1, <2>1 DEF ServiceInv
  <2>4. QED BY <2>1, <2>2, <2>3 DEF CountInv
<1>5. CASE Send
  <2>1. /\ UNCHANGED <<todo, service>>
        /\ \/ walk' = [walk EXCEPT !.phase = "ended"]
           \/ \E q : walk' = [walk EXCEPT !.phase = "sent", !.requestUri = q, !.owing = FALSE]
    BY <1>5 DEF Send, history
  <2>2. walk'.walk = walk.walk
    BY <1>1, <2>1 DEF Iterator
  <2>3. QED BY <1>1, <1>2, <2>1, <2>2
<1>6. CASE Answer
  <2>1. /\ walk'.walk = walk.walk /\ UNCHANGED todo
        /\ \/ UNCHANGED service
           \/ service' = scorePayload(service, walk.walk.expand, served)
    BY <1>1, <1>6, AnswerTyped
  <2>2. CASE UNCHANGED service
    BY <1>1, <1>2, <2>1, <2>2
  <2>3. CASE service' = scorePayload(service, walk.walk.expand, served)
    BY <1>1, <2>1, <2>3, ScoreKeepsForms
  <2>4. QED BY <2>1, <2>2, <2>3
<1>7. CASE Wake
  <2>1. UNCHANGED <<todo, service>> /\ walk' = resumed(walk)
    BY <1>7 DEF Wake, history
  <2>2. QED BY <1>1, <1>2, <2>1, ResumedTyped
<1>8. CASE Report
  <2>1. UNCHANGED <<todo, service>> /\ walk' = [walk EXCEPT !.phase = "reported"]
    BY <1>8 DEF Report, history
  <2>2. walk'.walk = walk.walk
    BY <1>1, <2>1 DEF Iterator
  <2>3. QED BY <1>1, <1>2, <2>1, <2>2
<1>9. CASE Finish
  <2>1. UNCHANGED <<todo, service, walk>>
    BY <1>9 DEF Finish
  <2>2. QED BY <1>1, <1>2, <2>1
<1>10. CASE NextRun
  <2>1. UNCHANGED <<walk, service>> /\ todo' = plan.walks
    BY <1>10 DEF NextRun
  <2>2. QED BY <1>1, <1>2, <2>1, PlansExpandOne DEF expandsOneAtATime
<1>11. CASE Create \/ Modify \/ Delete
  <2>1. UNCHANGED <<todo, walk, service>>
    BY <1>1, <1>11, WrittenTyped
  <2>2. QED BY <1>1, <1>2, <2>1
<1>12. CASE Tick
  <2>1. UNCHANGED <<todo, walk, service>>
    BY <1>12 DEF Tick, history
  <2>2. QED BY <1>1, <1>2, <2>1
<1>13. QED BY <1>3, <1>4, <1>5, <1>6, <1>7, <1>8, <1>9, <1>10, <1>11, <1>12 DEF Next, Step

(* Records that are counted once each are as many as their items.          *)
LEMMA CountIsExact ==
  ASSUME ServiceInv, EveryItemCountsOnce, CountInv
  PROVE  EveryVersionCountsOnce
<1> DEFINE parents == ofParent(service.hashes)
           records == {x.record : x \in parents}
           f == [x \in parents |-> x.record]
<1>1. IsFiniteSet(parents)
  <2>1. parents \in SUBSET service.hashes
    BY DEF ofParent
  <2>2. QED BY <2>1, FS_Subset DEF ServiceInv
<1>2. f \in Surjection(parents, records)
  BY DEF Surjection
<1>3. \A x, y \in parents : f[x] = f[y] => x = y
  BY DEF CountInv
<1>4. f \in [parents -> records]
  BY <1>2 DEF Surjection
<1>5. service.numUniqueRecordsFetched = Cardinality(parents)
  BY DEF EveryItemCountsOnce
<1> HIDE DEF f, parents
<1>6. f \in Injection(parents, records)
  BY <1>3, <1>4, Fun_IsInj
<1>7. Cardinality(records) = Cardinality(parents)
  BY <1>1, <1>2, <1>6, FS_Surjection
<1>8. QED BY <1>5, <1>7 DEF EveryVersionCountsOnce, parents

(* The plan of a process stays what it is.                                 *)
LEMMA PlanStays == ASSUME [Next]_vars PROVE plan' = plan
<1>1. \A t, k : Written(t, k) => plan' = plan
  BY DEF Written
<1>2. Answer => plan' = plan
  BY DEF Answer, Page, InvalidPage, LookupPage, GarbledPage, HttpError, Unreachable, LookupError
<1>3. Begin \/ Count \/ Send \/ Wake \/ Report \/ Finish \/ NextRun \/ Tick => plan' = plan
  BY DEF Begin, Count, Send, Wake, Report, Finish, NextRun, Tick
<1>4. Create \/ Modify \/ Delete => plan' = plan
  BY <1>1 DEF Create, Modify, Delete
<1>5. QED BY <1>2, <1>3, <1>4 DEF Next, Step, vars

(* However often the strategies fetch a record, the report counts each     *)
(* form of it once that was scored; and each version of it once, in every  *)
(* process none of whose requests carries several expansions               *)
(* (scorePayload over normalizeRecords, utils.js): for every page size,    *)
(* sequence of writes and sequence of faults.                              *)
THEOREM CountsEachOnce == Spec => []UniqueCountIsExact
<1> DEFINE Inv == TypeInv /\ EveryItemCountsOnce /\ (expandsOneAtATime => CountInv)
<1>1. Init => Inv
  <2>1. ASSUME Init, expandsOneAtATime PROVE CountInv
    <3>1. TypeInv /\ ServiceInv
      BY <2>1, InitTypes DEF TypeInv
    <3>2. /\ plan \in Plans /\ todo = plan.walks
          /\ service.hashes = {} /\ service.numUniqueRecordsFetched = 0
      BY <2>1 DEF Init
    <3>3. plan.walks \in Seq(OneExpansion) /\ walk.walk = plan.walks[1] /\ 1 \in 1 .. Len(plan.walks)
      BY <2>1, <3>2, PlansExpandOne, InitWalk DEF expandsOneAtATime
    <3>4. walk.walk \in OneExpansion
      BY <3>3, SeqIs
    <3>5. ofParent(service.hashes) = {}
      BY <3>2 DEF ofParent
    <3>6. QED BY <3>2, <3>3, <3>4, <3>5, FS_EmptySet DEF CountInv
  <2>2. ASSUME Init PROVE EveryItemCountsOnce
    <3>1. ofParent(service.hashes) = {} /\ service.numUniqueRecordsFetched = 0
      BY <2>2 DEF Init, ofParent
    <3>2. QED BY <3>1, FS_EmptySet DEF EveryItemCountsOnce
  <2>3. QED BY <2>1, <2>2, InitTypes
<1>2. Inv /\ [Next]_vars => Inv'
  <2>1. ASSUME Inv, [Next]_vars PROVE expandsOneAtATime' => expandsOneAtATime
    BY <2>1, PlanStays DEF expandsOneAtATime
  <2>2. ASSUME Inv, Next PROVE Inv'
    BY <2>1, <2>2, StepTypes, StepCountsItems, StepCounts
  <2>3. ASSUME Inv, UNCHANGED vars PROVE Inv'
    BY <2>1, <2>3 DEF vars, TypeInv, Typed, ServiceInv, CountInv, EveryItemCountsOnce
  <2>4. QED BY <2>2, <2>3
<1>3. Inv => UniqueCountIsExact
  BY CountIsExact DEF TypeInv, UniqueCountIsExact
<1>4. QED BY <1>1, <1>2, <1>3, PTL DEF Spec
=============================================================================
