--------------------------- MODULE WriteRunsProofs ---------------------------
(***************************************************************************)
(* What the runs that write to a provider's server promise, for every set  *)
(* of runs, keys and bounds: the records they leave alone, the records     *)
(* they account for, what a pass and what a failure of theirs mean.        *)
(*                                                                         *)
(* The two runners share the server and nothing else; the invariant has a  *)
(* part for each, and a part for what both owe the provider's records.     *)
(***************************************************************************)
EXTENDS WriteRuns, FiniteSetTheorems, SequenceTheorems, WellFoundedInduction, TLAPS

-----------------------------------------------------------------------------
(* The least and the greatest of a set of numbers. *)

(* There is a least of the numbers of a set.                               *)
LEMMA LeastExists ==
  ASSUME NEW S \in SUBSET Nat, S # {}
  PROVE  \E x \in S : \A y \in S : x <= y
<1>1. PICK x \in S : \A y \in S : ~ (<<y, x>> \in OpToRel(<, Nat))
  BY NatLessThanWellFounded, WFMin
<1>2. \A y \in S : ~ (y < x)
  BY <1>1, Zenon DEF OpToRel
<1>3. QED BY <1>2

(* There is a greatest of numbers that have a bound.                       *)
LEMMA GreatestExists ==
  ASSUME NEW n \in Nat, NEW S \in SUBSET (0 .. n), S # {}
  PROVE  \E x \in S : \A y \in S : y <= x
<1> DEFINE U == {u \in Nat : \A y \in S : y <= u}
<1>1. U \in SUBSET Nat /\ n \in U
  OBVIOUS
<1>2. PICK x \in U : \A u \in U : x <= u
  <2> HIDE DEF U
  <2>1. QED BY <1>1, LeastExists
<1>3. x \notin S => x - 1 \in U
  <2>1. PICK z \in S : TRUE
    OBVIOUS
  <2>2. ASSUME x \notin S, NEW y \in S PROVE y <= x - 1
    BY <2>2
  <2>3. ASSUME x \notin S PROVE x - 1 \in Nat
    BY <2>1, <2>2, <2>3
  <2>4. QED BY <2>2, <2>3
<1>4. QED BY <1>2, <1>3

(* Max of a bounded set of naturals is one of them, and none exceeds it.   *)
LEMMA MaxIsGreatest ==
  ASSUME NEW n \in Nat, NEW S \in SUBSET (0 .. n), S # {}
  PROVE  Max(S) \in S /\ \A y \in S : y <= Max(S)
BY GreatestExists DEF Max

(* Numbers below a bound can be put in increasing order: a least set that  *)
(* cannot be would have a greatest number, and the others could be.        *)
LEMMA SortedExists ==
  ASSUME NEW N \in Nat, NEW S \in SUBSET (1 .. N)
  PROVE  \E s \in [1 .. Cardinality(S) -> S] :
           /\ \A x \in S : \E k \in 1 .. Cardinality(S) : s[k] = x
           /\ \A j, k \in 1 .. Cardinality(S) : j < k => s[j] < s[k]
<1> DEFINE sorts(T, s) == /\ s \in [1 .. Cardinality(T) -> T]
                          /\ \A x \in T : \E k \in 1 .. Cardinality(T) : s[k] = x
                          /\ \A j, k \in 1 .. Cardinality(T) : j < k => s[j] < s[k]
           unsorted == {n \in Nat : \E T \in SUBSET (1 .. N) :
                          Cardinality(T) = n /\ \A s : ~sorts(T, s)}
<1>1. \A T \in SUBSET (1 .. N) : IsFiniteSet(T) /\ Cardinality(T) \in Nat
  <2>1. IsFiniteSet(1 .. N)
    BY FS_Interval
  <2>2. QED BY <2>1, FS_Subset, FS_CardinalityType
<1>2. SUFFICES ASSUME unsorted # {} PROVE FALSE
  <2>1. \E s : sorts(S, s)
    BY <1>1, <1>2
  <2>2. QED BY <2>1
<1>3. PICK n \in unsorted : \A m \in unsorted : n <= m
  BY <1>2, LeastExists
<1>4. PICK T \in SUBSET (1 .. N) : Cardinality(T) = n /\ \A s : ~sorts(T, s)
  OBVIOUS
<1>5. T # {}
  <2>1. ASSUME T = {} PROVE FALSE
    <3>1. Cardinality(T) = 0
      BY <2>1, FS_EmptySet
    <3>2. sorts(T, [k \in 1 .. 0 |-> k])
      BY <2>1, <3>1
    <3>3. QED BY <1>4, <3>2
  <2>2. QED BY <2>1
<1>6. PICK m \in T : \A y \in T : y <= m
  <2>1. T \in SUBSET (0 .. N)
    OBVIOUS
  <2>2. QED BY <1>5, <2>1, GreatestExists
<1> DEFINE U == T \ {m}
<1>7. Cardinality(U) = n - 1 /\ n - 1 \in Nat /\ U \in SUBSET (1 .. N)
  <2>1. Cardinality(U) = n - 1
    BY <1>1, <1>4, <1>6, FS_RemoveElement
  <2>2. U \in SUBSET (1 .. N)
    OBVIOUS
  <2>3. QED BY <1>1, <2>1, <2>2
<1>8. PICK u : sorts(U, u)
  <2>1. n - 1 \notin unsorted
    BY <1>3, <1>7
  <2>2. QED BY <1>7, <2>1
<1> DEFINE s == [k \in 1 .. n |-> IF k = n THEN m ELSE u[k]]
<1>9. sorts(T, s)
  <2>1. n \in Nat /\ n > 0
    BY <1>7
  <2>2. \A k \in 1 .. n : s[k] \in T /\ (k # n => k \in 1 .. n - 1 /\ s[k] = u[k] /\ u[k] \in U)
    <3>1. ASSUME NEW k \in 1 .. n, k # n
          PROVE  k \in 1 .. n - 1 /\ s[k] = u[k] /\ u[k] \in U
      <4>1. k \in 1 .. n - 1
        BY <2>1, <3>1
      <4>2. u[k] \in U
        BY <1>7, <1>8, <4>1
      <4>3. QED BY <3>1, <4>1, <4>2
    <3>2. \A k \in 1 .. n : k = n => s[k] = m
      OBVIOUS
    <3>3. QED BY <3>1, <3>2
  <2>3. s \in [1 .. n -> T]
    BY <2>2
  <2>4. ASSUME NEW x \in T PROVE \E k \in 1 .. n : s[k] = x
    <3>1. CASE x = m
      BY <2>1, <3>1
    <3>2. CASE x # m
      <4>1. PICK k \in 1 .. n - 1 : u[k] = x
        BY <1>7, <1>8, <3>2
      <4>2. k \in 1 .. n /\ k # n
        BY <2>1
      <4>3. QED BY <4>1, <4>2
    <3>3. QED BY <3>1, <3>2
  <2>5. ASSUME NEW j \in 1 .. n, NEW k \in 1 .. n, j < k PROVE s[j] < s[k]
    <3>1. j # n /\ s[j] = u[j] /\ u[j] \in U /\ j \in 1 .. n - 1
      BY <2>1, <2>2, <2>5
    <3>2. CASE k = n
      <4>1. u[j] <= m /\ u[j] # m /\ u[j] \in 1 .. N /\ m \in 1 .. N
        BY <1>6, <3>1
      <4>2. QED BY <2>1, <3>1, <3>2, <4>1
    <3>3. CASE k # n
      BY <1>7, <1>8, <2>2, <2>5, <3>1, <3>3
    <3>4. QED BY <3>2, <3>3
  <2>6. QED BY <1>4, <2>3, <2>4, <2>5
<1>10. QED BY <1>4, <1>9

-----------------------------------------------------------------------------

(* The scenarios of an Add/Edit run, in the order a run takes them.        *)
CreateNames == {"create-succeeds-representation", "create-succeeds-minimal", "create-fails"}
UpdateNames == {"update-succeeds-representation", "update-succeeds-minimal", "update-fails"}
DeleteNames == {"delete-succeeds", "delete-fails"}
AddEditNames == CreateNames \cup UpdateNames \cup DeleteNames

Rank ==
  [name \in AddEditNames |->
     CASE name = "create-succeeds-representation" -> 1
       [] name = "create-succeeds-minimal" -> 2
       [] name = "create-fails" -> 3
       [] name = "update-succeeds-representation" -> 4
       [] name = "update-succeeds-minimal" -> 5
       [] name = "update-fails" -> 6
       [] name = "delete-succeeds" -> 7
       [] OTHER -> 8]

(* Those of an EntityEvent run, and the place of each from the end.        *)
CanaryNames == {"create", "update", "delete"}
Turn ==
  [name \in CanaryNames \cup {"sync"} |->
     CASE name = "create" -> 4 [] name = "update" -> 3 [] name = "delete" -> 2 [] OTHER -> 1]

Full4 == <<"create", "update", "delete", "sync">>
Full3 == <<"update", "delete", "sync">>
Full2 == <<"delete", "sync">>
Full1 == <<"sync">>

Names == AddEditNames \cup CanaryNames \cup {"sync"}

RecordStates == {"theirs", "made", "updated", "absent"}
Steps == [key : Keys \cup {None}, good : BOOLEAN, seq : Nat]
Events == [key : Keys, seq : Nat, by : CanaryNames \cup {"old", "other"}]
Owed == [key : Keys, by : CanaryNames]
Reports == [outcome : {"none", "refused", "stopping", "threw", "reported", "unfinished"},
            removed : SUBSET Keys, notRemoved : SUBSET Keys, left : SUBSET Keys]

EventsBounded == \E n \in Nat : \A e \in events : e.seq <= n

(***************************************************************************)
(* The inductive invariant.                                                *)
(***************************************************************************)
RunnerOK ==
  /\ run \in Runs
  /\ phase \in {"checking", "act", "follow", "cleaning", "look", "gone", "done"}
  /\ todo \in Seq(Names)
  /\ step \in Steps
  /\ created \in Seq(Keys) /\ removed \in SUBSET Range(created)
  /\ remaining \in Seq(Keys) /\ Range(remaining) \subseteq Range(created)
  /\ passed \cap failed = {}
  /\ report \in Reports
  /\ high \in Int /\ -1 <= high /\ high <= newest
  /\ polls \in 0 .. MaxPolls

ServerOK ==
  /\ record \in [Keys -> RecordStates]
  /\ events \in SUBSET Events /\ EventsBounded
  /\ owed \in SUBSET Owed
  /\ made \in SUBSET Keys /\ told \in SUBSET Keys /\ blame \in BOOLEAN

(* What a run may write to: new keys, and the keys of its payloads.        *)
Payload == IF addEdit THEN {run.createKey, run.updateKey, run.deleteId} ELSE {}
NewKeys == Fresh \cup (IF addEdit THEN {run.createKey} \ {None} ELSE {})

RecordInv == \A k \in Theirs : k \notin Payload => record[k] = "theirs"

(* An Add/Edit run: what it has still to do.                               *)
Going == phase \in {"act", "follow"}

Planned ==
  /\ "create" \in run.actions => run.formats["create"] # {}
  /\ "create" \notin run.actions /\ "update" \in run.actions => run.updateKey # None
  /\ "create" \notin run.actions /\ "delete" \in run.actions => run.deleteId # None
  /\ "delete" \in run.actions => run.deleteFailsId # None

PlanInv ==
  addEdit /\ Going =>
    /\ Planned
    /\ todo # <<>>
    /\ \A i \in DOMAIN todo :
         /\ todo[i] \in AddEditNames /\ todo[i] \notin passed \cup failed
         /\ todo[i] \in UpdateNames => "update" \in run.actions
         /\ todo[i] \in DeleteNames => "delete" \in run.actions
    /\ \A i, j \in DOMAIN todo : i < j => Rank[todo[i]] < Rank[todo[j]]

KeysInv ==
  addEdit =>
    /\ phase \notin {"look", "gone"}
    /\ Range(created) \subseteq NewKeys
    /\ phase = "follow" => step.key \in Keys /\ step.good \in BOOLEAN
    /\ phase = "follow" /\ Head(todo) \in CreateNames => step.key \in NewKeys
    /\ phase = "follow" /\ Head(todo) = "delete-succeeds" /\ run.deleteId = None
         => step.key \in Range(created)

(* What it made is known to it, removed, or on the way to be.              *)
Pending == IF phase = "follow" /\ Head(todo) \in CreateNames THEN {step.key} ELSE {}

AccountInv ==
  addEdit =>
    /\ phase = "checking" => told = {} /\ created = <<>> /\ removed = {}
                             /\ passed = {} /\ failed = {} /\ report = NoReport
    /\ Going => report = NoReport /\ told \subseteq Range(created) \cup Pending
    /\ Going => \A k \in removed : record[k] = "absent"
    /\ Going /\ removed # {} => \A i \in DOMAIN todo : todo[i] = "delete-fails"
    /\ phase = "cleaning" =>
         /\ report.outcome \in {"none", "stopping"}
         /\ report.outcome = "none" => told \subseteq Range(created)
         /\ remaining # <<>>
         /\ \A k \in Range(created) :
              \/ record[k] = "absent"
              \/ k \in Range(remaining) \cup report.notRemoved
              \/ k \in report.removed \cap pretended
    /\ MadeIsAccountedFor

(* A server that does as it is asked fails no scenario.                    *)
Expected ==
  [name \in AddEditNames |->
     IF name \in CreateNames THEN "made" ELSE IF name \in UpdateNames THEN "updated" ELSE "absent"]

FaultInv ==
  addEdit /\ ~blame =>
    /\ failed = {}
    /\ phase = "follow" => step.good /\ record[step.key] = Expected[Head(todo)]
    /\ Going /\ "create" \in run.actions =>
         created # <<>> \/ \E i \in DOMAIN todo :
                              todo[i] \in CreateNames \ {"create-fails"}

NamesInv == addEdit => passed \subseteq AddEditNames

(* An EntityEvent run: where it is.                                        *)
PlaceInv ==
  canary =>
    /\ phase \in {"checking", "act", "look", "gone", "done"}
    /\ created = <<>> /\ remaining = <<>>
    /\ phase = "checking" => passed = {} /\ failed = {} /\ owed = {}
    /\ phase = "act" => todo \in {Full4, Full3, Full2, Full1}
    /\ phase = "look" => todo \in {Full4, Full3, Full2}
    /\ phase = "gone" => todo = Full2
    /\ phase \in {"look", "gone"} \/ (phase = "act" /\ todo \in {Full3, Full2})
         => step.key \in Keys \ Theirs
    /\ step.seq > 0 => \E e \in events : e.key = step.key /\ e.seq = step.seq
    /\ phase \in {"act", "look", "gone"} =>
         \A name \in CanaryNames \cup {"sync"} :
           Len(todo) >= Turn[name] => name \notin passed \cup failed

(* A change has one event at most, or is owed one, and none before it is   *)
(* made; the provider's own events are of the provider's records.          *)
Ahead(name) ==
  \/ phase = "checking"
  \/ phase = "act" /\ Len(todo) >= Turn[name]
  \/ phase \in {"look", "gone"} /\ Len(todo) > Turn[name]

EventsInv ==
  canary =>
    /\ \A e \in events : e.by \in CanaryNames <=> e.key \notin Theirs
    /\ \A o \in owed : o.key \notin Theirs
    /\ \A e, f \in events : e.by = f.by /\ e.by \in CanaryNames => e = f
    /\ \A e \in events, o \in owed : e.by # o.by
    /\ \A o, p \in owed : o.by = p.by => o = p
    /\ \A name \in CanaryNames : Ahead(name) =>
         (\A e \in events : e.by # name) /\ (\A o \in owed : o.by # name)

(* What passed has been seen.                                              *)
Seen(name) == \E e \in events : e.by = name /\ e.seq <= step.seq

SeenInv ==
  canary =>
    /\ "create" \in passed => Seen("create")
    /\ {"create", "update"} \subseteq passed => Seen("update")
    /\ {"create", "update"} \subseteq passed /\ phase = "gone" /\ step.good
         => \E e \in events : e.by = "delete"
    /\ CanaryNames \subseteq passed => \E e \in events : e.by = "delete"
    /\ phase \in {"act", "look", "gone"} /\ high >= 0 => \A e \in events : e.by = "old" => e.seq <= high
    /\ run.mode = "full" /\ "sync" \in passed => \E e \in events : e.by # "old"

BlameInv ==
  canary /\ ~blame =>
    /\ failed = {} /\ high >= 0
    /\ phase = "look" =>
         /\ step.good
         /\ \A e \in events : e.by = Head(todo) => e.key = step.key /\ e.seq > step.seq
         /\ \A o \in owed : o.by = Head(todo) => o.key = step.key
    /\ phase \in {"look", "gone"} /\ todo = Full2 => record[step.key] = "absent"
    /\ phase = "gone" => step.good

TypeInv == RunnerOK /\ ServerOK
OwnInv == PlanInv /\ KeysInv /\ AccountInv /\ FaultInv /\ NamesInv
CanaryInv == PlaceInv /\ EventsInv /\ SeenInv /\ BlameInv
IInv == TypeInv /\ RecordInv /\ OwnInv /\ CanaryInv

-----------------------------------------------------------------------------
(* Sequences of keys and of names.                                         *)
LEMMA RangeTail ==
  ASSUME NEW S, NEW s \in Seq(S), s # <<>>
  PROVE  /\ Head(s) \in S /\ Tail(s) \in Seq(S)
         /\ Range(s) = {Head(s)} \cup Range(Tail(s))
         /\ Len(Tail(s)) = Len(s) - 1 /\ Len(s) >= 1
         /\ \A i \in DOMAIN Tail(s) : i + 1 \in DOMAIN s /\ Tail(s)[i] = s[i + 1]
<1>1. /\ Head(s) \in S /\ Tail(s) \in Seq(S) /\ Len(Tail(s)) = Len(s) - 1
      /\ Len(s) \in Nat /\ Len(s) >= 1 /\ Head(s) = s[1]
      /\ DOMAIN s = 1 .. Len(s) /\ DOMAIN Tail(s) = 1 .. (Len(s) - 1)
  BY EmptySeq, HeadTailProperties
<1>2. \A i \in DOMAIN Tail(s) : i + 1 \in DOMAIN s /\ Tail(s)[i] = s[i + 1]
  BY <1>1, HeadTailProperties
<1>3. ASSUME NEW x \in Range(s) PROVE x \in {Head(s)} \cup Range(Tail(s))
  <2>1. PICK i \in DOMAIN s : x = s[i]
    BY <1>3 DEF Range
  <2>2. CASE i = 1
    BY <1>1, <2>1, <2>2
  <2>3. CASE i # 1
    <3>1. i - 1 \in DOMAIN Tail(s) /\ (i - 1) + 1 = i
      BY <1>1, <2>1, <2>3
    <3>2. Tail(s)[i - 1] = s[i]
      BY <1>2, <3>1
    <3>3. QED BY <2>1, <3>1, <3>2 DEF Range
  <2>4. QED BY <2>2, <2>3
<1>4. Range(Tail(s)) \subseteq Range(s)
  BY <1>2 DEF Range
<1>5. Head(s) \in Range(s)
  BY <1>1 DEF Range
<1>6. QED BY <1>1, <1>2, <1>3, <1>4, <1>5

LEMMA RangeConcat ==
  ASSUME NEW S, NEW s \in Seq(S), NEW t \in Seq(S)
  PROVE  s \o t \in Seq(S) /\ Range(s \o t) = Range(s) \cup Range(t)
<1>1. /\ Len(s) \in Nat /\ Len(t) \in Nat /\ DOMAIN s = 1 .. Len(s) /\ DOMAIN t = 1 .. Len(t)
      /\ s \o t \in Seq(S) /\ DOMAIN (s \o t) = 1 .. (Len(s) + Len(t))
      /\ \A i \in 1 .. (Len(s) + Len(t)) :
           (s \o t)[i] = IF i <= Len(s) THEN s[i] ELSE t[i - Len(s)]
  BY ConcatProperties
<1>2. ASSUME NEW x \in Range(s \o t) PROVE x \in Range(s) \cup Range(t)
  <2>1. PICK i \in 1 .. (Len(s) + Len(t)) : x = (s \o t)[i]
    BY <1>1, <1>2 DEF Range
  <2>2. CASE i <= Len(s)
    BY <1>1, <2>1, <2>2 DEF Range
  <2>3. CASE ~(i <= Len(s))
    <3>1. i - Len(s) \in 1 .. Len(t) /\ x = t[i - Len(s)]
      BY <1>1, <2>1, <2>3
    <3>2. QED BY <1>1, <3>1 DEF Range
  <2>4. QED BY <2>2, <2>3
<1>3. ASSUME NEW x \in Range(s) PROVE x \in Range(s \o t)
  <2>1. PICK i \in 1 .. Len(s) : x = s[i]
    BY <1>1, <1>3 DEF Range
  <2>2. i \in 1 .. (Len(s) + Len(t)) /\ i <= Len(s)
    BY <1>1
  <2>3. QED BY <1>1, <2>1, <2>2 DEF Range
<1>4. ASSUME NEW x \in Range(t) PROVE x \in Range(s \o t)
  <2>1. PICK i \in 1 .. Len(t) : x = t[i]
    BY <1>1, <1>4 DEF Range
  <2>2. i + Len(s) \in 1 .. (Len(s) + Len(t)) /\ ~(i + Len(s) <= Len(s)) /\ i + Len(s) - Len(s) = i
    BY <1>1
  <2>3. (s \o t)[i + Len(s)] = t[i]
    BY <1>1, <2>2
  <2>4. QED BY <1>1, <2>1, <2>2, <2>3 DEF Range
<1>5. QED BY <1>1, <1>2, <1>3, <1>4

LEMMA RangeOfOne ==
  ASSUME NEW S, NEW x \in S
  PROVE  <<x>> \in Seq(S) /\ Range(<<x>>) = {x}
BY DEF Range

LEMMA RangeOfNone ==
  ASSUME NEW S
  PROVE  <<>> \in Seq(S) /\ Range(<<>>) = {}
BY DEF Range

(* What is left of a sequence of keys without some of them: the others, in *)
(* their order.                                                            *)
LEMMA WithoutIs ==
  ASSUME NEW S, NEW keys \in Seq(S), NEW gone
  PROVE  without(keys, gone) \in Seq(S) /\ Range(without(keys, gone)) = Range(keys) \ gone
<1> DEFINE kept == {i \in DOMAIN keys : keys[i] \notin gone}
           orders(s) == Range(s) = kept /\ \A i, j \in DOMAIN s : i < j => s[i] < s[j]
           order == CHOOSE s \in [1 .. Cardinality(kept) -> kept] : orders(s)
<1>1. Len(keys) \in Nat /\ DOMAIN keys = 1 .. Len(keys) /\ kept \in SUBSET (1 .. Len(keys))
  OBVIOUS
<1>2. PICK s \in [1 .. Cardinality(kept) -> kept] :
        /\ \A x \in kept : \E k \in 1 .. Cardinality(kept) : s[k] = x
        /\ \A j, k \in 1 .. Cardinality(kept) : j < k => s[j] < s[k]
  <2> HIDE DEF kept
  <2>1. QED BY <1>1, SortedExists
<1>3. orders(s)
  <2> HIDE DEF kept
  <2>1. QED BY <1>2 DEF Range
<1>4. order \in [1 .. Cardinality(kept) -> kept] /\ orders(order)
  <2> HIDE DEF kept, orders
  <2>1. QED BY <1>2, <1>3
<1>5. without(keys, gone) = [i \in DOMAIN order |-> keys[order[i]]]
  BY DEF without
<1>6. Cardinality(kept) \in Nat
  <2>1. IsFiniteSet(1 .. Len(keys))
    BY <1>1, FS_Interval
  <2> HIDE DEF kept
  <2>2. IsFiniteSet(kept)
    BY <1>1, <2>1, FS_Subset
  <2>3. QED BY <2>2, FS_CardinalityType
<1> DEFINE w == [i \in 1 .. Cardinality(kept) |-> keys[order[i]]]
<1>7. without(keys, gone) = w
  <2> HIDE DEF kept, orders, order
  <2>1. DOMAIN order = 1 .. Cardinality(kept)
    BY <1>4
  <2>2. QED BY <1>5, <2>1
<1>8. \A i \in 1 .. Cardinality(kept) : order[i] \in DOMAIN keys /\ keys[order[i]] \in S \ gone
  <2>1. \A i \in kept : i \in DOMAIN keys /\ keys[i] \in S \ gone
    OBVIOUS
  <2> HIDE DEF kept, orders, order
  <2>2. QED BY <1>4, <2>1
<1>9. w \in Seq(S)
  <2> HIDE DEF kept, orders, order
  <2>1. QED BY <1>6, <1>8
<1>10. ASSUME NEW x \in Range(w) PROVE x \in Range(keys) \ gone
  <2> HIDE DEF kept, orders, order
  <2>1. PICK i \in 1 .. Cardinality(kept) : x = keys[order[i]]
    BY <1>10 DEF Range
  <2>2. QED BY <1>8, <2>1 DEF Range
<1>11. ASSUME NEW x \in Range(keys) \ gone PROVE x \in Range(w)
  <2>1. PICK i \in kept : x = keys[i]
    BY DEF Range
  <2> HIDE DEF kept
  <2>2. PICK k \in DOMAIN order : order[k] = i
    BY <1>4, <2>1 DEF Range
  <2> HIDE DEF orders, order
  <2>3. k \in 1 .. Cardinality(kept)
    BY <1>4
  <2>4. w[k] = x
    BY <2>1, <2>2, <2>3
  <2>5. QED BY <2>3, <2>4 DEF Range
<1>12. QED BY <1>7, <1>9, <1>10, <1>11

-----------------------------------------------------------------------------
(* What a run is given, and the feed it reads.                             *)
LEMMA RunIs ==
  ASSUME run \in Runs
  PROVE  /\ addEdit <=> ~canary
         /\ addEdit => /\ run.actions \in SUBSET Actions
                       /\ run.formats \in [{"create", "update"} -> SUBSET Formats]
                       /\ run.createKey \in Keys \cup {None}
                       /\ run.updateKey \in Keys \cup {None}
                       /\ run.deleteId \in Keys \cup {None}
                       /\ run.deleteFailsId \in {Missing, None}
         /\ canary => run.mode \in {"full", "observe"}
<1>1. run \in Run
  BY KeysAreApart
<1>2. QED BY <1>1 DEF Run, addEdit, canary

LEMMA KeysAre ==
  /\ Fresh \subseteq Keys /\ Theirs \subseteq Keys /\ Missing \in Keys /\ None \notin Keys
  /\ Fresh \cap Theirs = {} /\ Missing \notin Fresh /\ Missing \notin Theirs
BY KeysAreApart DEF Keys

(* The newest sequence of the feed bounds every event's.                   *)
LEMMA NewestIs ==
  ASSUME ServerOK
  PROVE  newest \in Nat /\ \A e \in events : e.seq <= newest /\ e.seq \in Nat
<1> DEFINE S == {e.seq : e \in events} \cup {0}
<1>1. PICK n \in Nat : \A e \in events : e.seq <= n
  BY DEF ServerOK, EventsBounded
<1>2. \A e \in events : e.seq \in Nat
  BY DEF ServerOK, Events
<1>3. S \in SUBSET (0 .. n) /\ S # {}
  BY <1>1, <1>2
<1>4. Max(S) \in S /\ \A y \in S : y <= Max(S)
  <2> HIDE DEF S
  <2>1. QED BY <1>3, MaxIsGreatest
<1>5. newest = Max(S)
  BY DEF newest
<1>6. newest \in Nat
  <2>1. Max(S) \in 0 .. n
    BY <1>3, <1>4
  <2>2. QED BY <1>5, <2>1
<1>7. \A e \in events : e.seq \in S
  OBVIOUS
<1>8. QED
  <2> HIDE DEF S
  <2>1. QED BY <1>2, <1>4, <1>5, <1>6, <1>7

(* And the newest of a record, if it is not 0, is an event's.              *)
LEMMA LatestIs ==
  ASSUME ServerOK, NEW k
  PROVE  /\ latestOf(k) \in Nat
         /\ \A e \in events : e.key = k => e.seq <= latestOf(k)
         /\ latestOf(k) > 0 => \E e \in events : e.key = k /\ e.seq = latestOf(k)
<1> DEFINE S == {e.seq : e \in {f \in events : f.key = k}} \cup {0}
<1>1. PICK n \in Nat : \A e \in events : e.seq <= n
  BY DEF ServerOK, EventsBounded
<1>2. \A e \in events : e.seq \in Nat
  BY DEF ServerOK, Events
<1>3. S \in SUBSET (0 .. n) /\ S # {}
  BY <1>1, <1>2
<1>4. Max(S) \in S /\ \A y \in S : y <= Max(S)
  <2> HIDE DEF S
  <2>1. QED BY <1>3, MaxIsGreatest
<1>5. latestOf(k) = Max(S)
  BY DEF latestOf
<1>6. latestOf(k) \in Nat
  <2>1. Max(S) \in 0 .. n
    BY <1>3, <1>4
  <2>2. QED BY <1>5, <2>1
<1>7. \A e \in events : e.key = k => e.seq \in S
  OBVIOUS
<1>8. latestOf(k) \in S
  <2> HIDE DEF S
  <2>1. QED BY <1>4, <1>5
<1>9. latestOf(k) > 0 => \E e \in events : e.key = k /\ e.seq = latestOf(k)
  BY <1>8
<1>10. \A y \in S : y <= latestOf(k)
  <2> HIDE DEF S
  <2>1. QED BY <1>4, <1>5
<1>11. QED BY <1>6, <1>7, <1>9, <1>10

(* An announcement puts one event on top of the feed.                      *)
LEMMA AnnouncesOne ==
  ASSUME ServerOK, NEW k \in Keys, NEW by \in CanaryNames \cup {"old", "other"},
         Announces(k, by)
  PROVE  /\ events' \in SUBSET Events /\ EventsBounded'
         /\ events' = events \cup {[key |-> k, seq |-> newest + 1, by |-> by]}
         /\ newest' \in Nat /\ newest <= newest'
<1>1. newest \in Nat /\ \A e \in events : e.seq <= newest /\ e.seq \in Nat
  BY NewestIs
<1>2. events' = events \cup {[key |-> k, seq |-> newest + 1, by |-> by]}
  BY DEF Announces
<1>3. events' \in SUBSET Events
  <2>1. events \in SUBSET Events
    BY DEF ServerOK
  <2>2. [key |-> k, seq |-> newest + 1, by |-> by] \in Events
    BY <1>1 DEF Events
  <2>3. QED BY <1>2, <2>1, <2>2
<1>4. \A e \in events' : e.seq <= newest + 1 /\ e.seq \in Nat
  BY <1>1, <1>2
<1>5. EventsBounded'
  <2>1. newest + 1 \in Nat
    BY <1>1
  <2>2. \E n \in Nat : \A e \in events' : e.seq <= n
    BY <1>4, <2>1
  <2>3. QED BY <2>2 DEF EventsBounded
<1>6. newest' \in Nat /\ newest + 1 <= newest'
  <2> DEFINE S == {e.seq : e \in events'} \cup {0}
  <2>1. S \in SUBSET (0 .. newest + 1) /\ S # {} /\ newest + 1 \in S
    <3>1. [key |-> k, seq |-> newest + 1, by |-> by] \in events'
      BY <1>2
    <3>2. newest + 1 \in S
      BY <3>1
    <3>3. QED BY <1>1, <1>4, <3>2
  <2>2. Max(S) \in S /\ \A y \in S : y <= Max(S)
    <3>1. newest + 1 \in Nat
      BY <1>1
    <3> HIDE DEF S
    <3>2. QED BY <2>1, <3>1, MaxIsGreatest
  <2>3. newest' = Max(S)
    BY DEF newest
  <2>4. Max(S) \in Nat /\ newest + 1 <= Max(S)
    <3> HIDE DEF S
    <3>1. Max(S) \in 0 .. newest + 1
      BY <2>1, <2>2
    <3>2. newest + 1 <= Max(S)
      BY <2>1, <2>2
    <3>3. Max(S) \in Nat
      BY <1>1, <3>1
    <3>4. QED BY <3>2, <3>3
  <2>5. QED BY <2>3, <2>4
<1>7. QED BY <1>1, <1>2, <1>3, <1>5, <1>6

-----------------------------------------------------------------------------
(* The scenarios of a planned run rise in rank: creates before updates     *)
(* before deletes, and none twice.                                         *)
Rises(t, low, up) ==
  /\ t \in Seq(AddEditNames)
  /\ \A i \in DOMAIN t : low <= Rank[t[i]] /\ Rank[t[i]] <= up
  /\ \A i, j \in DOMAIN t : i < j => Rank[t[i]] < Rank[t[j]]

LEMMA RankIs ==
  /\ Rank["create-succeeds-representation"] = 1 /\ Rank["create-succeeds-minimal"] = 2
  /\ Rank["create-fails"] = 3 /\ Rank["update-succeeds-representation"] = 4
  /\ Rank["update-succeeds-minimal"] = 5 /\ Rank["update-fails"] = 6
  /\ Rank["delete-succeeds"] = 7 /\ Rank["delete-fails"] = 8
  /\ \A name \in AddEditNames : Rank[name] \in 1 .. 8
BY DEF Rank, AddEditNames, CreateNames, UpdateNames, DeleteNames

LEMMA RisesConcat ==
  ASSUME NEW a \in Int, NEW b \in Int, NEW c \in Int, NEW d \in Int, a <= c, b < c, b <= d,
         NEW s, NEW t, Rises(s, a, b), Rises(t, c, d)
  PROVE  Rises(s \o t, a, d)
<1>1. s \in Seq(AddEditNames) /\ t \in Seq(AddEditNames)
  BY DEF Rises
<1>2. /\ Len(s) \in Nat /\ Len(t) \in Nat /\ DOMAIN s = 1 .. Len(s) /\ DOMAIN t = 1 .. Len(t)
      /\ s \o t \in Seq(AddEditNames) /\ DOMAIN (s \o t) = 1 .. (Len(s) + Len(t))
      /\ \A i \in 1 .. (Len(s) + Len(t)) :
           (s \o t)[i] = IF i <= Len(s) THEN s[i] ELSE t[i - Len(s)]
  BY <1>1, ConcatProperties
<1> DEFINE st == s \o t
           R(x) == Rank[x]
<1>3. \A x \in AddEditNames : R(x) \in Int
  BY RankIs
<1>4. \A i \in 1 .. (Len(s) + Len(t)) :
        /\ st[i] \in AddEditNames
        /\ i <= Len(s) => i \in DOMAIN s /\ st[i] = s[i]
        /\ i > Len(s) => i - Len(s) \in DOMAIN t /\ st[i] = t[i - Len(s)]
  <2>1. ASSUME NEW i \in 1 .. (Len(s) + Len(t)), i <= Len(s)
        PROVE  i \in DOMAIN s /\ st[i] = s[i] /\ st[i] \in AddEditNames
    BY <1>1, <1>2, <2>1
  <2>2. ASSUME NEW i \in 1 .. (Len(s) + Len(t)), i > Len(s)
        PROVE  i - Len(s) \in DOMAIN t /\ st[i] = t[i - Len(s)] /\ st[i] \in AddEditNames
    <3>1. i - Len(s) \in 1 .. Len(t) /\ ~(i <= Len(s))
      BY <1>2, <2>2
    <3>2. st[i] = t[i - Len(s)]
      BY <1>2, <3>1
    <3>3. QED BY <1>1, <1>2, <3>1, <3>2
  <2>3. ASSUME NEW i \in 1 .. (Len(s) + Len(t)) PROVE i <= Len(s) \/ i > Len(s)
    BY <1>2
  <2>4. QED BY <2>1, <2>2, <2>3
<1>5. /\ \A i \in DOMAIN s : a <= R(s[i]) /\ R(s[i]) <= b /\ s[i] \in AddEditNames
      /\ \A i \in DOMAIN t : c <= R(t[i]) /\ R(t[i]) <= d /\ t[i] \in AddEditNames
      /\ \A i, j \in DOMAIN s : i < j => R(s[i]) < R(s[j])
      /\ \A i, j \in DOMAIN t : i < j => R(t[i]) < R(t[j])
  BY <1>1, <1>2 DEF Rises
<1> HIDE DEF st, R
<1>6. ASSUME NEW i \in 1 .. (Len(s) + Len(t)) PROVE a <= R(st[i]) /\ R(st[i]) <= d
  <2>1. CASE i <= Len(s)
    <3>1. R(st[i]) \in Int /\ a <= R(st[i]) /\ R(st[i]) <= b
      BY <1>3, <1>4, <1>5, <2>1
    <3>2. QED BY <3>1
  <2>2. CASE i > Len(s)
    <3>1. R(st[i]) \in Int /\ c <= R(st[i]) /\ R(st[i]) <= d
      BY <1>3, <1>4, <1>5, <2>2
    <3>2. QED BY <3>1
  <2>3. QED BY <1>2, <2>1, <2>2
<1>7. ASSUME NEW i \in 1 .. (Len(s) + Len(t)), NEW j \in 1 .. (Len(s) + Len(t)), i < j
      PROVE  R(st[i]) < R(st[j])
  <2>1. CASE j <= Len(s)
    <3>1. i <= Len(s)
      BY <1>2, <1>7, <2>1
    <3>2. QED BY <1>4, <1>5, <1>7, <2>1, <3>1
  <2>2. CASE i > Len(s)
    <3>1. j > Len(s) /\ i - Len(s) < j - Len(s)
      BY <1>2, <1>7, <2>2
    <3>2. QED BY <1>4, <1>5, <2>2, <3>1
  <2>3. CASE i <= Len(s) /\ j > Len(s)
    <3>1. R(st[i]) \in Int /\ R(st[i]) <= b
      BY <1>3, <1>4, <1>5, <2>3
    <3>2. R(st[j]) \in Int /\ c <= R(st[j])
      BY <1>3, <1>4, <1>5, <2>3
    <3>3. QED BY <3>1, <3>2
  <2>4. QED BY <1>2, <2>1, <2>2, <2>3
<1>8. QED BY <1>2, <1>6, <1>7 DEF Rises, st, R

LEMMA RisesOne ==
  ASSUME NEW name \in AddEditNames
  PROVE  Rises(<<name>>, Rank[name], Rank[name])
<1>1. <<name>> \in Seq(AddEditNames) /\ DOMAIN <<name>> = {1} /\ <<name>>[1] = name
  OBVIOUS
<1>2. Rank[name] \in Int
  BY RankIs
<1>3. QED BY <1>1, <1>2 DEF Rises

LEMMA RisesNone ==
  ASSUME NEW a, NEW b
  PROVE  Rises(<<>>, a, b)
BY DEF Rises

LEMMA RisesWithin ==
  ASSUME NEW a \in Int, NEW b \in Int, NEW c \in Int, NEW d \in Int, c <= a, b <= d,
         NEW t, Rises(t, a, b)
  PROVE  Rises(t, c, d)
<1>1. \A i \in DOMAIN t : Rank[t[i]] \in Int
  <2>1. \A i \in DOMAIN t : t[i] \in AddEditNames
    BY DEF Rises
  <2>2. QED BY <2>1, RankIs
<1>2. QED BY <1>1 DEF Rises

(* The scenarios of one action that has formats: three names of which the  *)
(* formats choose the first two.                                           *)
ChosenOf(names, formats) ==
  (IF "representation" \in formats THEN <<names[1]>> ELSE <<>>)
    \o (IF "minimal" \in formats THEN <<names[2]>> ELSE <<>>) \o <<names[3]>>

LEMMA ChosenRises ==
  ASSUME NEW x \in AddEditNames, NEW y \in AddEditNames, NEW z \in AddEditNames,
         Rank[x] < Rank[y], Rank[y] < Rank[z], NEW formats \in SUBSET Formats
  PROVE  /\ Rises(ChosenOf(<<x, y, z>>, formats), Rank[x], Rank[z])
         /\ z \in Range(ChosenOf(<<x, y, z>>, formats))
         /\ Range(ChosenOf(<<x, y, z>>, formats)) \subseteq {x, y, z}
         /\ formats # {} => \E n \in {x, y} : n \in Range(ChosenOf(<<x, y, z>>, formats))
<1> DEFINE p == IF "representation" \in formats THEN <<x>> ELSE <<>>
           q == IF "minimal" \in formats THEN <<y>> ELSE <<>>
           c == (p \o q) \o <<z>>
<1>1. ChosenOf(<<x, y, z>>, formats) = c
  BY DEF ChosenOf
<1>2. Rank[x] \in Int /\ Rank[y] \in Int /\ Rank[z] \in Int
  BY RankIs
<1>3. Rises(p, Rank[x], Rank[x]) /\ Rises(q, Rank[y], Rank[y]) /\ Rises(<<z>>, Rank[z], Rank[z])
  BY RisesOne, RisesNone
<1>4. /\ p \in Seq(AddEditNames) /\ q \in Seq(AddEditNames) /\ <<z>> \in Seq(AddEditNames)
      /\ Range(<<z>>) = {z}
      /\ Range(p) = IF "representation" \in formats THEN {x} ELSE {}
      /\ Range(q) = IF "minimal" \in formats THEN {y} ELSE {}
  BY RangeOfOne, RangeOfNone
<1> HIDE DEF p, q
<1>5. Rises(p \o q, Rank[x], Rank[y])
  BY <1>2, <1>3, RisesConcat
<1>6. Rises(c, Rank[x], Rank[z])
  BY <1>2, <1>3, <1>5, RisesConcat
<1>7. Range(c) = (Range(p) \cup Range(q)) \cup {z}
  <2>1. p \o q \in Seq(AddEditNames) /\ Range(p \o q) = Range(p) \cup Range(q)
    BY <1>4, RangeConcat
  <2>2. Range(c) = Range(p \o q) \cup Range(<<z>>)
    <3> DEFINE pq == p \o q
               last == <<z>>
    <3>1. pq \in Seq(AddEditNames) /\ last \in Seq(AddEditNames)
      BY <1>4, <2>1
    <3> HIDE DEF pq, last
    <3>2. Range(pq \o last) = Range(pq) \cup Range(last)
      BY <3>1, RangeConcat
    <3>3. QED BY <3>2 DEF pq, last
  <2>3. QED BY <1>4, <2>1, <2>2
<1>8. formats # {} => "representation" \in formats \/ "minimal" \in formats
  BY DEF Formats
<1> HIDE DEF c
<1>9. QED BY <1>1, <1>4, <1>6, <1>7, <1>8

LEMMA PlannedIs ==
  ASSUME run \in Runs, addEdit, ~planProblems(run), ~providedPayloadProblems(run)
  PROVE  /\ Planned /\ run.actions # {}
         /\ \A a \in {"create", "update"} : a \in run.actions <=> run.formats[a] # {}
<1>1. \A a \in {"create", "update"} : a \in run.actions <=> run.formats[a] # {}
  BY DEF planProblems
<1>2. run.actions # {}
  BY DEF planProblems
<1>3. Planned
  BY <1>1 DEF providedPayloadProblems, Planned
<1>4. QED BY <1>1, <1>2, <1>3

LEMMA ScenariosAre ==
  ASSUME run \in Runs, addEdit, ~planProblems(run), ~providedPayloadProblems(run)
  PROVE  /\ Rises(scenariosFor(run), 1, 8)
         /\ scenariosFor(run) # <<>>
         /\ \A n \in Range(scenariosFor(run)) :
              /\ n \in CreateNames => "create" \in run.actions
              /\ n \in UpdateNames => "update" \in run.actions
              /\ n \in DeleteNames => "delete" \in run.actions
         /\ "create" \in run.actions =>
              \E n \in CreateNames \ {"create-fails"} : n \in Range(scenariosFor(run))
<1> DEFINE x == IF "create" \in run.actions THEN ChosenOf(creates, run.formats["create"]) ELSE <<>>
           y == IF "update" \in run.actions THEN ChosenOf(updates, run.formats["update"]) ELSE <<>>
           z == IF "delete" \in run.actions THEN deletes ELSE <<>>
<1>1. scenariosFor(run) = (x \o y) \o z
  BY DEF scenariosFor, ChosenOf
<1>2. /\ run.formats["create"] \in SUBSET Formats /\ run.formats["update"] \in SUBSET Formats
      /\ run.actions \in SUBSET Actions /\ run.actions # {}
      /\ "create" \in run.actions => run.formats["create"] # {}
  BY RunIs, PlannedIs
<1>3. /\ creates = <<"create-succeeds-representation", "create-succeeds-minimal", "create-fails">>
      /\ updates = <<"update-succeeds-representation", "update-succeeds-minimal", "update-fails">>
  BY DEF creates, updates
<1>4. /\ {"create-succeeds-representation", "create-succeeds-minimal", "create-fails",
          "update-succeeds-representation", "update-succeeds-minimal", "update-fails",
          "delete-succeeds", "delete-fails"} \subseteq AddEditNames
  BY DEF AddEditNames, CreateNames, UpdateNames, DeleteNames
<1>5. /\ Rises(x, 1, 3) /\ Range(x) \subseteq CreateNames
      /\ "create" \notin run.actions => Range(x) = {}
      /\ "create" \in run.actions =>
           \E n \in CreateNames \ {"create-fails"} : n \in Range(x)
  <2>1. CASE "create" \in run.actions
    <3>1. x = ChosenOf(<<"create-succeeds-representation", "create-succeeds-minimal",
                         "create-fails">>, run.formats["create"])
      BY <1>3, <2>1
    <3>2. /\ Rises(x, 1, 3)
          /\ Range(x) \subseteq {"create-succeeds-representation", "create-succeeds-minimal",
                                 "create-fails"}
          /\ \E n \in {"create-succeeds-representation", "create-succeeds-minimal"} : n \in Range(x)
      BY <1>2, <1>4, <2>1, <3>1, ChosenRises, RankIs
    <3>3. QED BY <2>1, <3>2 DEF CreateNames
  <2>2. CASE "create" \notin run.actions
    BY <2>2, RisesNone, RangeOfNone
  <2>3. QED BY <2>1, <2>2
<1>6. /\ Rises(y, 4, 6) /\ Range(y) \subseteq UpdateNames
      /\ "update" \notin run.actions => Range(y) = {}
      /\ "update" \in run.actions => Range(y) # {}
  <2>1. CASE "update" \in run.actions
    <3>1. y = ChosenOf(<<"update-succeeds-representation", "update-succeeds-minimal",
                         "update-fails">>, run.formats["update"])
      BY <1>3, <2>1
    <3>2. /\ Rises(y, 4, 6) /\ "update-fails" \in Range(y)
          /\ Range(y) \subseteq {"update-succeeds-representation", "update-succeeds-minimal",
                                 "update-fails"}
      BY <1>2, <1>4, <2>1, <3>1, ChosenRises, RankIs
    <3>3. QED BY <2>1, <3>2 DEF UpdateNames
  <2>2. CASE "update" \notin run.actions
    BY <2>2, RisesNone, RangeOfNone
  <2>3. QED BY <2>1, <2>2
<1>7. /\ Rises(z, 7, 8) /\ Range(z) \subseteq DeleteNames
      /\ "delete" \notin run.actions => Range(z) = {}
      /\ "delete" \in run.actions => Range(z) # {}
  <2>1. CASE "delete" \in run.actions
    <3>1. z = <<"delete-succeeds", "delete-fails">>
      BY <2>1 DEF deletes
    <3>2. Rises(<<"delete-succeeds", "delete-fails">>, 7, 8)
      <4>1. /\ DOMAIN <<"delete-succeeds", "delete-fails">> = {1, 2}
            /\ <<"delete-succeeds", "delete-fails">>[1] = "delete-succeeds"
            /\ <<"delete-succeeds", "delete-fails">>[2] = "delete-fails"
            /\ <<"delete-succeeds", "delete-fails">> \in Seq(AddEditNames)
        BY <1>4
      <4>2. QED BY <4>1, RankIs DEF Rises
    <3>3. Range(<<"delete-succeeds", "delete-fails">>) = DeleteNames
      BY DEF Range, DeleteNames
    <3>4. DeleteNames # {}
      BY DEF DeleteNames
    <3>5. QED BY <2>1, <3>1, <3>2, <3>3, <3>4
  <2>2. CASE "delete" \notin run.actions
    BY <2>2, RisesNone, RangeOfNone
  <2>3. QED BY <2>1, <2>2
<1> HIDE DEF x, y, z
<1>8. Rises(x \o y, 1, 6)
  BY <1>5, <1>6, RisesConcat
<1>9. Rises((x \o y) \o z, 1, 8)
  BY <1>7, <1>8, RisesConcat
<1>10. Range((x \o y) \o z) = (Range(x) \cup Range(y)) \cup Range(z)
  <2>1. x \in Seq(AddEditNames) /\ y \in Seq(AddEditNames) /\ z \in Seq(AddEditNames)
    BY <1>5, <1>6, <1>7 DEF Rises
  <2>2. x \o y \in Seq(AddEditNames) /\ Range(x \o y) = Range(x) \cup Range(y)
    BY <2>1, RangeConcat
  <2>3. Range((x \o y) \o z) = Range(x \o y) \cup Range(z)
    <3> DEFINE xy == x \o y
    <3>1. xy \in Seq(AddEditNames)
      BY <2>2
    <3> HIDE DEF xy
    <3>2. Range(xy \o z) = Range(xy) \cup Range(z)
      BY <2>1, <3>1, RangeConcat
    <3>3. QED BY <3>2 DEF xy
  <2>4. QED BY <2>2, <2>3
<1>11. CreateNames \cap UpdateNames = {} /\ CreateNames \cap DeleteNames = {}
       /\ UpdateNames \cap DeleteNames = {}
  BY DEF CreateNames, UpdateNames, DeleteNames
<1> DEFINE t == scenariosFor(run)
<1>12. Rises(t, 1, 8) /\ Range(t) = (Range(x) \cup Range(y)) \cup Range(z)
  BY <1>1, <1>9, <1>10
<1> HIDE DEF t
<1>13. Range(t) # {}
  <2>1. "create" \in run.actions \/ "update" \in run.actions \/ "delete" \in run.actions
    BY <1>2 DEF Actions
  <2>2. QED BY <1>5, <1>6, <1>7, <1>12, <2>1
<1>14. t # <<>>
  <2>1. t = <<>> => Range(t) = {}
    BY DEF Range
  <2>2. QED BY <1>13, <2>1
<1>15. \A n \in Range(t) : /\ n \in CreateNames => "create" \in run.actions
                           /\ n \in UpdateNames => "update" \in run.actions
                           /\ n \in DeleteNames => "delete" \in run.actions
  BY <1>5, <1>6, <1>7, <1>11, <1>12
<1>16. "create" \in run.actions => \E n \in CreateNames \ {"create-fails"} : n \in Range(t)
  BY <1>5, <1>12
<1>17. QED BY <1>12, <1>14, <1>15, <1>16 DEF t

-----------------------------------------------------------------------------
(* What a step keeps when it keeps the run.                                *)
LEMMA SameRun ==
  ASSUME run' = run
  PROVE  /\ addEdit' <=> addEdit
         /\ canary' <=> canary
         /\ NewKeys' = NewKeys /\ Payload' = Payload
         /\ Planned' <=> Planned
BY DEF addEdit, canary, NewKeys, Payload, Planned

LEMMA RanksTell ==
  /\ \A a \in AddEditNames : Rank[a] \in Int /\ (Rank[a] > 7 => a = "delete-fails")
  /\ \A a \in CreateNames : a \in AddEditNames /\ Rank[a] <= 3
  /\ \A a \in UpdateNames : a \in AddEditNames /\ 4 <= Rank[a] /\ Rank[a] <= 6
  /\ \A a \in DeleteNames : a \in AddEditNames /\ 7 <= Rank[a]
<1>1. \A a \in AddEditNames : Rank[a] \in Int
  BY RankIs
<1>2. \A a \in CreateNames : a \in AddEditNames /\ Rank[a] <= 3
  BY RankIs DEF CreateNames, AddEditNames
<1>3. \A a \in UpdateNames : a \in AddEditNames /\ 4 <= Rank[a] /\ Rank[a] <= 6
  BY RankIs DEF UpdateNames, AddEditNames
<1>4. \A a \in DeleteNames : a \in AddEditNames /\ 7 <= Rank[a] /\ (Rank[a] > 7 => a = "delete-fails")
  BY RankIs DEF DeleteNames, AddEditNames
<1>5. \A a \in AddEditNames : a \in CreateNames \/ a \in UpdateNames \/ a \in DeleteNames
  BY DEF AddEditNames
<1>6. \A a \in AddEditNames : Rank[a] > 7 => a = "delete-fails"
  BY <1>1, <1>2, <1>3, <1>4, <1>5
<1>7. QED BY <1>1, <1>2, <1>3, <1>4, <1>6

(* What leaving the scenarios does, with the keys created and removed.     *)
LEMMA LeaveIs ==
  ASSUME NEW keys \in Seq(Keys), NEW gone \in SUBSET Range(keys), NEW stopped \in BOOLEAN,
         Leave(keys, gone, stopped)
  PROVE  /\ phase' \in {"cleaning", "done"}
         /\ report' \in Reports
         /\ \/ remaining' = remaining
            \/ remaining' \in Seq(Keys) /\ Range(remaining') = Range(keys) \ gone
         /\ phase' = "cleaning" =>
              /\ remaining' # <<>> /\ Range(remaining') = Range(keys) \ gone
              /\ report'.outcome = IF stopped THEN "stopping" ELSE "none"
         /\ phase' = "done" =>
              /\ report'.outcome = IF stopped THEN "threw" ELSE "reported"
              /\ report'.left = Range(keys) \ gone
<1> DEFINE left == without(keys, gone)
<1>1. left \in Seq(Keys) /\ Range(left) = Range(keys) \ gone
  BY WithoutIs
<1>2. Range(keys) \subseteq Keys
  BY DEF Range
<1>3. \/ /\ phase' = "cleaning" /\ remaining' = left /\ left # <<>>
         /\ report' = [outcome |-> IF stopped THEN "stopping" ELSE "none",
                       removed |-> gone, notRemoved |-> {}, left |-> {}]
      \/ /\ phase' = "done" /\ remaining' = remaining
         /\ report' = [outcome |-> IF stopped THEN "threw" ELSE "reported",
                       removed |-> gone, notRemoved |-> {}, left |-> Range(left)]
  <2> HIDE DEF left
  <2>1. without(keys, gone) = left
    BY DEF left
  <2>2. QED BY <2>1 DEF Leave, NoReport
<1>4. QED
  <2> HIDE DEF left
  <2>1. CASE phase' = "cleaning"
    <3>1. report' \in Reports
      BY <1>2, <1>3, <2>1 DEF Reports
    <3>2. QED BY <1>1, <1>3, <2>1, <3>1
  <2>2. CASE phase' = "done"
    <3>1. report' \in Reports
      BY <1>1, <1>2, <1>3, <2>2 DEF Reports
    <3>2. QED BY <1>1, <1>3, <2>2, <3>1
  <2>3. QED BY <1>3, <2>1, <2>2

(* Leaving keeps the accounts: what was told is created, and what was      *)
(* created is gone, or what is left.                                       *)
LEMMA LeaveAccounts ==
  ASSUME addEdit, run' = run,
         NEW keys \in Seq(Keys), NEW gone \in SUBSET Range(keys), NEW stopped \in BOOLEAN,
         created' = keys, removed' = gone, Range(keys) \subseteq NewKeys,
         remaining \in Seq(Keys), Range(remaining) \subseteq Range(keys),
         \A k \in gone : record'[k] = "absent",
         ~stopped => told' \subseteq Range(keys),
         Leave(keys, gone, stopped)
  PROVE  /\ phase' \in {"cleaning", "done"} /\ report' \in Reports
         /\ created' \in Seq(Keys) /\ removed' \in SUBSET Range(created')
         /\ remaining' \in Seq(Keys) /\ Range(remaining') \subseteq Range(created')
         /\ PlanInv' /\ KeysInv' /\ AccountInv'
<1>1. /\ phase' \in {"cleaning", "done"}
      /\ report' \in Reports
      /\ \/ remaining' = remaining
         \/ remaining' \in Seq(Keys) /\ Range(remaining') = Range(keys) \ gone
      /\ phase' = "cleaning" =>
           /\ remaining' # <<>> /\ Range(remaining') = Range(keys) \ gone
           /\ report'.outcome = IF stopped THEN "stopping" ELSE "none"
      /\ phase' = "done" =>
           /\ report'.outcome = IF stopped THEN "threw" ELSE "reported"
           /\ report'.left = Range(keys) \ gone
  BY LeaveIs
<1>2. ~Going' /\ phase' # "checking" /\ phase' # "follow" /\ phase' \notin {"look", "gone"}
  BY <1>1 DEF Going
<1>3. PlanInv'
  BY <1>2 DEF PlanInv
<1>4. KeysInv'
  BY <1>2, SameRun DEF KeysInv
<1>5. MadeIsAccountedFor'
  <2>1. ASSUME report'.outcome = "reported", NEW k \in told'
        PROVE  record'[k] = "absent" \/ k \in report'.left
    <3>1. phase' = "done"
      BY <1>1, <2>1
    <3>2. ~stopped
      BY <1>1, <2>1, <3>1
    <3>3. k \in Range(keys)
      BY <2>1, <3>2
    <3>4. report'.left = Range(keys) \ gone
      BY <1>1, <3>1
    <3>5. QED BY <3>3, <3>4
  <2>2. QED BY <2>1 DEF MadeIsAccountedFor
<1>6. ASSUME phase' = "cleaning"
      PROVE  /\ report'.outcome \in {"none", "stopping"}
             /\ report'.outcome = "none" => told' \subseteq Range(created')
             /\ remaining' # <<>>
             /\ \A k \in Range(created') :
                  record'[k] = "absent" \/ k \in Range(remaining') \cup report'.notRemoved
  BY <1>1, <1>6
<1>7. AccountInv'
  BY <1>2, <1>5, <1>6 DEF AccountInv
<1>8. QED BY <1>1, <1>3, <1>4, <1>7

(* The run stops: it leaves with what it had, and blames.                  *)
LEMMA StopIs ==
  ASSUME IInv, addEdit, Going, run' = run, UNCHANGED <<high, polls, events>>, Stop,
         blame' = TRUE, \A k \in removed : record'[k] = "absent"
  PROVE  RunnerOK' /\ OwnInv'
<1>1. /\ created \in Seq(Keys) /\ removed \in SUBSET Range(created) /\ Range(created) \subseteq NewKeys
      /\ remaining \in Seq(Keys) /\ Range(remaining) \subseteq Range(created)
  BY DEF IInv, TypeInv, RunnerOK, OwnInv, KeysInv
<1>2. /\ step' = Idle /\ Leave(created, removed, TRUE)
      /\ todo' = todo /\ created' = created /\ removed' = removed /\ passed' = passed
      /\ failed' = failed
  BY DEF Stop
<1>3. /\ phase' \in {"cleaning", "done"} /\ report' \in Reports
      /\ created' \in Seq(Keys) /\ removed' \in SUBSET Range(created')
      /\ remaining' \in Seq(Keys) /\ Range(remaining') \subseteq Range(created')
      /\ PlanInv' /\ KeysInv' /\ AccountInv'
  BY <1>1, <1>2, LeaveAccounts
<1>4. FaultInv'
  BY DEF FaultInv
<1>5. step' \in Steps
  BY <1>2 DEF Idle, Steps
<1>6. newest' = newest
  BY DEF newest
<1>7. RunnerOK'
  BY <1>2, <1>3, <1>5, <1>6 DEF IInv, TypeInv, RunnerOK
<1>8. NamesInv'
  BY <1>2, SameRun DEF IInv, OwnInv, NamesInv
<1>9. QED BY <1>3, <1>4, <1>7, <1>8 DEF OwnInv

(* A scenario is settled: the keys it told of are noted, those it saw gone *)
(* are noted as removed, and the next one begins, or the run leaves.       *)
LEMMA SettleIs ==
  ASSUME IInv, addEdit, Going, run' = run, UNCHANGED <<high, polls, events>>,
         NEW ok \in BOOLEAN, NEW keys \in Seq(Keys), NEW gone \in SUBSET Range(created),
         Settle(ok, keys, gone), Range(keys) \subseteq NewKeys,
         told' \subseteq Range(created) \cup Range(keys),
         \A k \in removed \cup gone : record'[k] = "absent",
         gone # {} => Head(todo) = "delete-succeeds",
         blame' \in BOOLEAN, ~blame' => ~blame /\ ok,
         ~blame' /\ Head(todo) \in CreateNames \ {"create-fails"} => keys # <<>>
  PROVE  RunnerOK' /\ OwnInv'
<1> DEFINE name == Head(todo)
<1>1. /\ created \in Seq(Keys) /\ removed \in SUBSET Range(created) /\ Range(created) \subseteq NewKeys
      /\ remaining \in Seq(Keys) /\ Range(remaining) \subseteq Range(created)
      /\ todo \in Seq(Names) /\ todo # <<>> /\ report = NoReport
      /\ passed \cap failed = {} /\ report \in Reports
      /\ Going => \A k \in removed : record[k] = "absent"
      /\ removed # {} => \A i \in DOMAIN todo : todo[i] = "delete-fails"
  BY DEF IInv, TypeInv, RunnerOK, OwnInv, KeysInv, PlanInv, AccountInv
<1>2. /\ passed' = IF ok THEN passed \cup {name} ELSE passed
      /\ failed' = IF ok THEN failed ELSE failed \cup {name}
      /\ created' = created \o keys
      /\ removed' = removed \cup gone
      /\ todo' = Tail(todo)
      /\ IF Len(todo) = 1 THEN step' = Idle /\ Leave(created', removed', FALSE)
         ELSE phase' = "act" /\ step' = Idle /\ UNCHANGED <<remaining, report>>
  BY DEF Settle
<1>3. /\ created' \in Seq(Keys) /\ Range(created') = Range(created) \cup Range(keys)
      /\ removed' \in SUBSET Range(created')
      /\ Range(created') \subseteq NewKeys /\ Range(remaining) \subseteq Range(created')
  BY <1>1, <1>2, RangeConcat
<1>4. /\ name \in Names /\ Tail(todo) \in Seq(Names)
      /\ Len(Tail(todo)) = Len(todo) - 1 /\ Len(todo) \in Nat /\ Len(todo) >= 1
      /\ \A i \in DOMAIN Tail(todo) : i + 1 \in DOMAIN todo /\ Tail(todo)[i] = todo[i + 1]
      /\ DOMAIN todo = 1 .. Len(todo) /\ DOMAIN Tail(todo) = 1 .. (Len(todo) - 1) /\ name = todo[1]
      /\ 1 \in DOMAIN todo
  BY <1>1, RangeTail, HeadTailProperties
<1>5. /\ \A i \in DOMAIN todo :
           /\ todo[i] \in AddEditNames /\ todo[i] \notin passed \cup failed
           /\ todo[i] \in UpdateNames => "update" \in run.actions
           /\ todo[i] \in DeleteNames => "delete" \in run.actions
      /\ \A i, j \in DOMAIN todo : i < j => Rank[todo[i]] < Rank[todo[j]]
      /\ Planned
  BY DEF IInv, OwnInv, PlanInv
<1>6. \A i \in DOMAIN Tail(todo) :
        /\ todo[i + 1] \in AddEditNames /\ Rank[name] < Rank[todo[i + 1]]
        /\ todo[i + 1] # name
  <2>1. \A i \in DOMAIN Tail(todo) : 1 < i + 1 /\ i + 1 \in DOMAIN todo
    BY <1>4
  <2>2. \A i \in DOMAIN Tail(todo) :
          todo[i + 1] \in AddEditNames /\ Rank[name] < Rank[todo[i + 1]]
    BY <1>4, <1>5, <2>1
  <2>3. Rank[name] \in Int
    BY <1>4, <1>5, RanksTell
  <2>4. QED BY <2>2, <2>3
<1>7. passed' \cap failed' = {}
  <2>1. name \notin passed \cup failed
    BY <1>4, <1>5
  <2>2. QED BY <1>1, <1>2, <2>1
<1>8. step' \in Steps /\ step' = Idle
  <2>1. step' = Idle
    BY <1>2
  <2>2. Idle \in Steps
    BY DEF Idle, Steps
  <2>3. QED BY <2>1, <2>2
<1>9. newest' = newest
  BY DEF newest
<1>10. ~blame' => failed' = {}
  BY <1>2 DEF IInv, OwnInv, FaultInv
<1>11. NamesInv'
  <2>1. name \in AddEditNames
    BY <1>4, <1>5
  <2>2. passed \subseteq AddEditNames
    BY DEF IInv, OwnInv, NamesInv
  <2>3. QED BY <1>2, <2>1, <2>2 DEF NamesInv
<1>12. CASE Len(todo) = 1
  <2>1. Leave(created', removed', FALSE)
    BY <1>2, <1>12
  <2>2. told' \subseteq Range(created')
    BY <1>3
  <2>3. \A k \in removed' : record'[k] = "absent"
    BY <1>2
  <2> DEFINE c == created'
             r == removed'
  <2>4. c = created' /\ r = removed'
    OBVIOUS
  <2> HIDE DEF c, r
  <2>5. /\ c \in Seq(Keys) /\ r \in SUBSET Range(c) /\ Leave(c, r, FALSE)
        /\ Range(c) \subseteq NewKeys /\ Range(remaining) \subseteq Range(c)
        /\ \A k \in r : record'[k] = "absent"
        /\ told' \subseteq Range(c)
    BY <1>3, <2>1, <2>2, <2>3 DEF c, r
  <2>6. /\ phase' \in {"cleaning", "done"} /\ report' \in Reports
        /\ created' \in Seq(Keys) /\ removed' \in SUBSET Range(created')
        /\ remaining' \in Seq(Keys) /\ Range(remaining') \subseteq Range(created')
        /\ PlanInv' /\ KeysInv' /\ AccountInv'
    BY <1>1, <2>4, <2>5, LeaveAccounts
  <2>7. FaultInv'
    <3>1. ~Going' /\ phase' # "follow"
      BY <2>6 DEF Going
    <3>2. QED BY <1>10, <3>1 DEF FaultInv
  <2>8. RunnerOK'
    BY <1>2, <1>4, <1>7, <1>8, <1>9, <2>6 DEF IInv, TypeInv, RunnerOK
  <2>9. QED BY <1>11, <2>6, <2>7, <2>8 DEF OwnInv
<1>13. CASE Len(todo) # 1
  <2>1. phase' = "act" /\ remaining' = remaining /\ report' = report
    BY <1>2, <1>13
  <2>2. Tail(todo) # <<>> /\ 1 \in DOMAIN Tail(todo)
    <3>1. 1 \in DOMAIN Tail(todo)
      BY <1>4, <1>13
    <3> DEFINE rest == Tail(todo)
    <3>2. 1 \in DOMAIN rest
      BY <3>1
    <3> HIDE DEF rest
    <3>3. rest # <<>>
      BY <3>2
    <3>4. QED BY <3>1, <3>3 DEF rest
  <2>3. PlanInv'
    <3>1. \A i \in DOMAIN todo' : todo'[i] = todo[i + 1] /\ i + 1 \in DOMAIN todo /\ i \in DOMAIN Tail(todo)
      BY <1>2, <1>4
    <3>2. \A i \in DOMAIN todo' :
            /\ todo'[i] \in AddEditNames /\ todo'[i] \notin passed' \cup failed'
            /\ todo'[i] \in UpdateNames => "update" \in run'.actions
            /\ todo'[i] \in DeleteNames => "delete" \in run'.actions
      BY <1>2, <1>5, <1>6, <3>1
    <3>3. ASSUME NEW i \in DOMAIN todo', NEW j \in DOMAIN todo', i < j
          PROVE  Rank[todo'[i]] < Rank[todo'[j]]
      <4>1. i + 1 < j + 1
        BY <1>2, <1>4, <3>3
      <4>2. QED BY <1>5, <3>1, <4>1
    <3>4. Planned'
      BY <1>5, SameRun
    <3>5. todo' # <<>>
      BY <1>2, <2>2
    <3>6. QED BY <3>2, <3>3, <3>4, <3>5 DEF PlanInv
  <2>4. KeysInv'
    BY <1>3, <2>1, SameRun DEF KeysInv
  <2>5. AccountInv'
    <3>1. Going' /\ Pending' = {} /\ phase' # "checking" /\ phase' # "cleaning"
      BY <2>1 DEF Going, Pending
    <3>2. report' = NoReport /\ MadeIsAccountedFor'
      BY <1>1, <2>1 DEF NoReport, MadeIsAccountedFor
    <3>3. told' \subseteq Range(created') \cup Pending'
      BY <1>3
    <3>4. \A k \in removed' : record'[k] = "absent"
      BY <1>2
    <3>5. ASSUME removed' # {}, NEW i \in DOMAIN todo' PROVE todo'[i] = "delete-fails"
      <4>1. todo'[i] = todo[i + 1] /\ i + 1 \in DOMAIN todo /\ i \in DOMAIN Tail(todo)
        BY <1>2, <1>4
      <4>2. CASE removed # {}
        BY <1>1, <4>1, <4>2
      <4>3. CASE gone # {}
        <5>1. Rank[name] = 7
          BY <4>3, RankIs
        <5>2. todo[i + 1] \in AddEditNames /\ 7 < Rank[todo[i + 1]] /\ Rank[todo[i + 1]] \in Int
          BY <1>6, <4>1, <5>1, RanksTell
        <5>3. QED BY <4>1, <5>2, RanksTell
      <4>4. QED BY <1>2, <3>5, <4>2, <4>3
    <3>6. QED BY <3>1, <3>2, <3>3, <3>4, <3>5 DEF AccountInv
  <2>6. FaultInv'
    <3>1. phase' # "follow"
      BY <2>1
    <3>2. ASSUME ~blame', "create" \in run'.actions
          PROVE  created' # <<>> \/ \E i \in DOMAIN todo' :
                                       todo'[i] \in CreateNames \ {"create-fails"}
      <4>1. created # <<>> \/ \E i \in DOMAIN todo : todo[i] \in CreateNames \ {"create-fails"}
        BY <3>2 DEF IInv, OwnInv, FaultInv
      <4>2. CASE Range(created') # {}
        BY <4>2, RangeOfNone
      <4>3. CASE Range(created') = {}
        <5>1. created = <<>> /\ keys = <<>>
          <6>1. Range(created) = {} /\ Range(keys) = {}
            BY <1>3, <4>3
          <6>2. \A s \in Seq(Keys) : s # <<>> => Range(s) # {}
            BY RangeTail
          <6>3. QED BY <1>1, <6>1, <6>2
        <5>2. PICK i \in DOMAIN todo : todo[i] \in CreateNames \ {"create-fails"}
          BY <4>1, <5>1
        <5>3. i # 1
          BY <1>4, <3>2, <5>1, <5>2
        <5>4. i - 1 \in DOMAIN Tail(todo) /\ (i - 1) + 1 = i
          BY <1>4, <5>3
        <5>5. todo'[i - 1] = todo[i] /\ i - 1 \in DOMAIN todo'
          BY <1>2, <1>4, <5>4
        <5>6. QED BY <5>2, <5>5
      <4>4. QED BY <4>2, <4>3
    <3>3. QED BY <1>10, <3>1, <3>2 DEF FaultInv
  <2>7. RunnerOK'
    BY <1>1, <1>2, <1>3, <1>4, <1>7, <1>8, <1>9, <2>1 DEF IInv, TypeInv, RunnerOK
  <2>8. QED BY <1>11, <2>3, <2>4, <2>5, <2>6, <2>7 DEF OwnInv
<1>14. QED BY <1>12, <1>13

(* The scenario is followed up with a read of its record.                  *)
LEMMA FollowIs ==
  ASSUME IInv, addEdit, phase = "act", run' = run, UNCHANGED <<high, polls, events>>,
         NEW k \in Keys, NEW good \in BOOLEAN,
         phase' = "follow", step' = [Idle EXCEPT !.key = k, !.good = good],
         UNCHANGED <<todo, created, removed, remaining, passed, failed, report>>,
         told' \subseteq Range(created) \cup (IF Head(todo) \in CreateNames THEN {k} ELSE {}),
         \A x \in removed : record'[x] = "absent",
         Head(todo) \in CreateNames => k \in NewKeys,
         Head(todo) = "delete-succeeds" /\ run.deleteId = None => k \in Range(created),
         blame' \in BOOLEAN, ~blame' => ~blame /\ good /\ record'[k] = Expected[Head(todo)]
  PROVE  RunnerOK' /\ OwnInv'
<1>1. step' = [key |-> k, good |-> good, seq |-> 0]
  BY DEF Idle
<1>2. step' \in Steps /\ step'.key = k /\ step'.good = good
  BY <1>1 DEF Steps
<1>3. newest' = newest
  BY DEF newest
<1>4. RunnerOK'
  BY <1>2, <1>3 DEF IInv, TypeInv, RunnerOK
<1>5. Going /\ Going'
  BY DEF Going
<1>6. PlanInv'
  BY <1>5, SameRun DEF IInv, OwnInv, PlanInv
<1>7. KeysInv'
  BY <1>2, SameRun DEF IInv, OwnInv, KeysInv
<1>8. AccountInv'
  <2>1. report' = NoReport /\ report' = report
    BY <1>5 DEF IInv, OwnInv, AccountInv
  <2>2. MadeIsAccountedFor'
    BY <2>1 DEF NoReport, MadeIsAccountedFor
  <2>3. told' \subseteq Range(created') \cup Pending'
    BY <1>2 DEF Pending
  <2>4. removed' # {} => \A i \in DOMAIN todo' : todo'[i] = "delete-fails"
    BY <1>5 DEF IInv, OwnInv, AccountInv
  <2>5. QED BY <1>5, <2>1, <2>2, <2>3, <2>4 DEF AccountInv
<1>9. FaultInv'
  <2>1. Expected' = Expected
    OBVIOUS
  <2>2. ASSUME ~blame' PROVE /\ failed' = {} /\ step'.good
                             /\ record'[step'.key] = Expected[Head(todo')]
                             /\ "create" \in run'.actions =>
                                  created' # <<>> \/ \E i \in DOMAIN todo' :
                                     todo'[i] \in CreateNames \ {"create-fails"}
    BY <1>2, <1>5, <2>2 DEF IInv, OwnInv, FaultInv
  <2>3. QED BY <2>2 DEF FaultInv
<1>10. NamesInv'
  BY SameRun DEF IInv, OwnInv, NamesInv
<1>11. QED BY <1>4, <1>6, <1>7, <1>8, <1>9, <1>10 DEF OwnInv

-----------------------------------------------------------------------------
(* What a write does to the server, and where an Add/Edit run sends it.    *)
LEMMA WriteIs ==
  ASSUME ServerOK, NEW fate, NEW keys, NEW value \in RecordStates, Performs(fate, keys, value)
  PROVE  /\ record' \in [Keys -> RecordStates]
         /\ \A k \in Keys : record'[k] = IF performs(fate) /\ k \in keys THEN value ELSE record[k]
BY DEF ServerOK, Performs

LEMMA NamesAre ==
  /\ Range(creates) = CreateNames /\ Range(updates) = UpdateNames /\ Range(deletes) = DeleteNames
  /\ CreateNames \cap UpdateNames = {} /\ CreateNames \cap DeleteNames = {}
  /\ UpdateNames \cap DeleteNames = {}
  /\ AddEditNames = CreateNames \cup UpdateNames \cup DeleteNames
<1>1. Range(creates) = CreateNames
  BY DEF Range, creates, CreateNames
<1>2. Range(updates) = UpdateNames
  BY DEF Range, updates, UpdateNames
<1>3. Range(deletes) = DeleteNames
  BY DEF Range, deletes, DeleteNames
<1>4. QED BY <1>1, <1>2, <1>3 DEF CreateNames, UpdateNames, DeleteNames, AddEditNames

LEMMA NewKeyIs ==
  ASSUME run \in Runs, keysLeft
  PROVE  newKey \in NewKeys /\ newKey \in Keys /\ (canary => newKey \in Fresh)
<1>1. \E k \in Fresh : k \notin made \cup Range(created)
  BY DEF keysLeft
<1>2. (CHOOSE k \in Fresh : k \notin made \cup Range(created)) \in Fresh
  BY <1>1
<1>3. QED BY <1>2, RunIs, KeysAre DEF newKey, NewKeys, addEdit, canary

(* The head of what an Add/Edit run has to do.                             *)
LEMMA HeadIs ==
  ASSUME IInv, addEdit, Going
  PROVE  /\ todo \in Seq(Names) /\ todo # <<>> /\ 1 \in DOMAIN todo /\ Head(todo) = todo[1]
         /\ Head(todo) \in AddEditNames
         /\ Head(todo) \in UpdateNames => "update" \in run.actions
         /\ Head(todo) \in DeleteNames => "delete" \in run.actions
         /\ Planned
         /\ \A i \in DOMAIN todo : Rank[Head(todo)] <= Rank[todo[i]] /\ todo[i] \in AddEditNames
         /\ removed # {} => Head(todo) = "delete-fails"
         /\ \A k \in removed : record[k] = "absent"
         /\ phase = "act" => told \subseteq Range(created)
         /\ report = NoReport
<1>1. todo \in Seq(Names) /\ todo # <<>>
  BY DEF IInv, TypeInv, RunnerOK, OwnInv, PlanInv
<1>2. /\ 1 \in DOMAIN todo /\ Head(todo) = todo[1] /\ DOMAIN todo = 1 .. Len(todo)
      /\ Len(todo) \in Nat
  BY <1>1, EmptySeq, HeadTailProperties
<1>3. /\ \A i \in DOMAIN todo :
           /\ todo[i] \in AddEditNames
           /\ todo[i] \in UpdateNames => "update" \in run.actions
           /\ todo[i] \in DeleteNames => "delete" \in run.actions
      /\ \A i, j \in DOMAIN todo : i < j => Rank[todo[i]] < Rank[todo[j]]
      /\ Planned
  BY DEF IInv, OwnInv, PlanInv
<1>4. ASSUME NEW i \in DOMAIN todo PROVE Rank[Head(todo)] <= Rank[todo[i]]
  <2>1. Rank[todo[i]] \in Int /\ Rank[Head(todo)] \in Int
    BY <1>2, <1>3, RanksTell
  <2>2. i = 1 \/ 1 < i
    BY <1>2
  <2>3. 1 < i => Rank[todo[1]] < Rank[todo[i]]
    BY <1>2, <1>3
  <2>4. QED BY <1>2, <2>1, <2>2, <2>3
<1>5. /\ removed # {} => \A i \in DOMAIN todo : todo[i] = "delete-fails"
      /\ \A k \in removed : record[k] = "absent"
      /\ told \subseteq Range(created) \cup Pending
      /\ report = NoReport
  BY DEF IInv, OwnInv, AccountInv
<1>6. phase = "act" => Pending = {}
  BY DEF Pending
<1>7. QED BY <1>1, <1>2, <1>3, <1>4, <1>5, <1>6

(* A write that is sent names a record: one of the payloads', or a new one.*)
LEMMA TargetIs ==
  ASSUME IInv, addEdit, Going, NEW name \in UpdateNames \cup DeleteNames, ~refused(name)
  PROVE  /\ target(name) \in Keys /\ addressed(target(name)) = {target(name)}
         /\ target(name) \in Payload \cup NewKeys \cup {Missing}
         /\ name = "delete-succeeds" /\ run.deleteId = None => target(name) \in Range(created)
<1>1. /\ created \in Seq(Keys) /\ Range(created) \subseteq NewKeys
      /\ run.updateKey \in Keys \cup {None} /\ run.deleteId \in Keys \cup {None}
      /\ run.deleteFailsId \in {Missing, None}
  BY RunIs DEF IInv, TypeInv, RunnerOK, OwnInv, KeysInv
<1>2. target(name) # None
  BY DEF refused
<1>3. created # <<>> => /\ Head(created) \in Range(created) /\ Last(created) \in Range(created)
                        /\ Head(created) \in Keys /\ Last(created) \in Keys
  <2>1. SUFFICES ASSUME created # <<>>
                 PROVE  /\ Head(created) \in Range(created) /\ Last(created) \in Range(created)
                        /\ Head(created) \in Keys /\ Last(created) \in Keys
    OBVIOUS
  <2>2. Head(created) \in Range(created) /\ Head(created) \in Keys
    BY <1>1, <2>1, RangeTail
  <2>3. Len(created) \in DOMAIN created
    BY <1>1, <2>1, EmptySeq
  <2>4. Last(created) = created[Len(created)]
    BY DEF Last
  <2>5. Last(created) \in Range(created)
    BY <2>3, <2>4 DEF Range
  <2>6. Range(created) \subseteq Keys
    BY <1>1 DEF Range
  <2>7. QED BY <2>2, <2>5, <2>6
<1>4. Payload = {run.createKey, run.updateKey, run.deleteId}
  BY DEF Payload
<1>5. CASE name \in Range(updates)
  <2>1. target(name) = IF run.updateKey # None THEN run.updateKey
                       ELSE IF created # <<>> THEN Head(created) ELSE None
    BY <1>5, NamesAre DEF target, UpdateNames
  <2>2. name # "delete-succeeds"
    BY <1>5, NamesAre DEF UpdateNames
  <2>3. target(name) \in Keys /\ target(name) \in Payload \cup NewKeys
    BY <1>1, <1>2, <1>3, <1>4, <2>1
  <2>4. QED BY <1>2, <2>2, <2>3 DEF addressed
<1>6. CASE name \notin Range(updates) /\ name = "delete-succeeds"
  <2>1. target(name) = IF run.deleteId # None THEN run.deleteId
                       ELSE IF created # <<>> THEN Last(created) ELSE None
    BY <1>6 DEF target
  <2>2. target(name) \in Keys /\ target(name) \in Payload \cup NewKeys
    BY <1>1, <1>2, <1>3, <1>4, <2>1
  <2>3. run.deleteId = None => target(name) \in Range(created)
    BY <1>2, <1>3, <2>1
  <2>4. QED BY <1>2, <2>2, <2>3 DEF addressed
<1>7. CASE name \notin Range(updates) /\ name # "delete-succeeds"
  <2>1. target(name) = run.deleteFailsId
    BY <1>7 DEF target
  <2>2. target(name) = Missing
    BY <1>1, <1>2, <2>1
  <2>3. QED BY <1>2, <1>7, <2>2, KeysAre DEF addressed
<1>8. QED BY <1>5, <1>6, <1>7

(* A run whose server did nothing wrong has a record for every write.      *)
LEMMA BlamelessHasRecord ==
  ASSUME IInv, addEdit, Going, ~blame, Head(todo) \in UpdateNames \cup DeleteNames
  PROVE  ~refused(Head(todo))
<1> DEFINE name == Head(todo)
<1>1. /\ Planned
      /\ name \in UpdateNames => "update" \in run.actions
      /\ name \in DeleteNames => "delete" \in run.actions
      /\ \A i \in DOMAIN todo : Rank[name] <= Rank[todo[i]] /\ todo[i] \in AddEditNames
  BY HeadIs
<1>2. "create" \in run.actions => created # <<>>
  <2>1. SUFFICES ASSUME "create" \in run.actions, created = <<>> PROVE FALSE
    OBVIOUS
  <2>2. PICK i \in DOMAIN todo : todo[i] \in CreateNames
    BY <2>1 DEF IInv, OwnInv, FaultInv
  <2>3. Rank[todo[i]] <= 3 /\ Rank[todo[i]] \in Int /\ Rank[name] \in Int /\ 4 <= Rank[name]
    BY <2>2, RanksTell
  <2>4. Rank[name] <= Rank[todo[i]]
    BY <1>1
  <2>5. QED BY <2>3, <2>4
<1>3. created # <<>> => Head(created) # None /\ Last(created) # None
  <2>1. SUFFICES ASSUME created # <<>> PROVE Head(created) # None /\ Last(created) # None
    OBVIOUS
  <2>2. created \in Seq(Keys)
    BY DEF IInv, TypeInv, RunnerOK
  <2>3. Head(created) \in Keys
    BY <2>1, <2>2, RangeTail
  <2>4. Len(created) \in DOMAIN created /\ created[Len(created)] \in Keys
    BY <2>1, <2>2, EmptySeq
  <2>5. Last(created) \in Keys
    BY <2>4 DEF Last
  <2>6. QED BY <2>3, <2>5, KeysAre
<1>4. CASE name \in UpdateNames
  <2>1. name \in Range(updates)
    BY <1>4, NamesAre
  <2>2. target(name) = IF run.updateKey # None THEN run.updateKey
                       ELSE IF created # <<>> THEN Head(created) ELSE None
    BY <1>4, <2>1 DEF target, UpdateNames
  <2>3. run.updateKey # None \/ "create" \in run.actions
    BY <1>1, <1>4 DEF Planned
  <2>4. target(name) # None
    BY <1>2, <1>3, <2>2, <2>3
  <2>5. QED BY <2>4 DEF refused
<1>5. CASE name \in DeleteNames
  <2>1. name \notin Range(updates)
    BY <1>5, NamesAre
  <2>2. CASE name = "delete-succeeds"
    <3>1. target(name) = IF run.deleteId # None THEN run.deleteId
                         ELSE IF created # <<>> THEN Last(created) ELSE None
      BY <2>1, <2>2 DEF target
    <3>2. run.deleteId # None \/ "create" \in run.actions
      BY <1>1, <1>5 DEF Planned
    <3>3. target(name) # None
      BY <1>2, <1>3, <3>1, <3>2
    <3>4. QED BY <3>3 DEF refused
  <2>3. CASE name # "delete-succeeds"
    <3>1. target(name) = run.deleteFailsId
      BY <2>1, <2>3 DEF target
    <3>2. run.deleteFailsId # None
      BY <1>1, <1>5 DEF Planned
    <3>3. QED BY <3>1, <3>2 DEF refused
  <2>4. QED BY <2>2, <2>3
<1>6. QED BY <1>4, <1>5

LEMMA OwnStep ==
  ASSUME addEdit, run \in Runs, run' = run, RunnerOK', OwnInv', ServerOK', RecordInv'
  PROVE  IInv'
<1>1. ~canary'
  BY RunIs, SameRun
<1>2. CanaryInv'
  BY <1>1 DEF CanaryInv, PlaceInv, EventsInv, SeenInv, BlameInv
<1>3. QED BY <1>2 DEF IInv, TypeInv

LEMMA FeedStays ==
  ASSUME ServerOK, UNCHANGED <<events, owed>>, record' \in [Keys -> RecordStates],
         made' \in SUBSET Keys, told' \in SUBSET Keys, blame' \in BOOLEAN
  PROVE  ServerOK'
BY DEF ServerOK, EventsBounded

LEMMA CreateKeeps ==
  ASSUME IInv, CreateScenario
  PROVE  IInv'
<1> DEFINE name == Head(todo)
           k == newKey
           fails == name = "create-fails"
<1>1. /\ addEdit /\ phase = "act" /\ name \in Range(creates) /\ keysLeft
      /\ run' = run /\ UNCHANGED <<high, polls, events>> /\ UNCHANGED <<events, owed>>
  BY DEF CreateScenario, NoFeed
<1>2. PICK fate \in Fates, form \in Forms, good \in BOOLEAN :
        LET named == IF succeeds(fate) /\ form # "nameless" THEN <<k>> ELSE <<>>
        IN  /\ Performs(fate, {k}, "made")
            /\ made' = made \cup {x \in {k} : performs(fate) /\ record[x] = "absent"}
            /\ told' = told \cup (made' \cap Range(named))
            /\ Blames(IF fails THEN fate # "refused" \/ ~good
                      ELSE fate # "done" \/ form # "located" \/ ~good)
            /\ \/ isLost(fate) /\ Stop
               \/ /\ succeeds(fate) /\ form = "located" /\ ~fails
                  /\ phase' = "follow"
                  /\ step' = [Idle EXCEPT !.key = k, !.good = good]
                  /\ UNCHANGED <<todo, created, removed, remaining, passed, failed, report>>
               \/ /\ ~isLost(fate) /\ (fails \/ fate = "refused" \/ form # "located")
                  /\ Settle(fails /\ fate = "refused" /\ good, named, {})
  BY DEF CreateScenario
<1> DEFINE named == IF succeeds(fate) /\ form # "nameless" THEN <<k>> ELSE <<>>
<1>3. run \in Runs /\ ServerOK /\ Going /\ blame \in BOOLEAN
  BY <1>1 DEF IInv, TypeInv, RunnerOK, ServerOK, Going
<1>4. k \in NewKeys /\ k \in Keys
  BY <1>1, <1>3, NewKeyIs
<1>5. /\ name \in CreateNames /\ name # "delete-fails" /\ name # "delete-succeeds"
      /\ removed = {} /\ told \subseteq Range(created) /\ name \in AddEditNames
  <2>1. name \in CreateNames
    BY <1>1, NamesAre
  <2>2. name # "delete-fails" /\ name # "delete-succeeds"
    BY <2>1 DEF CreateNames
  <2>3. QED BY <1>1, <1>3, <2>1, <2>2, HeadIs
<1> HIDE DEF k
<1>6. /\ record' \in [Keys -> RecordStates]
      /\ \A x \in Keys : record'[x] = IF performs(fate) /\ x \in {k} THEN "made" ELSE record[x]
  <2>1. Performs(fate, {k}, "made")
    BY <1>2
  <2>2. "made" \in RecordStates
    BY DEF RecordStates
  <2>3. QED BY <1>3, <2>1, <2>2, WriteIs
<1>7. /\ named \in Seq(Keys) /\ Range(named) \subseteq {k} /\ (named # <<>> => named = <<k>>)
      /\ told' \subseteq told \cup Range(named) /\ made' \in SUBSET Keys
  <2>1. Range(<<k>>) = {k} /\ <<k>> \in Seq(Keys) /\ <<>> \in Seq(Keys) /\ Range(<<>>) = {}
    BY <1>4, RangeOfOne, RangeOfNone
  <2>2. made' = made \cup {x \in {k} : performs(fate) /\ record[x] = "absent"}
    BY <1>2
  <2>3. told' = told \cup (made' \cap Range(named))
    BY <1>2
  <2>4. made \in SUBSET Keys
    BY <1>3 DEF ServerOK
  <2>5. QED BY <1>4, <2>1, <2>2, <2>3, <2>4
<1>8. /\ blame' \in BOOLEAN
      /\ ~blame' => ~blame
      /\ ~blame' /\ fails => fate = "refused" /\ good
      /\ ~blame' /\ ~fails => fate = "done" /\ form = "located" /\ good
  <2> DEFINE wrong == IF fails THEN fate # "refused" \/ ~good
                      ELSE fate # "done" \/ form # "located" \/ ~good
  <2>1. Blames(wrong)
    BY <1>2
  <2>2. blame' = (blame \/ wrong)
    BY <2>1 DEF Blames
  <2>3. QED BY <1>3, <2>2
<1>9. ServerOK'
  <2>1. told' \in SUBSET Keys
    BY <1>3, <1>4, <1>7 DEF ServerOK
  <2>2. QED BY <1>1, <1>3, <1>6, <1>7, <1>8, <2>1, FeedStays
<1>10. RecordInv'
  <2>1. ASSUME NEW x \in Theirs, x \notin Payload PROVE record'[x] = "theirs"
    <3>1. x # k /\ x \in Keys
      BY <1>1, <1>4, <2>1, KeysAre DEF NewKeys, Payload
    <3>2. record[x] = "theirs"
      BY <2>1 DEF IInv, RecordInv
    <3>3. QED BY <1>6, <3>1, <3>2
  <2>2. QED BY <1>1, <2>1, SameRun DEF RecordInv
<1>11. \/ isLost(fate) /\ Stop
       \/ /\ succeeds(fate) /\ form = "located" /\ ~fails
          /\ phase' = "follow"
          /\ step' = [Idle EXCEPT !.key = k, !.good = good]
          /\ UNCHANGED <<todo, created, removed, remaining, passed, failed, report>>
       \/ /\ ~isLost(fate) /\ (fails \/ fate = "refused" \/ form # "located")
          /\ Settle(fails /\ fate = "refused" /\ good, named, {})
  BY <1>2
<1>12. CASE isLost(fate) /\ Stop
  <2>1. blame' = TRUE
    <3>1. fate # "refused" /\ fate # "done"
      BY <1>12 DEF isLost
    <3>2. QED BY <1>8, <3>1
  <2>2. RunnerOK' /\ OwnInv'
    BY <1>1, <1>3, <1>5, <1>12, <2>1, StopIs
  <2>3. QED BY <1>1, <1>3, <1>9, <1>10, <2>2, OwnStep
<1>13. CASE /\ succeeds(fate) /\ form = "located" /\ ~fails
            /\ phase' = "follow"
            /\ step' = [Idle EXCEPT !.key = k, !.good = good]
            /\ UNCHANGED <<todo, created, removed, remaining, passed, failed, report>>
  <2>1. ~blame' => ~blame /\ good /\ record'[k] = Expected[name]
    <3>1. Expected[name] = "made"
      BY <1>5 DEF Expected
    <3>2. ~blame' => fate = "done" /\ good
      BY <1>8, <1>13
    <3>3. performs("done")
      BY DEF performs
    <3>4. QED BY <1>4, <1>6, <1>8, <3>1, <3>2, <3>3
  <2>2. told' \subseteq Range(created) \cup (IF name \in CreateNames THEN {k} ELSE {})
    BY <1>5, <1>7
  <2>3. RunnerOK' /\ OwnInv'
    BY <1>1, <1>4, <1>5, <1>8, <1>13, <2>1, <2>2, FollowIs
  <2>4. QED BY <1>1, <1>3, <1>9, <1>10, <2>3, OwnStep
<1>14. CASE /\ ~isLost(fate) /\ (fails \/ fate = "refused" \/ form # "located")
            /\ Settle(fails /\ fate = "refused" /\ good, named, {})
  <2> DEFINE ok == fails /\ fate = "refused" /\ good
  <2>1. ok \in BOOLEAN /\ Settle(ok, named, {})
    BY <1>14
  <2>2. ~blame' => ~blame /\ ok
    BY <1>8, <1>14
  <2>3. ~blame' => fails
    BY <1>8, <1>14
  <2>4. Range(named) \subseteq NewKeys /\ told' \subseteq Range(created) \cup Range(named)
    BY <1>4, <1>5, <1>7
  <2>5. \A x \in removed \cup {} : record'[x] = "absent"
    BY <1>5
  <2> HIDE DEF ok, named
  <2>6. RunnerOK' /\ OwnInv'
    BY <1>1, <1>3, <1>7, <1>8, <2>1, <2>2, <2>3, <2>4, <2>5, SettleIs
  <2>7. QED BY <1>1, <1>3, <1>9, <1>10, <2>6, OwnStep
<1>15. QED BY <1>11, <1>12, <1>13, <1>14

LEMMA UpdateKeeps ==
  ASSUME IInv, UpdateScenario
  PROVE  IInv'
<1> DEFINE name == Head(todo)
           k == target(name)
           fails == name = "update-fails"
<1>1. /\ addEdit /\ phase = "act" /\ name \in Range(updates) /\ ~refused(name)
      /\ run' = run /\ UNCHANGED <<high, polls, events>> /\ UNCHANGED <<events, owed>>
  BY DEF UpdateScenario, NoFeed
<1>2. PICK fate \in Fates, form \in Forms \ {"nameless"}, good \in BOOLEAN :
        /\ Performs(fate, addressed(k), "updated")
        /\ made' = made \cup {x \in addressed(k) : performs(fate) /\ record[x] = "absent"}
        /\ told' = told \cup (made' \cap Range(created))
        /\ Blames(IF fails THEN fate # "refused" \/ ~good
                  ELSE fate # "done" \/ form # "located" \/ ~good)
        /\ \/ isLost(fate) /\ Stop
           \/ /\ succeeds(fate) /\ form = "located" /\ ~fails
              /\ phase' = "follow"
              /\ step' = [Idle EXCEPT !.key = k, !.good = good]
              /\ UNCHANGED <<todo, created, removed, remaining, passed, failed, report>>
           \/ /\ ~isLost(fate) /\ (fails \/ fate = "refused" \/ form # "located")
              /\ Settle(fails /\ fate = "refused" /\ good, <<>>, {})
  BY DEF UpdateScenario
<1>3. run \in Runs /\ ServerOK /\ Going /\ blame \in BOOLEAN
  BY <1>1 DEF IInv, TypeInv, RunnerOK, ServerOK, Going
<1>4. /\ name \in UpdateNames /\ name # "delete-fails" /\ name # "delete-succeeds"
      /\ name \notin CreateNames
      /\ removed = {} /\ told \subseteq Range(created) /\ name \in AddEditNames
  <2>1. name \in UpdateNames
    BY <1>1, NamesAre
  <2>2. name # "delete-fails" /\ name # "delete-succeeds" /\ name \notin CreateNames
    BY <2>1 DEF UpdateNames, CreateNames
  <2>3. QED BY <1>1, <1>3, <2>1, <2>2, HeadIs
<1>5. k \in Keys /\ addressed(k) = {k} /\ k \in Payload \cup NewKeys \cup {Missing}
  BY <1>1, <1>3, <1>4, TargetIs
<1> HIDE DEF k
<1>6. /\ record' \in [Keys -> RecordStates]
      /\ \A x \in Keys : record'[x] = IF performs(fate) /\ x \in {k} THEN "updated" ELSE record[x]
  <2>1. Performs(fate, {k}, "updated")
    BY <1>2, <1>5
  <2>2. "updated" \in RecordStates
    BY DEF RecordStates
  <2>3. QED BY <1>3, <2>1, <2>2, WriteIs
<1>7. made' \in SUBSET Keys /\ told' \subseteq Range(created) /\ told' \in SUBSET Keys
  <2>1. made' = made \cup {x \in addressed(k) : performs(fate) /\ record[x] = "absent"}
    BY <1>2
  <2>2. made' \in SUBSET Keys
    BY <1>3, <1>5, <2>1 DEF ServerOK
  <2>3. told' = told \cup (made' \cap Range(created))
    BY <1>2
  <2>4. QED BY <1>3, <1>4, <2>2, <2>3 DEF ServerOK
<1>8. /\ blame' \in BOOLEAN
      /\ ~blame' => ~blame
      /\ ~blame' /\ fails => fate = "refused" /\ good
      /\ ~blame' /\ ~fails => fate = "done" /\ form = "located" /\ good
  <2> DEFINE wrong == IF fails THEN fate # "refused" \/ ~good
                      ELSE fate # "done" \/ form # "located" \/ ~good
  <2>1. Blames(wrong)
    BY <1>2
  <2>2. blame' = (blame \/ wrong)
    BY <2>1 DEF Blames
  <2>3. QED BY <1>3, <2>2
<1>9. ServerOK'
  BY <1>1, <1>3, <1>6, <1>7, <1>8, FeedStays
<1>10. RecordInv'
  <2>1. ASSUME NEW x \in Theirs, x \notin Payload PROVE record'[x] = "theirs"
    <3>1. x # k /\ x \in Keys
      BY <1>1, <1>5, <2>1, KeysAre DEF NewKeys, Payload
    <3>2. record[x] = "theirs"
      BY <2>1 DEF IInv, RecordInv
    <3>3. QED BY <1>6, <3>1, <3>2
  <2>2. QED BY <1>1, <2>1, SameRun DEF RecordInv
<1>11. \/ isLost(fate) /\ Stop
       \/ /\ succeeds(fate) /\ form = "located" /\ ~fails
          /\ phase' = "follow"
          /\ step' = [Idle EXCEPT !.key = k, !.good = good]
          /\ UNCHANGED <<todo, created, removed, remaining, passed, failed, report>>
       \/ /\ ~isLost(fate) /\ (fails \/ fate = "refused" \/ form # "located")
          /\ Settle(fails /\ fate = "refused" /\ good, <<>>, {})
  BY <1>2
<1>12. CASE isLost(fate) /\ Stop
  <2>1. blame' = TRUE
    <3>1. fate # "refused" /\ fate # "done"
      BY <1>12 DEF isLost
    <3>2. QED BY <1>8, <3>1
  <2>2. RunnerOK' /\ OwnInv'
    BY <1>1, <1>3, <1>4, <1>12, <2>1, StopIs
  <2>3. QED BY <1>1, <1>3, <1>9, <1>10, <2>2, OwnStep
<1>13. CASE /\ succeeds(fate) /\ form = "located" /\ ~fails
            /\ phase' = "follow"
            /\ step' = [Idle EXCEPT !.key = k, !.good = good]
            /\ UNCHANGED <<todo, created, removed, remaining, passed, failed, report>>
  <2>1. ~blame' => ~blame /\ good /\ record'[k] = Expected[name]
    <3>1. Expected[name] = "updated"
      BY <1>4 DEF Expected
    <3>2. ~blame' => fate = "done" /\ good
      BY <1>8, <1>13
    <3>3. performs("done")
      BY DEF performs
    <3>4. QED BY <1>5, <1>6, <1>8, <3>1, <3>2, <3>3
  <2>2. told' \subseteq Range(created) \cup (IF name \in CreateNames THEN {k} ELSE {})
    BY <1>7
  <2>3. RunnerOK' /\ OwnInv'
    BY <1>1, <1>4, <1>5, <1>8, <1>13, <2>1, <2>2, FollowIs
  <2>4. QED BY <1>1, <1>3, <1>9, <1>10, <2>3, OwnStep
<1>14. CASE /\ ~isLost(fate) /\ (fails \/ fate = "refused" \/ form # "located")
            /\ Settle(fails /\ fate = "refused" /\ good, <<>>, {})
  <2> DEFINE ok == fails /\ fate = "refused" /\ good
  <2>1. ok \in BOOLEAN /\ Settle(ok, <<>>, {})
    BY <1>14
  <2>2. ~blame' => ~blame /\ ok
    BY <1>8, <1>14
  <2>3. <<>> \in Seq(Keys) /\ Range(<<>>) = {}
    BY RangeOfNone
  <2>4. \A x \in removed \cup {} : record'[x] = "absent"
    BY <1>4
  <2> HIDE DEF ok
  <2>5. RunnerOK' /\ OwnInv'
    BY <1>1, <1>3, <1>4, <1>7, <1>8, <2>1, <2>2, <2>3, <2>4, SettleIs
  <2>6. QED BY <1>1, <1>3, <1>9, <1>10, <2>5, OwnStep
<1>15. QED BY <1>11, <1>12, <1>13, <1>14

LEMMA DeleteKeeps ==
  ASSUME IInv, DeleteScenario
  PROVE  IInv'
<1> DEFINE name == Head(todo)
           k == target(name)
           fails == name = "delete-fails"
<1>1. /\ addEdit /\ phase = "act" /\ name \in Range(deletes) /\ ~refused(name)
      /\ run' = run /\ UNCHANGED <<high, polls, events>> /\ UNCHANGED <<events, owed>>
      /\ made' = made /\ told' = told
  BY DEF DeleteScenario, NoFeed
<1>2. PICK fate \in Fates, good \in BOOLEAN :
        /\ Performs(fate, addressed(k), "absent")
        /\ Blames(IF fails THEN fate # "refused" \/ ~good ELSE fate # "done" \/ ~good)
        /\ \/ isLost(fate) /\ Stop
           \/ /\ ~isLost(fate) /\ ~fails
              /\ phase' = "follow"
              /\ step' = [Idle EXCEPT !.key = k, !.good = succeeds(fate) /\ good]
              /\ UNCHANGED <<todo, created, removed, remaining, passed, failed, report>>
           \/ /\ ~isLost(fate) /\ fails
              /\ Settle(fate = "refused" /\ good, <<>>, {})
  BY DEF DeleteScenario
<1>3. run \in Runs /\ ServerOK /\ Going /\ blame \in BOOLEAN
  BY <1>1 DEF IInv, TypeInv, RunnerOK, ServerOK, Going
<1>4. /\ name \in DeleteNames /\ name \notin CreateNames /\ name \notin UpdateNames
      /\ told \subseteq Range(created) /\ name \in AddEditNames
      /\ \A x \in removed : record[x] = "absent"
  <2>1. name \in DeleteNames
    BY <1>1, NamesAre
  <2>2. name \notin CreateNames /\ name \notin UpdateNames
    BY <2>1, NamesAre
  <2>3. QED BY <1>1, <1>3, <2>1, <2>2, HeadIs
<1>5. /\ k \in Keys /\ addressed(k) = {k} /\ k \in Payload \cup NewKeys \cup {Missing}
      /\ name = "delete-succeeds" /\ run.deleteId = None => k \in Range(created)
  BY <1>1, <1>3, <1>4, TargetIs
<1> HIDE DEF k
<1>6. /\ record' \in [Keys -> RecordStates]
      /\ \A x \in Keys : record'[x] = IF performs(fate) /\ x \in {k} THEN "absent" ELSE record[x]
  <2>1. Performs(fate, {k}, "absent")
    BY <1>2, <1>5
  <2>2. "absent" \in RecordStates
    BY DEF RecordStates
  <2>3. QED BY <1>3, <2>1, <2>2, WriteIs
<1>7. \A x \in removed : record'[x] = "absent"
  <2>1. removed \subseteq Keys
    BY DEF IInv, TypeInv, RunnerOK, Range
  <2>2. QED BY <1>4, <1>6, <2>1
<1>8. /\ blame' \in BOOLEAN
      /\ ~blame' => ~blame
      /\ ~blame' /\ fails => fate = "refused" /\ good
      /\ ~blame' /\ ~fails => fate = "done" /\ good
  <2> DEFINE wrong == IF fails THEN fate # "refused" \/ ~good ELSE fate # "done" \/ ~good
  <2>1. Blames(wrong)
    BY <1>2
  <2>2. blame' = (blame \/ wrong)
    BY <2>1 DEF Blames
  <2>3. QED BY <1>3, <2>2
<1>9. ServerOK'
  <2>1. made' \in SUBSET Keys /\ told' \in SUBSET Keys
    BY <1>1, <1>3 DEF ServerOK
  <2>2. QED BY <1>1, <1>3, <1>6, <1>8, <2>1, FeedStays
<1>10. RecordInv'
  <2>1. ASSUME NEW x \in Theirs, x \notin Payload PROVE record'[x] = "theirs"
    <3>1. x # k /\ x \in Keys
      BY <1>1, <1>5, <2>1, KeysAre DEF NewKeys, Payload
    <3>2. record[x] = "theirs"
      BY <2>1 DEF IInv, RecordInv
    <3>3. QED BY <1>6, <3>1, <3>2
  <2>2. QED BY <1>1, <2>1, SameRun DEF RecordInv
<1>11. \/ isLost(fate) /\ Stop
       \/ /\ ~isLost(fate) /\ ~fails
          /\ phase' = "follow"
          /\ step' = [Idle EXCEPT !.key = k, !.good = succeeds(fate) /\ good]
          /\ UNCHANGED <<todo, created, removed, remaining, passed, failed, report>>
       \/ /\ ~isLost(fate) /\ fails
          /\ Settle(fate = "refused" /\ good, <<>>, {})
  BY <1>2
<1>12. CASE isLost(fate) /\ Stop
  <2>1. blame' = TRUE
    <3>1. fate # "refused" /\ fate # "done"
      BY <1>12 DEF isLost
    <3>2. QED BY <1>8, <3>1
  <2>2. RunnerOK' /\ OwnInv'
    BY <1>1, <1>3, <1>7, <1>12, <2>1, StopIs
  <2>3. QED BY <1>1, <1>3, <1>9, <1>10, <2>2, OwnStep
<1>13. CASE /\ ~isLost(fate) /\ ~fails
            /\ phase' = "follow"
            /\ step' = [Idle EXCEPT !.key = k, !.good = succeeds(fate) /\ good]
            /\ UNCHANGED <<todo, created, removed, remaining, passed, failed, report>>
  <2> DEFINE seen == succeeds(fate) /\ good
  <2>1. seen \in BOOLEAN /\ step' = [Idle EXCEPT !.key = k, !.good = seen]
    BY <1>13
  <2>2. ~blame' => ~blame /\ seen /\ record'[k] = Expected[name]
    <3>1. Expected[name] = "absent"
      BY <1>4 DEF Expected
    <3>2. ~blame' => fate = "done" /\ good
      BY <1>8, <1>13
    <3>3. performs("done") /\ succeeds("done")
      BY DEF performs, succeeds
    <3>4. QED BY <1>5, <1>6, <1>8, <3>1, <3>2, <3>3
  <2>3. told' \subseteq Range(created) \cup (IF name \in CreateNames THEN {k} ELSE {})
    BY <1>1, <1>4
  <2> HIDE DEF seen
  <2>4. RunnerOK' /\ OwnInv'
    BY <1>1, <1>4, <1>5, <1>7, <1>8, <1>13, <2>1, <2>2, <2>3, FollowIs
  <2>5. QED BY <1>1, <1>3, <1>9, <1>10, <2>4, OwnStep
<1>14. CASE /\ ~isLost(fate) /\ fails
            /\ Settle(fate = "refused" /\ good, <<>>, {})
  <2> DEFINE ok == fate = "refused" /\ good
  <2>1. ok \in BOOLEAN /\ Settle(ok, <<>>, {})
    BY <1>14
  <2>2. ~blame' => ~blame /\ ok
    BY <1>8, <1>14
  <2>3. <<>> \in Seq(Keys) /\ Range(<<>>) = {}
    BY RangeOfNone
  <2>4. \A x \in removed \cup {} : record'[x] = "absent"
    BY <1>7
  <2> HIDE DEF ok
  <2>5. RunnerOK' /\ OwnInv'
    BY <1>1, <1>3, <1>4, <1>8, <2>1, <2>2, <2>3, <2>4, SettleIs
  <2>6. QED BY <1>1, <1>3, <1>9, <1>10, <2>5, OwnStep
<1>15. QED BY <1>11, <1>12, <1>13, <1>14

LEMMA NoRecordKeeps ==
  ASSUME IInv, NoRecord
  PROVE  IInv'
<1>1. /\ addEdit /\ phase = "act" /\ Head(todo) \notin Range(creates) /\ refused(Head(todo))
      /\ Settle(FALSE, <<>>, {})
      /\ run' = run /\ UNCHANGED <<high, polls, events>> /\ UNCHANGED <<events, owed>>
      /\ UNCHANGED <<record, made, told, blame>>
  BY DEF NoRecord, NoFeed
<1>2. run \in Runs /\ ServerOK /\ Going /\ blame \in BOOLEAN
  BY <1>1 DEF IInv, TypeInv, RunnerOK, ServerOK, Going
<1>3. /\ Head(todo) \in UpdateNames \cup DeleteNames /\ Head(todo) \notin CreateNames
      /\ told \subseteq Range(created)
      /\ \A x \in removed : record[x] = "absent"
  BY <1>1, <1>2, HeadIs, NamesAre
<1>4. blame
  BY <1>1, <1>2, <1>3, BlamelessHasRecord
<1>5. ServerOK'
  BY <1>1, <1>2, FeedStays DEF ServerOK
<1>6. RecordInv'
  BY <1>1, SameRun DEF IInv, RecordInv
<1>7. <<>> \in Seq(Keys) /\ Range(<<>>) = {} /\ {} \in SUBSET Range(created)
  BY RangeOfNone
<1>8. RunnerOK' /\ OwnInv'
  <2>1. FALSE \in BOOLEAN /\ blame' \in BOOLEAN /\ blame'
    BY <1>1, <1>2, <1>4
  <2>2. \A x \in removed \cup {} : record'[x] = "absent"
    BY <1>1, <1>3
  <2>3. told' \subseteq Range(created) \cup Range(<<>>)
    BY <1>1, <1>3
  <2> DEFINE none == <<>>
  <2>4. none \in Seq(Keys) /\ Range(none) \subseteq NewKeys /\ Settle(FALSE, none, {})
        /\ told' \subseteq Range(created) \cup Range(none)
    BY <1>1, <1>7, <2>3
  <2> HIDE DEF none
  <2>5. QED BY <1>1, <1>2, <1>7, <2>1, <2>2, <2>4, SettleIs
<1>9. QED BY <1>1, <1>2, <1>5, <1>6, <1>8, OwnStep

LEMMA FollowUpKeeps ==
  ASSUME IInv, FollowUp
  PROVE  IInv'
<1> DEFINE name == Head(todo)
           now == record[step.key]
           keys == IF name \in Range(creates) THEN <<step.key>> ELSE <<>>
           seen(answer) ==
             answer = "read" /\
               now = (CASE name \in Range(creates) -> "made"
                        [] name \in Range(updates) -> "updated"
                        [] OTHER -> "absent")
           gone(answer) == IF name = "delete-succeeds" THEN removedKey(seen(answer)) ELSE {}
<1>1. /\ addEdit /\ phase = "follow"
      /\ run' = run /\ UNCHANGED <<high, polls, events>> /\ UNCHANGED <<events, owed>>
      /\ UNCHANGED <<record, made, told>>
  BY DEF FollowUp, NoFeed
<1>2. run \in Runs /\ ServerOK /\ Going /\ blame \in BOOLEAN /\ step \in Steps
  BY <1>1 DEF IInv, TypeInv, RunnerOK, ServerOK, Going
<1>3. /\ step.key \in Keys /\ step.key # None /\ step.good \in BOOLEAN
      /\ name \in CreateNames => step.key \in NewKeys
      /\ name = "delete-succeeds" /\ run.deleteId = None => step.key \in Range(created)
  BY <1>1, KeysAre DEF IInv, OwnInv, KeysInv
<1>4. PICK answer \in {"read", "error", "lost"} :
        /\ Blames(answer # "read")
        /\ IF answer = "lost" THEN Stop ELSE Settle(step.good /\ seen(answer), keys, gone(answer))
  BY <1>1, <1>3 DEF FollowUp
<1>5. /\ name \in AddEditNames /\ told \subseteq Range(created) \cup Pending
      /\ Pending = IF name \in CreateNames THEN {step.key} ELSE {}
      /\ \A x \in removed : record[x] = "absent"
  <2>1. told \subseteq Range(created) \cup Pending
    BY <1>1, <1>2 DEF IInv, OwnInv, AccountInv
  <2>2. QED BY <1>1, <1>2, <2>1, HeadIs DEF Pending
<1>6. keys \in Seq(Keys) /\ Range(keys) = (IF name \in CreateNames THEN {step.key} ELSE {})
      /\ (name \in CreateNames => keys = <<step.key>>)
  <2>1. <<step.key>> \in Seq(Keys) /\ Range(<<step.key>>) = {step.key}
        /\ <<>> \in Seq(Keys) /\ Range(<<>>) = {}
    BY <1>3, RangeOfOne, RangeOfNone
  <2>2. QED BY <2>1, NamesAre
<1>7. blame' \in BOOLEAN /\ (~blame' => ~blame /\ answer = "read")
  BY <1>2, <1>4 DEF Blames
<1>8. ServerOK'
  <2>1. record' \in [Keys -> RecordStates] /\ made' \in SUBSET Keys /\ told' \in SUBSET Keys
    BY <1>1, <1>2 DEF ServerOK
  <2>2. QED BY <1>1, <1>2, <1>7, <2>1, FeedStays
<1>9. RecordInv'
  BY <1>1, SameRun DEF IInv, RecordInv
<1>10. CASE answer = "lost"
  <2>1. blame' = TRUE
    BY <1>7, <1>10
  <2>2. RunnerOK' /\ OwnInv'
    BY <1>1, <1>2, <1>4, <1>5, <1>10, <2>1, StopIs
  <2>3. QED BY <1>1, <1>2, <1>8, <1>9, <2>2, OwnStep
<1>11. CASE answer # "lost"
  <2> DEFINE ok == step.good /\ seen(answer)
             went == gone(answer)
  <2>1. Settle(ok, keys, went) /\ ok \in BOOLEAN
    BY <1>3, <1>4, <1>11
  <2>2. ASSUME ~blame' PROVE ~blame /\ ok
    <3>1. ~blame /\ answer = "read"
      BY <1>7, <2>2
    <3>2. step.good /\ record[step.key] = Expected[name]
      BY <1>1, <3>1 DEF IInv, OwnInv, FaultInv
    <3>3. Expected[name] = (CASE name \in Range(creates) -> "made"
                              [] name \in Range(updates) -> "updated"
                              [] OTHER -> "absent")
      BY <1>5, NamesAre DEF Expected
    <3>4. QED BY <3>1, <3>2, <3>3
  <2>3. /\ went \in SUBSET Range(created)
        /\ went # {} => name = "delete-succeeds"
        /\ \A x \in went : record[x] = "absent"
    <3>1. CASE name = "delete-succeeds" /\ run.deleteId = None /\ seen(answer)
      <4>1. went = {step.key} /\ step.key \in Range(created)
        BY <1>3, <3>1 DEF removedKey
      <4>2. name \notin Range(creates) /\ name \notin Range(updates)
        BY <3>1, NamesAre DEF CreateNames, UpdateNames
      <4>3. record[step.key] = "absent"
        BY <3>1, <4>2
      <4>4. QED BY <3>1, <4>1, <4>3
    <3>2. CASE ~(name = "delete-succeeds" /\ run.deleteId = None /\ seen(answer))
      <4>1. went = {}
        BY <3>2 DEF removedKey
      <4>2. QED BY <4>1
    <3>3. QED BY <3>1, <3>2
  <2>4. /\ Range(keys) \subseteq NewKeys
        /\ told' \subseteq Range(created) \cup Range(keys)
        /\ \A x \in removed \cup went : record'[x] = "absent"
    BY <1>1, <1>3, <1>5, <1>6, <2>3
  <2>5. name \in CreateNames \ {"create-fails"} => keys # <<>>
    BY <1>6
  <2> HIDE DEF ok, went, keys, seen, gone
  <2>6. RunnerOK' /\ OwnInv'
    BY <1>1, <1>2, <1>6, <1>7, <2>1, <2>2, <2>3, <2>4, <2>5, SettleIs
  <2>7. QED BY <1>1, <1>2, <1>8, <1>9, <2>6, OwnStep
<1>12. QED BY <1>10, <1>11

LEMMA CheckKeeps ==
  ASSUME IInv, Check
  PROVE  IInv'
<1>1. /\ addEdit /\ phase = "checking"
      /\ run' = run /\ UNCHANGED <<high, polls, events>> /\ UNCHANGED <<events, owed>>
      /\ UNCHANGED <<record, made, told, blame>>
      /\ UNCHANGED <<step, created, removed, remaining, passed, failed>>
  BY DEF Check, NoFeed, history
<1>2. run \in Runs /\ ServerOK /\ blame \in BOOLEAN
  BY DEF IInv, TypeInv, RunnerOK, ServerOK
<1>3. /\ told = {} /\ created = <<>> /\ removed = {} /\ passed = {} /\ failed = {}
      /\ report = NoReport
  BY <1>1 DEF IInv, OwnInv, AccountInv
<1>4. ServerOK'
  BY <1>1, <1>2, FeedStays DEF ServerOK
<1>5. RecordInv'
  BY <1>1, SameRun DEF IInv, RecordInv
<1>6. newest' = newest
  BY <1>1 DEF newest
<1>6a. NamesInv'
  BY <1>1, <1>3 DEF NamesInv
<1>7. CASE planProblems(run) \/ providedPayloadProblems(run)
  <2>1. phase' = "done" /\ report' = [NoReport EXCEPT !.outcome = "refused"] /\ todo' = todo
    BY <1>7 DEF Check
  <2>2. report' \in Reports /\ report'.outcome = "refused"
    BY <2>1 DEF NoReport, Reports
  <2>3. RunnerOK'
    BY <1>1, <1>6, <2>1, <2>2 DEF IInv, TypeInv, RunnerOK
  <2>4. PlanInv' /\ KeysInv' /\ AccountInv' /\ FaultInv'
    <3>1. PlanInv'
      BY <2>1 DEF PlanInv, Going
    <3>2. KeysInv'
      BY <1>1, <1>3, <2>1, SameRun, RangeOfNone DEF KeysInv
    <3>3. AccountInv'
      BY <1>1, <1>3, <2>1, <2>2 DEF AccountInv, Going, MadeIsAccountedFor
    <3>4. FaultInv'
      BY <1>1, <1>3, <2>1 DEF FaultInv, Going
    <3>5. QED BY <3>1, <3>2, <3>3, <3>4
  <2>5. QED BY <1>1, <1>2, <1>4, <1>5, <1>6a, <2>3, <2>4, OwnStep DEF OwnInv
<1>8. CASE ~(planProblems(run) \/ providedPayloadProblems(run))
  <2> DEFINE t == scenariosFor(run)
  <2>1. phase' = "act" /\ todo' = t /\ report' = report
    BY <1>8 DEF Check
  <2>2. /\ Rises(t, 1, 8) /\ t # <<>>
        /\ \A n \in Range(t) :
             /\ n \in CreateNames => "create" \in run.actions
             /\ n \in UpdateNames => "update" \in run.actions
             /\ n \in DeleteNames => "delete" \in run.actions
        /\ "create" \in run.actions => \E n \in CreateNames \ {"create-fails"} : n \in Range(t)
        /\ Planned
    BY <1>1, <1>2, <1>8, ScenariosAre, PlannedIs
  <2> HIDE DEF t
  <2>3. /\ t \in Seq(AddEditNames)
        /\ \A i, j \in DOMAIN t : i < j => Rank[t[i]] < Rank[t[j]]
        /\ \A i \in DOMAIN t : t[i] \in AddEditNames /\ t[i] \in Range(t)
    BY <2>2 DEF Rises, Range
  <2>4. t \in Seq(Names)
    <3>1. \A S, T : S \subseteq T => Seq(S) \subseteq Seq(T)
      OBVIOUS
    <3>2. AddEditNames \subseteq Names
      BY DEF Names
    <3>3. QED BY <2>3, <3>1, <3>2
  <2>5. RunnerOK'
    BY <1>1, <1>6, <2>1, <2>4 DEF IInv, TypeInv, RunnerOK
  <2>6. PlanInv'
    BY <1>1, <1>3, <2>1, <2>2, <2>3, SameRun DEF PlanInv
  <2>7. KeysInv'
    BY <1>1, <1>3, <2>1, SameRun, RangeOfNone DEF KeysInv
  <2>8. AccountInv'
    <3>1. MadeIsAccountedFor'
      BY <1>3, <2>1 DEF MadeIsAccountedFor, NoReport
    <3>2. QED BY <1>1, <1>3, <2>1, <3>1 DEF AccountInv, Going
  <2>9. FaultInv'
    <3>1. ASSUME "create" \in run.actions
          PROVE  \E i \in DOMAIN todo' : todo'[i] \in CreateNames \ {"create-fails"}
      BY <2>1, <2>2, <3>1 DEF Range
    <3>2. QED BY <1>1, <1>3, <2>1, <3>1 DEF FaultInv
  <2>10. QED BY <1>1, <1>2, <1>4, <1>5, <1>6a, <2>5, <2>6, <2>7, <2>8, <2>9, OwnStep DEF OwnInv
<1>9. QED BY <1>7, <1>8

LEMMA CleanUpKeeps ==
  ASSUME IInv, CleanUp
  PROVE  IInv'
<1> DEFINE k == Head(remaining)
           gone(fate) == succeeds(fate) \/ (fate = "refused" /\ record[k] = "absent")
           noted(fate) == IF gone(fate) THEN [report EXCEPT !.removed = @ \cup {k}]
                          ELSE [report EXCEPT !.notRemoved = @ \cup {k}]
<1>1. /\ addEdit /\ phase = "cleaning"
      /\ run' = run /\ UNCHANGED <<high, polls, events>> /\ UNCHANGED <<events, owed>>
      /\ UNCHANGED <<todo, step, created, removed, passed, failed, made, told>>
  BY DEF CleanUp, NoFeed
<1>2. PICK fate \in Fates :
        /\ Performs(fate, {k}, "absent")
        /\ pretended' = pretended \cup {x \in {k} : fate = "ignored"}
        /\ Blames(~gone(fate) \/ fate = "ignored")
        /\ remaining' = Tail(remaining)
        /\ IF isLost(fate)
           THEN phase' = "done" /\ report' = [NoReport EXCEPT !.outcome = "unfinished"]
           ELSE IF Len(remaining) > 1 THEN report' = noted(fate) /\ UNCHANGED phase
           ELSE /\ phase' = "done"
                /\ report' = [noted(fate) EXCEPT !.outcome =
                                IF @ = "stopping" THEN "threw" ELSE "reported"]
  BY DEF CleanUp
<1>3. /\ run \in Runs /\ ServerOK /\ blame \in BOOLEAN /\ report \in Reports
      /\ remaining \in Seq(Keys) /\ Range(remaining) \subseteq Range(created)
      /\ Range(created) \subseteq NewKeys
  BY <1>1 DEF IInv, TypeInv, RunnerOK, ServerOK, OwnInv, KeysInv
<1>4. /\ report.outcome \in {"none", "stopping"}
      /\ report.outcome = "none" => told \subseteq Range(created)
      /\ remaining # <<>>
      /\ \A x \in Range(created) :
           \/ record[x] = "absent"
           \/ x \in Range(remaining) \cup report.notRemoved
           \/ x \in report.removed \cap pretended
  BY <1>1 DEF IInv, OwnInv, AccountInv
<1>5. /\ k \in Keys /\ remaining' \in Seq(Keys) /\ Range(remaining) = {k} \cup Range(remaining')
      /\ Len(remaining') = Len(remaining) - 1 /\ Len(remaining) >= 1 /\ Len(remaining) \in Nat
      /\ k \in NewKeys
  <2>1. /\ k \in Keys /\ Tail(remaining) \in Seq(Keys)
        /\ Range(remaining) = {k} \cup Range(Tail(remaining))
        /\ Len(Tail(remaining)) = Len(remaining) - 1 /\ Len(remaining) >= 1
        /\ Len(remaining) \in Nat
    BY <1>3, <1>4, RangeTail
  <2>2. remaining' = Tail(remaining)
    BY <1>2
  <2>3. QED BY <1>3, <2>1, <2>2
<1> HIDE DEF k
<1>6. /\ record' \in [Keys -> RecordStates]
      /\ \A x \in Keys : record'[x] = IF performs(fate) /\ x \in {k} THEN "absent" ELSE record[x]
  <2>1. Performs(fate, {k}, "absent")
    BY <1>2
  <2>2. "absent" \in RecordStates
    BY DEF RecordStates
  <2>3. QED BY <1>3, <2>1, <2>2, WriteIs
<1>7. blame' \in BOOLEAN /\ (~blame' => ~blame)
  <2> HIDE DEF gone
  <2>1. QED BY <1>2, <1>3 DEF Blames
<1>8. ServerOK'
  <2>1. made' \in SUBSET Keys /\ told' \in SUBSET Keys
    BY <1>1, <1>3 DEF ServerOK
  <2>2. QED BY <1>1, <1>3, <1>6, <1>7, <2>1, FeedStays
<1>9. RecordInv'
  <2>1. ASSUME NEW x \in Theirs, x \notin Payload PROVE record'[x] = "theirs"
    <3>1. x # k /\ x \in Keys
      BY <1>1, <1>5, <2>1, KeysAre DEF NewKeys, Payload
    <3>2. record[x] = "theirs"
      BY <2>1 DEF IInv, RecordInv
    <3>3. QED BY <1>6, <3>1, <3>2
  <2>2. QED BY <1>1, <2>1, SameRun DEF RecordInv
<1>10. FaultInv' /\ KeysInv' /\ PlanInv' /\ NamesInv'
  <2>1. phase' \in {"done", "cleaning"}
    BY <1>1, <1>2
  <2>2. ~Going' /\ phase' # "follow"
    BY <2>1 DEF Going
  <2>3. FaultInv'
    BY <1>1, <1>7, <2>2, SameRun DEF IInv, OwnInv, FaultInv
  <2>4. KeysInv'
    BY <1>1, <1>3, <2>1, SameRun DEF KeysInv
  <2>5. PlanInv'
    BY <2>2 DEF PlanInv
  <2>6. NamesInv'
    BY <1>1, SameRun DEF IInv, OwnInv, NamesInv
  <2>7. QED BY <2>3, <2>4, <2>5, <2>6
(* The record that was next is gone, noted as not removed, or noted as     *)
(* removed although it is not.                                             *)
<1>11. /\ noted(fate) \in Reports /\ noted(fate).outcome = report.outcome
       /\ noted(fate).notRemoved = IF gone(fate) THEN report.notRemoved
                                   ELSE report.notRemoved \cup {k}
       /\ noted(fate).removed = IF gone(fate) THEN report.removed \cup {k} ELSE report.removed
  <2> HIDE DEF gone
  <2>1. CASE gone(fate)
    BY <1>3, <1>5, <2>1 DEF Reports
  <2>2. CASE ~gone(fate)
    BY <1>3, <1>5, <2>2 DEF Reports
  <2>3. QED BY <2>1, <2>2
<1>12. ASSUME NEW x \in Range(created)
       PROVE  \/ record'[x] = "absent"
              \/ x \in Range(remaining') \cup noted(fate).notRemoved
              \/ x \in noted(fate).removed \cap pretended'
  <2>1. x \in Keys
    <3>1. created \in Seq(Keys)
      BY DEF IInv, TypeInv, RunnerOK
    <3>2. QED BY <3>1 DEF Range
  <2>2. CASE record[x] = "absent"
    BY <1>6, <2>1, <2>2
  <2>3. CASE x = k
    <3>1. CASE fate = "ignored"
      <4>1. gone(fate)
        BY <3>1 DEF succeeds
      <4>2. k \in noted(fate).removed /\ k \in pretended'
        BY <1>2, <1>11, <3>1, <4>1
      <4>3. QED BY <2>3, <4>2
    <3>2. CASE fate # "ignored" /\ gone(fate)
      <4>1. performs("done") /\ (succeeds(fate) => fate = "done")
        BY <3>2 DEF performs, succeeds
      <4>2. QED BY <1>6, <2>1, <2>3, <3>2, <4>1
    <3>3. CASE ~gone(fate)
      BY <1>11, <2>3, <3>3
    <3>4. QED BY <3>1, <3>2, <3>3
  <2>4. CASE x # k /\ record[x] # "absent"
    <3>1. \/ x \in Range(remaining') \cup report.notRemoved
          \/ x \in report.removed \cap pretended
      BY <1>4, <1>5, <2>4
    <3>2. /\ report.notRemoved \subseteq noted(fate).notRemoved
          /\ report.removed \subseteq noted(fate).removed
          /\ pretended \subseteq pretended'
      BY <1>2, <1>11
    <3>3. QED BY <3>1, <3>2
  <2>5. QED BY <2>2, <2>3, <2>4
<1>13. newest' = newest
  BY <1>1 DEF newest
<1> HIDE DEF gone, noted
<1>14. RunnerOK' /\ AccountInv'
  <2>1. CASE isLost(fate)
    <3>1. phase' = "done" /\ report' = [NoReport EXCEPT !.outcome = "unfinished"]
      BY <1>2, <2>1
    <3>2. report' \in Reports /\ report'.outcome = "unfinished"
      BY <3>1 DEF NoReport, Reports
    <3>3. RunnerOK'
      BY <1>1, <1>3, <1>5, <1>13, <3>1, <3>2 DEF IInv, TypeInv, RunnerOK
    <3>4. AccountInv'
      BY <3>1, <3>2 DEF AccountInv, Going, MadeIsAccountedFor
    <3>5. QED BY <3>3, <3>4
  <2>2. CASE ~isLost(fate) /\ Len(remaining) > 1
    <3>1. phase' = "cleaning" /\ report' = noted(fate)
      BY <1>1, <1>2, <2>2
    <3>2. RunnerOK'
      BY <1>1, <1>3, <1>5, <1>11, <1>13, <3>1 DEF IInv, TypeInv, RunnerOK
    <3>3. remaining' # <<>>
      BY <1>5, <2>2
    <3>4. AccountInv'
      <4>1. report'.outcome \in {"none", "stopping"}
        BY <1>4, <1>11, <3>1
      <4>2. MadeIsAccountedFor'
        BY <4>1 DEF MadeIsAccountedFor
      <4>3. report'.outcome = "none" => told' \subseteq Range(created')
        BY <1>1, <1>4, <1>11, <3>1
      <4>4. \A x \in Range(created') :
              \/ record'[x] = "absent"
              \/ x \in Range(remaining') \cup report'.notRemoved
              \/ x \in report'.removed \cap pretended'
        BY <1>1, <1>12, <3>1
      <4>5. QED BY <3>1, <3>3, <4>1, <4>2, <4>3, <4>4 DEF AccountInv, Going
    <3>5. QED BY <3>2, <3>4
  <2>3. CASE ~isLost(fate) /\ ~(Len(remaining) > 1)
    <3>1. /\ phase' = "done"
          /\ report' = [noted(fate) EXCEPT !.outcome =
                          IF noted(fate).outcome = "stopping" THEN "threw" ELSE "reported"]
      BY <1>2, <2>3
    <3>2. /\ report' \in Reports /\ report'.notRemoved = noted(fate).notRemoved
          /\ report'.removed = noted(fate).removed
          /\ report'.outcome = IF report.outcome = "stopping" THEN "threw" ELSE "reported"
      BY <1>11, <3>1 DEF Reports
    <3>3. Range(remaining') = {}
      <4>1. Len(remaining') = 0
        BY <1>5, <2>3
      <4>2. QED BY <1>5, <4>1, EmptySeq, RangeOfNone
    <3>4. MadeIsAccountedFor'
      <4>1. ASSUME report'.outcome = "reported", NEW x \in told'
            PROVE  \/ record'[x] = "absent" \/ x \in report'.notRemoved
                   \/ x \in report'.removed \cap pretended'
        <5>1. report.outcome = "none"
          BY <1>4, <3>2, <4>1
        <5>2. x \in Range(created)
          BY <1>1, <1>4, <4>1, <5>1
        <5>3. QED BY <1>12, <3>2, <3>3, <5>2
      <4>2. QED BY <4>1 DEF MadeIsAccountedFor
    <3>5. RunnerOK'
      BY <1>1, <1>3, <1>5, <1>13, <3>1, <3>2 DEF IInv, TypeInv, RunnerOK
    <3>6. AccountInv'
      BY <3>1, <3>4 DEF AccountInv, Going
    <3>7. QED BY <3>5, <3>6
  <2>4. QED BY <2>1, <2>2, <2>3
<1>15. QED BY <1>1, <1>3, <1>8, <1>9, <1>10, <1>14, OwnStep DEF OwnInv

-----------------------------------------------------------------------------
(* The EntityEvent run: its places, and the feed under its changes.        *)
LEMMA PlacesAre ==
  /\ Len(Full4) = 4 /\ Len(Full3) = 3 /\ Len(Full2) = 2 /\ Len(Full1) = 1
  /\ Head(Full4) = "create" /\ Head(Full3) = "update" /\ Head(Full2) = "delete"
  /\ Head(Full1) = "sync"
  /\ Tail(Full4) = Full3 /\ Tail(Full3) = Full2 /\ Tail(Full2) = Full1
  /\ {Full4, Full3, Full2, Full1, <<>>} \subseteq Seq(Names)
  /\ Turn["create"] = 4 /\ Turn["update"] = 3 /\ Turn["delete"] = 2 /\ Turn["sync"] = 1
  /\ \A name \in CanaryNames : Turn[name] \in 2 .. 4
<1>1. {"create", "update", "delete", "sync"} \subseteq Names
  BY DEF Names, CanaryNames
<1>2. /\ Len(Full4) = 4 /\ Len(Full3) = 3 /\ Len(Full2) = 2 /\ Len(Full1) = 1
      /\ Full4 \in Seq(Names) /\ Full3 \in Seq(Names) /\ Full2 \in Seq(Names)
      /\ Full1 \in Seq(Names) /\ <<>> \in Seq(Names)
  BY <1>1 DEF Full4, Full3, Full2, Full1
<1>3. /\ Head(Full4) = "create" /\ Head(Full3) = "update" /\ Head(Full2) = "delete"
      /\ Head(Full1) = "sync"
  BY DEF Full4, Full3, Full2, Full1
<1>4. Tail(Full4) = Full3 /\ Tail(Full3) = Full2 /\ Tail(Full2) = Full1
  BY DEF Full4, Full3, Full2, Full1
<1>5. Turn["create"] = 4 /\ Turn["update"] = 3 /\ Turn["delete"] = 2 /\ Turn["sync"] = 1
  BY DEF Turn, CanaryNames
<1>6. \A name \in CanaryNames : Turn[name] \in 2 .. 4
  BY <1>5 DEF CanaryNames
<1>7. QED BY <1>2, <1>3, <1>4, <1>5, <1>6

LEMMA CanaryStep ==
  ASSUME canary, run \in Runs, run' = run, RunnerOK', ServerOK', RecordInv',
         PlaceInv', EventsInv', SeenInv', BlameInv'
  PROVE  IInv'
<1>1. ~addEdit'
  BY RunIs, SameRun
<1>2. OwnInv'
  BY <1>1 DEF OwnInv, PlanInv, KeysInv, AccountInv, FaultInv, NamesInv
<1>3. QED BY <1>2 DEF IInv, TypeInv, CanaryInv

(* No record of the provider's is written to.                              *)
LEMMA TheirsStay ==
  ASSUME IInv, canary, run' = run, NEW fate, NEW k \in Keys \ Theirs, NEW value \in RecordStates,
         Performs(fate, {k}, value)
  PROVE  RecordInv' /\ record' \in [Keys -> RecordStates]
         /\ \A x \in Keys : record'[x] = IF performs(fate) /\ x \in {k} THEN value ELSE record[x]
<1>1. /\ record' \in [Keys -> RecordStates]
      /\ \A x \in Keys : record'[x] = IF performs(fate) /\ x \in {k} THEN value ELSE record[x]
  BY WriteIs DEF IInv, TypeInv
<1>2. \A x \in Theirs : x \in Keys /\ x # k
  BY KeysAre
<1>3. RecordInv'
  BY <1>1, <1>2, SameRun DEF IInv, RecordInv
<1>4. QED BY <1>1, <1>3

(* A change is announced, owed or neither: what it adds is its own.        *)
LEMMA ChangedIs ==
  ASSUME ServerOK, NEW k \in Keys, NEW name \in CanaryNames, NEW fate, NEW timing,
         Changed(k, name, fate, timing)
  PROVE  /\ events' \in SUBSET Events /\ EventsBounded' /\ owed' \in SUBSET Owed
         /\ newest \in Nat /\ newest <= newest' /\ newest' \in Nat
         /\ events \subseteq events' /\ owed \subseteq owed'
         /\ \A e \in events' \ events : e.by = name /\ e.key = k /\ e.seq = newest + 1
         /\ \A o \in owed' \ owed : o.by = name /\ o.key = k
         /\ \A e, f \in events' \ events : e = f
         /\ events' = events \/ owed' = owed
         /\ \A o, p \in owed' \ owed : o = p
<1>1. newest \in Nat
  BY NewestIs
<1>2. CASE performs(fate) /\ timing = "now"
  <2>1. Announces(k, name) /\ owed' = owed
    BY <1>2 DEF Changed
  <2>2. /\ events' \in SUBSET Events /\ EventsBounded'
        /\ events' = events \cup {[key |-> k, seq |-> newest + 1, by |-> name]}
        /\ newest' \in Nat /\ newest <= newest'
    BY <2>1, AnnouncesOne
  <2>3. QED BY <1>1, <2>1, <2>2 DEF ServerOK
<1>3. CASE ~(performs(fate) /\ timing = "now")
  <2>1. /\ events' = events
        /\ owed' = owed \cup {x \in {[key |-> k, by |-> name]} : performs(fate) /\ timing = "later"}
    BY <1>3 DEF Changed
  <2>2. newest' = newest
    BY <2>1 DEF newest
  <2>3. [key |-> k, by |-> name] \in Owed
    BY DEF Owed
  <2>4. owed' \in SUBSET Owed
    BY <2>1, <2>3 DEF ServerOK
  <2>5. events' \in SUBSET Events /\ EventsBounded'
    BY <2>1 DEF ServerOK, EventsBounded
  <2>6. QED BY <1>1, <2>1, <2>2, <2>4, <2>5
<1>4. QED BY <1>2, <1>3

(* A change that was still ahead keeps the feed in order, whatever is next.*)
LEMMA ChangedKeepsEvents ==
  ASSUME IInv, canary, run' = run, NEW k \in Keys \ Theirs, NEW name \in CanaryNames,
         NEW fate, NEW timing, Changed(k, name, fate, timing), Ahead(name),
         \A n \in CanaryNames : Ahead(n)' => Ahead(n) /\ n # name
  PROVE  EventsInv'
<1>1. /\ events' \in SUBSET Events /\ owed' \in SUBSET Owed
      /\ events \subseteq events' /\ owed \subseteq owed'
      /\ \A e \in events' \ events : e.by = name /\ e.key = k
      /\ \A o \in owed' \ owed : o.by = name /\ o.key = k
      /\ \A e, f \in events' \ events : e = f
      /\ events' = events \/ owed' = owed
      /\ \A o, p \in owed' \ owed : o = p
  BY ChangedIs DEF IInv, TypeInv
<1>2. /\ \A e \in events : e.by \in CanaryNames <=> e.key \notin Theirs
      /\ \A o \in owed : o.key \notin Theirs
      /\ \A e, f \in events : e.by = f.by /\ e.by \in CanaryNames => e = f
      /\ \A e \in events, o \in owed : e.by # o.by
      /\ \A o, p \in owed : o.by = p.by => o = p
      /\ \A n \in CanaryNames : Ahead(n) =>
           (\A e \in events : e.by # n) /\ (\A o \in owed : o.by # n)
  BY DEF IInv, CanaryInv, EventsInv
<1>3. (\A e \in events : e.by # name) /\ (\A o \in owed : o.by # name)
  BY <1>2
<1>4. \A e \in events' : e.by \in CanaryNames <=> e.key \notin Theirs
  BY <1>1, <1>2
<1>5. \A o \in owed' : o.key \notin Theirs
  BY <1>1, <1>2
<1>6. \A e, f \in events' : e.by = f.by /\ e.by \in CanaryNames => e = f
  BY <1>1, <1>2, <1>3
<1>7. \A e \in events', o \in owed' : e.by # o.by
  BY <1>1, <1>2, <1>3
<1>8. \A o, p \in owed' : o.by = p.by => o = p
  BY <1>1, <1>2, <1>3
<1>9. \A n \in CanaryNames : Ahead(n)' =>
        (\A e \in events' : e.by # n) /\ (\A o \in owed' : o.by # n)
  BY <1>1, <1>2
<1>10. QED BY <1>4, <1>5, <1>6, <1>7, <1>8, <1>9 DEF EventsInv

(* A request that throws ends the run: what it had seen stays seen.        *)
LEMMA ThrowsIs ==
  ASSUME IInv, canary, run' = run, Throws, UNCHANGED <<created, removed, remaining>>,
         high' = high, polls' \in 0 .. MaxPolls, newest <= newest', newest \in Nat, newest' \in Nat,
         events \subseteq events', blame' = TRUE
  PROVE  RunnerOK' /\ PlaceInv' /\ SeenInv' /\ BlameInv'
<1>1. /\ phase' = "done" /\ report' = [NoReport EXCEPT !.outcome = "threw"]
      /\ UNCHANGED <<todo, step, passed, failed>>
  BY DEF Throws
<1>2. report' \in Reports
  BY <1>1 DEF NoReport, Reports
<1>3. RunnerOK'
  BY <1>1, <1>2 DEF IInv, TypeInv, RunnerOK
<1>4. PlaceInv'
  BY <1>1, SameRun DEF IInv, CanaryInv, PlaceInv
<1>5. SeenInv'
  <2>1. /\ "create" \in passed' => Seen("create")'
        /\ {"create", "update"} \subseteq passed' => Seen("update")'
        /\ CanaryNames \subseteq passed' => \E e \in events' : e.by = "delete"
        /\ run'.mode = "full" /\ "sync" \in passed' => \E e \in events' : e.by # "old"
    BY <1>1 DEF IInv, CanaryInv, SeenInv, Seen
  <2>2. QED BY <1>1, <2>1 DEF SeenInv
<1>6. BlameInv'
  BY DEF BlameInv
<1>7. QED BY <1>3, <1>4, <1>5, <1>6

(* Incremental sync ends the run, and passes it for something new.         *)
LEMMA SyncEndsIs ==
  ASSUME IInv, Syncing, run' = run, NEW ok \in BOOLEAN, SyncEnds(ok),
         UNCHANGED <<created, removed, remaining, high, record, events, owed, made, told>>,
         polls' \in 0 .. MaxPolls,
         ok /\ run.mode = "full" => \E e \in events : e.by # "old",
         blame' \in BOOLEAN, ~blame' => ~blame /\ ok
  PROVE  IInv'
<1>1. /\ phase' = "done" /\ todo' = <<>> /\ step' = step
      /\ report' = [NoReport EXCEPT !.outcome = "reported"]
      /\ passed' = IF ok THEN passed \cup {"sync"} ELSE passed
      /\ failed' = IF ok THEN failed ELSE failed \cup {"sync"}
  BY DEF SyncEnds, Scored
<1>2. canary /\ phase = "act" /\ Head(todo) = "sync"
  BY DEF Syncing
<1>3. report' \in Reports
  BY <1>1 DEF NoReport, Reports
<1>4. newest' = newest
  BY DEF newest
<1>5. run \in Runs /\ ServerOK
  BY DEF IInv, TypeInv, RunnerOK
<1>6. "sync" \notin passed \cup failed /\ passed \cap failed = {}
  <2>1. todo \in {Full4, Full3, Full2, Full1}
    BY <1>2 DEF IInv, CanaryInv, PlaceInv
  <2>2. Len(todo) >= Turn["sync"]
    <3>1. Len(todo) = 4 \/ Len(todo) = 3 \/ Len(todo) = 2 \/ Len(todo) = 1
      BY <2>1, PlacesAre
    <3>2. Turn["sync"] = 1
      BY PlacesAre
    <3> DEFINE left == Len(todo)
               turn == Turn["sync"]
    <3>3. (left = 4 \/ left = 3 \/ left = 2 \/ left = 1) /\ turn = 1
      BY <3>1, <3>2
    <3> HIDE DEF left, turn
    <3>4. left >= turn
      BY <3>3
    <3>5. QED BY <3>4 DEF left, turn
  <2>3. QED BY <1>2, <2>2 DEF IInv, TypeInv, RunnerOK, CanaryInv, PlaceInv
<1>7. RunnerOK'
  <2>1. todo' \in Seq(Names)
    BY <1>1, PlacesAre
  <2>2. passed' \cap failed' = {}
    BY <1>1, <1>6
  <2>3. QED BY <1>1, <1>3, <1>4, <2>1, <2>2 DEF IInv, TypeInv, RunnerOK
<1>8. ServerOK'
  BY <1>5, FeedStays DEF ServerOK
<1>9. RecordInv'
  BY SameRun DEF IInv, RecordInv
<1>10. PlaceInv'
  BY <1>1, <1>2, SameRun DEF IInv, CanaryInv, PlaceInv
<1>11. EventsInv'
  <2>1. \A n \in CanaryNames : ~Ahead(n)'
    BY <1>1 DEF Ahead
  <2>2. QED BY <1>2, <2>1 DEF IInv, CanaryInv, EventsInv
<1>12. SeenInv'
  <2>1. \A n \in CanaryNames : n \in passed' => n \in passed
    BY <1>1 DEF CanaryNames
  <2>2. /\ "create" \in passed' => Seen("create")'
        /\ {"create", "update"} \subseteq passed' => Seen("update")'
        /\ CanaryNames \subseteq passed' => \E e \in events' : e.by = "delete"
    BY <1>1, <1>2, <2>1 DEF IInv, CanaryInv, SeenInv, Seen, CanaryNames
  <2>3. run'.mode = "full" /\ "sync" \in passed' => \E e \in events' : e.by # "old"
    BY <1>1, <1>6
  <2>4. QED BY <1>1, <2>2, <2>3 DEF SeenInv
<1>13. BlameInv'
  BY <1>1, <1>2 DEF IInv, CanaryInv, BlameInv
<1>14. QED BY <1>2, <1>5, <1>7, <1>8, <1>9, <1>10, <1>11, <1>12, <1>13, CanaryStep

LEMMA SyncKeeps ==
  ASSUME IInv, SyncRefused \/ SyncFull \/ TimeIsUp
  PROVE  IInv'
<1>1. /\ Syncing /\ run' = run /\ UNCHANGED <<created, removed, remaining>>
      /\ UNCHANGED <<high, polls, record, events, owed, made, told>>
  BY DEF SyncRefused, SyncFull, TimeIsUp, Quiet, server, history
<1>2. /\ canary /\ phase = "act" /\ blame \in BOOLEAN /\ polls \in 0 .. MaxPolls
      /\ run \in Runs /\ ServerOK
  BY <1>1 DEF IInv, TypeInv, ServerOK, RunnerOK, Syncing
<1>3. CASE SyncRefused
  <2>1. SyncEnds(FALSE) /\ blame' = blame /\ high = -1
    BY <1>3 DEF SyncRefused, history
  <2>2. blame
    BY <1>2, <2>1 DEF IInv, CanaryInv, BlameInv
  <2>3. QED BY <1>1, <1>2, <2>1, <2>2, SyncEndsIs
<1>4. CASE TimeIsUp
  <2>1. SyncEnds(TRUE) /\ blame' = blame /\ run.mode = "observe"
    BY <1>4 DEF TimeIsUp, history
  <2>2. QED BY <1>1, <1>2, <2>1, SyncEndsIs
<1>5. CASE SyncFull
  <2> DEFINE found(answer) == answer = "read" /\ since(high) # {}
  <2>1. PICK answer \in {"read", "error", "lost"} :
          /\ Blames(~found(answer))
          /\ IF answer = "lost" THEN Throws ELSE SyncEnds(found(answer))
    BY <1>5 DEF SyncFull
  <2>2. high >= 0
    BY <1>5 DEF SyncFull
  <2> DEFINE ok == found(answer)
  <2>3. ok \in BOOLEAN /\ (ok => answer = "read" /\ since(high) # {})
    OBVIOUS
  <2>4. Blames(~ok) /\ (IF answer = "lost" THEN Throws ELSE SyncEnds(ok))
    BY <2>1
  <2> HIDE DEF ok, found
  <2>5. blame' \in BOOLEAN /\ (~blame' => ~blame /\ ok)
    BY <1>2, <2>3, <2>4 DEF Blames
  <2>6. ASSUME ok PROVE \E e \in events : e.by # "old"
    <3>1. PICK e \in events : e.seq > high
      BY <2>3, <2>6 DEF since
    <3>2. e.by = "old" => e.seq <= high
      BY <1>2, <2>2 DEF IInv, CanaryInv, SeenInv
    <3>3. e.seq \in Nat /\ high \in Int
      BY <1>2, NewestIs DEF IInv, TypeInv, RunnerOK
    <3>4. QED BY <3>1, <3>2, <3>3
  <2>7. CASE answer # "lost"
    BY <1>1, <1>2, <2>3, <2>4, <2>5, <2>6, <2>7, SyncEndsIs
  <2>8. CASE answer = "lost"
    <3>1. Throws
      BY <2>4, <2>8
    <3>2. blame' = TRUE
      BY <2>3, <2>5, <2>8
    <3>3. newest' = newest /\ newest \in Nat
      BY <1>1, <1>2, NewestIs DEF newest
    <3>4. RunnerOK' /\ PlaceInv' /\ SeenInv' /\ BlameInv'
      BY <1>1, <1>2, <3>1, <3>2, <3>3, ThrowsIs
    <3>5. EventsInv'
      <4>1. \A n \in CanaryNames : ~Ahead(n)'
        BY <3>1 DEF Throws, Ahead
      <4>2. QED BY <1>1, <1>2, <4>1 DEF IInv, CanaryInv, EventsInv
    <3>6. ServerOK'
      BY <1>1, <1>2, <2>5, FeedStays DEF ServerOK
    <3>7. RecordInv'
      BY <1>1, SameRun DEF IInv, RecordInv
    <3>8. QED BY <1>1, <1>2, <3>4, <3>5, <3>6, <3>7, CanaryStep
  <2>9. QED BY <2>7, <2>8
<1>6. QED BY <1>3, <1>4, <1>5

(* What a step leaves as it was when it touches neither feed nor record.   *)
LEMMA ServerStays ==
  ASSUME IInv, run' = run, UNCHANGED server, UNCHANGED <<made, told>>, blame' \in BOOLEAN
  PROVE  ServerOK' /\ RecordInv' /\ newest' = newest /\ newest \in Nat
<1>1. UNCHANGED <<record, events, owed>>
  BY DEF server
<1>2. ServerOK'
  BY <1>1, FeedStays DEF IInv, TypeInv, ServerOK
<1>3. RecordInv'
  BY <1>1, SameRun DEF IInv, RecordInv
<1>4. newest' = newest
  BY <1>1 DEF newest
<1>5. newest \in Nat
  BY NewestIs DEF IInv, TypeInv
<1>6. QED BY <1>2, <1>3, <1>4, <1>5

LEMMA ThrowsKeeps ==
  ASSUME IInv, canary, run' = run, Throws, UNCHANGED server, UNCHANGED <<made, told>>, Quiet,
         high' = high, polls' \in 0 .. MaxPolls, blame' = TRUE
  PROVE  IInv'
<1>1. UNCHANGED <<record, events, owed>> /\ UNCHANGED <<created, removed, remaining>>
  BY DEF server, Quiet
<1>2. ServerOK' /\ RecordInv' /\ newest' = newest /\ newest \in Nat
  BY ServerStays
<1>3. RunnerOK' /\ PlaceInv' /\ SeenInv' /\ BlameInv'
  BY <1>1, <1>2, ThrowsIs
<1>4. EventsInv'
  <2>1. \A n \in CanaryNames : ~Ahead(n)'
    BY DEF Throws, Ahead
  <2>2. QED BY <1>1, <2>1 DEF IInv, CanaryInv, EventsInv
<1>5. run \in Runs
  BY DEF IInv, TypeInv, RunnerOK
<1>6. QED BY <1>2, <1>3, <1>4, <1>5, CanaryStep

LEMMA PollKeeps ==
  ASSUME IInv, Poll
  PROVE  IInv'
<1>1. /\ Syncing /\ run.mode = "observe" /\ polls < MaxPolls /\ polls' = polls + 1
      /\ Quiet /\ run' = run /\ high' = high /\ UNCHANGED server /\ UNCHANGED <<made, told>>
  BY DEF Poll, Quiet
<1>2. PICK answer \in {"read", "error", "lost"} :
        /\ Blames(answer # "read")
        /\ CASE answer = "lost" -> Throws
             [] answer = "read" /\ since(high) # {} -> SyncEnds(TRUE)
             [] OTHER -> UNCHANGED <<phase, report, todo, step, passed, failed>>
  BY DEF Poll
<1>3. /\ canary /\ phase = "act" /\ blame \in BOOLEAN /\ run \in Runs /\ ServerOK
  BY <1>1 DEF IInv, TypeInv, ServerOK, RunnerOK, Syncing
<1>4. polls' \in 0 .. MaxPolls
  <2>1. polls \in 0 .. MaxPolls /\ MaxPolls \in Nat
    BY KeysAreApart DEF IInv, TypeInv, RunnerOK
  <2>2. QED BY <1>1, <2>1
<1>5. blame' \in BOOLEAN /\ (~blame' => ~blame /\ answer = "read")
  BY <1>2, <1>3 DEF Blames
<1>6. CASE answer = "lost"
  <2>1. Throws /\ blame' = TRUE
    BY <1>2, <1>5, <1>6
  <2>2. QED BY <1>1, <1>3, <1>4, <2>1, ThrowsKeeps
<1>7. CASE answer = "read" /\ since(high) # {}
  <2>1. SyncEnds(TRUE)
    BY <1>2, <1>7
  <2>2. UNCHANGED <<created, removed, remaining, high, record, events, owed, made, told>>
    BY <1>1 DEF Quiet, server
  <2>3. QED BY <1>1, <1>3, <1>4, <1>5, <2>1, <2>2, SyncEndsIs
<1>8. CASE answer # "lost" /\ ~(answer = "read" /\ since(high) # {})
  <2>1. UNCHANGED <<phase, report, todo, step, passed, failed>>
    BY <1>2, <1>8
  <2>2. UNCHANGED <<record, events, owed>> /\ UNCHANGED <<created, removed, remaining>>
    BY <1>1 DEF Quiet, server
  <2>3. ServerOK' /\ RecordInv' /\ newest' = newest
    BY <1>1, <1>5, ServerStays
  <2>4. RunnerOK'
    BY <1>1, <1>4, <2>1, <2>2, <2>3 DEF IInv, TypeInv, RunnerOK
  <2>5. PlaceInv'
    BY <1>1, <1>3, <2>1, <2>2, SameRun DEF IInv, CanaryInv, PlaceInv
  <2>6. EventsInv'
    <3>1. \A n \in CanaryNames : Ahead(n)' => Ahead(n)
      BY <2>1 DEF Ahead
    <3>2. QED BY <1>3, <2>2, <3>1 DEF IInv, CanaryInv, EventsInv
  <2>7. SeenInv'
    BY <1>1, <1>3, <2>1, <2>2 DEF IInv, CanaryInv, SeenInv, Seen
  <2>8. BlameInv'
    BY <1>1, <1>3, <1>5, <2>1, <2>2 DEF IInv, CanaryInv, BlameInv
  <2>9. QED BY <1>1, <1>3, <2>3, <2>4, <2>5, <2>6, <2>7, <2>8, CanaryStep
<1>9. QED BY <1>6, <1>7, <1>8

LEMMA DueIs ==
  /\ \A name \in CanaryNames \cup {"sync"} :
       /\ Len(Full3) >= Turn[name] <=> name # "create"
       /\ Len(Full2) >= Turn[name] <=> name \in {"delete", "sync"}
       /\ Len(Full1) >= Turn[name] <=> name = "sync"
       /\ Len(Full4) > Turn[name] <=> name # "create"
       /\ Len(Full3) > Turn[name] <=> name \in {"delete", "sync"}
       /\ Len(Full2) > Turn[name] <=> name = "sync"
       /\ Len(Full4) >= Turn[name]
  /\ Full4 # Full3 /\ Full4 # Full2 /\ Full4 # Full1 /\ Full3 # Full2 /\ Full3 # Full1
  /\ Full2 # Full1
<1>1. Full4 # Full3 /\ Full4 # Full2 /\ Full4 # Full1 /\ Full3 # Full2 /\ Full3 # Full1
      /\ Full2 # Full1
  BY PlacesAre
<1> DEFINE a == Len(Full4)
           b == Len(Full3)
           c == Len(Full2)
           d == Len(Full1)
<1>2. a = 4 /\ b = 3 /\ c = 2 /\ d = 1
  BY PlacesAre
<1>3. ASSUME NEW name \in CanaryNames \cup {"sync"}
      PROVE  /\ b >= Turn[name] <=> name # "create"
             /\ c >= Turn[name] <=> name \in {"delete", "sync"}
             /\ d >= Turn[name] <=> name = "sync"
             /\ a > Turn[name] <=> name # "create"
             /\ b > Turn[name] <=> name \in {"delete", "sync"}
             /\ c > Turn[name] <=> name = "sync"
             /\ a >= Turn[name]
  <2> HIDE DEF a, b, c, d
  <2>1. \/ name = "create" /\ Turn[name] = 4
        \/ name = "update" /\ Turn[name] = 3
        \/ name = "delete" /\ Turn[name] = 2
        \/ name = "sync" /\ Turn[name] = 1
    BY PlacesAre DEF CanaryNames
  <2>2. QED BY <1>2, <2>1
<1>4. QED BY <1>1, <1>3

(* Where the EntityEvent run is, and what it has at hand there.            *)
LEMMA CanaryAt ==
  ASSUME IInv, canary
  PROVE  /\ run \in Runs /\ ServerOK /\ blame \in BOOLEAN /\ step \in Steps
         /\ phase = "act" => /\ todo \in {Full4, Full3, Full2, Full1}
                             /\ Head(todo) = "create" => todo = Full4
                             /\ Head(todo) = "update" => todo = Full3
                             /\ Head(todo) = "delete" => todo = Full2
         /\ phase = "look" => todo \in {Full4, Full3, Full2} /\ Head(todo) \in CanaryNames
         /\ step.seq \in Nat /\ newest \in Nat /\ step.seq <= newest
         /\ passed \cap failed = {}
<1>1. /\ run \in Runs /\ ServerOK /\ blame \in BOOLEAN /\ step \in Steps
      /\ passed \cap failed = {}
  BY DEF IInv, TypeInv, RunnerOK, ServerOK
<1>2. /\ phase = "act" => todo \in {Full4, Full3, Full2, Full1}
      /\ phase = "look" => todo \in {Full4, Full3, Full2}
      /\ step.seq > 0 => \E e \in events : e.key = step.key /\ e.seq = step.seq
  BY DEF IInv, CanaryInv, PlaceInv
<1>3. step.seq \in Nat
  BY <1>1 DEF Steps
<1>4. newest \in Nat /\ \A e \in events : e.seq <= newest
  BY <1>1, NewestIs
<1>5. step.seq <= newest
  BY <1>2, <1>3, <1>4
<1>6. phase = "act" => /\ Head(todo) = "create" => todo = Full4
                       /\ Head(todo) = "update" => todo = Full3
                       /\ Head(todo) = "delete" => todo = Full2
  BY <1>2, PlacesAre
<1>7. phase = "look" => Head(todo) \in CanaryNames
  BY <1>2, PlacesAre DEF CanaryNames
<1>8. QED BY <1>1, <1>2, <1>3, <1>4, <1>5, <1>6, <1>7

LEMMA AppendIs ==
  ASSUME NEW N, NEW c \in Seq(N), NEW x \in N, NEW d \in Seq(N)
  PROVE  Len(c) = 3 /\ Len(d) = 4 /\ d[1] = c[1] /\ d[2] = c[2] /\ d[3] = c[3] /\ d[4] = x
           => Append(c, x) = d
<1>1. /\ Append(c, x) \in Seq(N) /\ Len(Append(c, x)) = Len(c) + 1
      /\ \A i \in 1 .. Len(c) : Append(c, x)[i] = c[i]
      /\ Append(c, x)[Len(c) + 1] = x
  BY AppendProperties
<1> DEFINE a == Append(c, x)
<1>2. /\ a \in Seq(N) /\ Len(a) = Len(c) + 1
      /\ \A i \in 1 .. Len(c) : a[i] = c[i]
      /\ a[Len(c) + 1] = x
  BY <1>1
<1> HIDE DEF a
<1>3. ASSUME Len(c) = 3, Len(d) = 4, d[1] = c[1], d[2] = c[2], d[3] = c[3], d[4] = x
      PROVE  a = d
  <2>1. \A i \in 1 .. 4 : a[i] = d[i]
    BY <1>2, <1>3
  <2>2. Len(a) = 4
    BY <1>2, <1>3
  <2>3. QED BY <1>2, <1>3, <2>1, <2>2, SeqEqual
<1>4. QED BY <1>3 DEF a

LEMMA BaselineKeeps ==
  ASSUME IInv, Baseline
  PROVE  IInv'
<1>1. /\ canary /\ phase = "checking" /\ Quiet /\ run' = run /\ polls' = polls
      /\ UNCHANGED server /\ UNCHANGED <<made, told>>
      /\ UNCHANGED <<created, removed, remaining>> /\ UNCHANGED <<record, events, owed>>
  BY DEF Baseline, Quiet, server
<1>2. PICK answer \in {"read", "error", "lost"} :
        /\ Blames(answer # "read")
        /\ \/ /\ answer = "lost" /\ Throws
              /\ UNCHANGED high
           \/ /\ answer # "lost"
              /\ high' = fetchBaseline(answer)
              /\ phase' = "act"
              /\ todo' = IF run.mode = "full" THEN Append(canaryScenarios, "sync")
                         ELSE <<"sync">>
              /\ UNCHANGED <<step, passed, failed, report>>
  BY DEF Baseline
<1>3. run \in Runs /\ ServerOK /\ blame \in BOOLEAN /\ polls \in 0 .. MaxPolls
  BY DEF IInv, TypeInv, RunnerOK, ServerOK
<1>4. blame' \in BOOLEAN /\ (~blame' => ~blame /\ answer = "read")
  BY <1>2, <1>3 DEF Blames
<1>5. ServerOK' /\ RecordInv' /\ newest' = newest /\ newest \in Nat
  BY <1>1, <1>4, ServerStays
<1>6. CASE answer = "lost"
  <2>1. Throws /\ high' = high /\ blame' = TRUE
    BY <1>2, <1>4, <1>6
  <2>2. QED BY <1>1, <1>3, <2>1, ThrowsKeeps
<1>7. CASE answer # "lost"
  <2>1. /\ high' = fetchBaseline(answer) /\ phase' = "act"
        /\ todo' = IF run.mode = "full" THEN Append(canaryScenarios, "sync") ELSE <<"sync">>
        /\ UNCHANGED <<step, passed, failed, report>>
    BY <1>2, <1>7
  <2>2. todo' \in {Full4, Full1}
    <3>1. Append(canaryScenarios, "sync") = Full4
      <4> DEFINE N == {"create", "update", "delete", "sync"}
      <4>1. /\ canaryScenarios \in Seq(N) /\ Len(canaryScenarios) = 3
            /\ canaryScenarios[1] = "create" /\ canaryScenarios[2] = "update"
            /\ canaryScenarios[3] = "delete"
        BY DEF canaryScenarios
      <4>2. /\ Full4 \in Seq(N) /\ Len(Full4) = 4
            /\ Full4[1] = "create" /\ Full4[2] = "update" /\ Full4[3] = "delete"
            /\ Full4[4] = "sync"
        BY DEF Full4
      <4>3. "sync" \in N
        OBVIOUS
      <4> HIDE DEF N
      <4>4. QED BY <4>1, <4>2, <4>3, AppendIs
    <3>2. QED BY <2>1, <3>1 DEF Full1
  <2>3. high' \in {-1, newest} /\ (answer = "read" => high' = newest)
    BY <2>1 DEF fetchBaseline
  <2>4. passed = {} /\ failed = {} /\ created = <<>> /\ remaining = <<>>
    BY <1>1 DEF IInv, CanaryInv, PlaceInv
  <2>5. RunnerOK'
    <3>1. high' \in Int /\ -1 <= high' /\ high' <= newest'
      BY <1>5, <2>3
    <3>2. todo' \in Seq(Names)
      BY <2>2, PlacesAre
    <3>3. QED BY <1>1, <2>1, <3>1, <3>2 DEF IInv, TypeInv, RunnerOK
  <2>6. PlaceInv'
    <3>1. todo' # Full3 /\ todo' # Full2
      BY <2>2, DueIs
    <3>2. step'.seq > 0 => \E e \in events' : e.key = step'.key /\ e.seq = step'.seq
      BY <1>1, <2>1 DEF IInv, CanaryInv, PlaceInv
    <3>3. QED BY <1>1, <2>1, <2>2, <2>4, <3>1, <3>2 DEF PlaceInv
  <2>7. EventsInv'
    <3>1. \A n \in CanaryNames : Ahead(n)
      BY <1>1 DEF Ahead
    <3>2. QED BY <1>1, <3>1 DEF IInv, CanaryInv, EventsInv
  <2>8. SeenInv'
    <3>1. high' >= 0 => \A e \in events' : e.seq <= high'
      <4>1. \A e \in events : e.seq <= newest
        BY <1>3, NewestIs
      <4>2. QED BY <1>1, <1>5, <2>3, <4>1
    <3>2. passed' = {}
      BY <2>1, <2>4
    <3>3. QED BY <3>1, <3>2 DEF SeenInv, CanaryNames
  <2>9. BlameInv'
    <3>1. ~blame' => high' >= 0
      BY <1>4, <1>5, <2>3
    <3>2. QED BY <2>1, <2>4, <3>1 DEF BlameInv
  <2>10. QED BY <1>1, <1>3, <1>5, <2>5, <2>6, <2>7, <2>8, <2>9, CanaryStep
<1>8. QED BY <1>6, <1>7

LEMMA GoneKeeps ==
  ASSUME IInv, Gone
  PROVE  IInv'
<1>1. /\ canary /\ phase = "gone" /\ Quiet /\ run' = run /\ polls' = polls /\ high' = high
      /\ UNCHANGED server /\ UNCHANGED <<made, told>>
      /\ UNCHANGED <<created, removed, remaining>> /\ UNCHANGED <<record, events, owed>>
  BY DEF Gone, Quiet, server
<1>2. PICK answer \in {"read", "error", "lost"} :
        /\ Blames(answer # "read")
        /\ \/ answer = "lost" /\ Throws
           \/ /\ answer # "lost"
              /\ Scored("delete", step.good /\ answer = "read" /\ record[step.key] = "absent")
              /\ phase' = "act" /\ todo' = Tail(todo)
              /\ UNCHANGED <<step, report>>
  BY DEF Gone
<1>3. run \in Runs /\ ServerOK /\ blame \in BOOLEAN /\ step \in Steps /\ polls \in 0 .. MaxPolls
  BY DEF IInv, TypeInv, RunnerOK, ServerOK
<1>4. blame' \in BOOLEAN /\ (~blame' => ~blame /\ answer = "read")
  BY <1>2, <1>3 DEF Blames
<1>5. ServerOK' /\ RecordInv' /\ newest' = newest /\ newest \in Nat
  BY <1>1, <1>4, ServerStays
<1>6. CASE answer = "lost"
  <2>1. Throws /\ blame' = TRUE
    BY <1>2, <1>4, <1>6
  <2>2. QED BY <1>1, <1>3, <2>1, ThrowsKeeps
<1>7. CASE answer # "lost"
  <2> DEFINE ok == step.good /\ answer = "read" /\ record[step.key] = "absent"
  <2>1. Scored("delete", ok) /\ phase' = "act" /\ todo' = Tail(todo) /\ UNCHANGED <<step, report>>
    BY <1>2, <1>7
  <2>2. todo = Full2 /\ todo' = Full1 /\ todo' \in Seq(Names)
    <3>1. todo = Full2
      BY <1>1 DEF IInv, CanaryInv, PlaceInv
    <3>2. QED BY <2>1, <3>1, PlacesAre
  <2>3. /\ passed' = IF ok THEN passed \cup {"delete"} ELSE passed
        /\ failed' = IF ok THEN failed ELSE failed \cup {"delete"}
    BY <2>1 DEF Scored
  <2>4. "delete" \notin passed \cup failed /\ "sync" \notin passed \cup failed
    BY <1>1, <2>2, DueIs DEF IInv, CanaryInv, PlaceInv, CanaryNames
  <2>5. RunnerOK'
    <3>1. passed' \cap failed' = {}
      BY <2>3, <2>4 DEF IInv, TypeInv, RunnerOK
    <3>2. QED BY <1>1, <1>5, <2>1, <2>2, <3>1 DEF IInv, TypeInv, RunnerOK
  <2>6. PlaceInv'
    <3>1. step'.seq > 0 => \E e \in events' : e.key = step'.key /\ e.seq = step'.seq
      BY <1>1, <2>1 DEF IInv, CanaryInv, PlaceInv
    <3>2. created = <<>> /\ remaining = <<>>
      BY <1>1 DEF IInv, CanaryInv, PlaceInv
    <3>3. \A name \in CanaryNames \cup {"sync"} :
            Len(todo') >= Turn[name] => name \notin passed' \cup failed'
      BY <2>2, <2>3, <2>4, DueIs
    <3>4. todo' # Full3 /\ todo' # Full2
      BY <2>2, DueIs
    <3>5. QED BY <1>1, <2>1, <2>2, <3>1, <3>2, <3>3, <3>4 DEF PlaceInv
  <2>7. EventsInv'
    <3>1. \A n \in CanaryNames : ~Ahead(n)'
      <4>1. \A n \in CanaryNames : ~(Len(todo') >= Turn[n])
        BY <2>2, DueIs DEF CanaryNames
      <4>2. QED BY <2>1, <4>1 DEF Ahead
    <3>2. QED BY <1>1, <3>1 DEF IInv, CanaryInv, EventsInv
  <2>8. SeenInv'
    <3>1. /\ "create" \in passed => Seen("create")
          /\ {"create", "update"} \subseteq passed => Seen("update")
          /\ {"create", "update"} \subseteq passed /\ step.good
               => \E e \in events : e.by = "delete"
          /\ high >= 0 => \A e \in events : e.by = "old" => e.seq <= high
          /\ run.mode = "full" /\ "sync" \in passed => \E e \in events : e.by # "old"
      BY <1>1 DEF IInv, CanaryInv, SeenInv
    <3>2. Seen("create")' <=> Seen("create")
      BY <1>1, <2>1 DEF Seen
    <3>3. Seen("update")' <=> Seen("update")
      BY <1>1, <2>1 DEF Seen
    <3>4. /\ "create" \in passed' => "create" \in passed
          /\ "update" \in passed' => "update" \in passed
          /\ "sync" \in passed' => "sync" \in passed
          /\ "delete" \in passed' => step.good
      BY <2>3, <2>4
    <3>5. CanaryNames \subseteq passed' => \E e \in events' : e.by = "delete"
      BY <1>1, <3>1, <3>4 DEF CanaryNames
    <3>6. QED BY <1>1, <2>1, <3>1, <3>2, <3>3, <3>4, <3>5 DEF SeenInv
  <2>9. BlameInv'
    <3>1. ASSUME ~blame' PROVE failed' = {} /\ high' >= 0
      <4>1. ~blame /\ answer = "read"
        BY <1>4, <3>1
      <4>2. failed = {} /\ high >= 0 /\ step.good /\ record[step.key] = "absent"
        BY <1>1, <2>2, <4>1 DEF IInv, CanaryInv, BlameInv
      <4>3. QED BY <1>1, <2>3, <4>1, <4>2
    <3>2. QED BY <2>1, <3>1 DEF BlameInv
  <2>10. QED BY <1>1, <1>3, <1>5, <2>5, <2>6, <2>7, <2>8, <2>9, CanaryStep
<1>8. QED BY <1>6, <1>7

(* Reading the feed for the newest event of the record.                    *)
LEMMA LookKeeps ==
  ASSUME IInv, Look
  PROVE  IInv'
<1> DEFINE name == Head(todo)
           seqOf(answer) == IF answer = "read" THEN latestOf(step.key) ELSE 0
<1>1. /\ canary /\ phase = "look" /\ Quiet /\ run' = run /\ polls' = polls /\ high' = high
      /\ UNCHANGED server /\ UNCHANGED <<made, told>>
      /\ UNCHANGED <<created, removed, remaining>> /\ UNCHANGED <<record, events, owed>>
  BY DEF Look, Quiet, server
<1>2. PICK answer \in {"read", "error", "lost"} :
        LET good == step.good /\ announced(seqOf(answer))
        IN  /\ Blames(answer # "read" \/ ~\E e \in events : e.by = name)
            /\ \/ answer = "lost" /\ Throws
               \/ /\ answer # "lost"
                  /\ step' = [step EXCEPT !.good = good,
                                          !.seq = IF seqOf(answer) > 0 THEN seqOf(answer) ELSE @]
                  /\ IF name = "delete"
                     THEN phase' = "gone" /\ UNCHANGED <<todo, passed, failed>>
                     ELSE phase' = "act" /\ todo' = Tail(todo) /\ Scored(name, good)
                  /\ UNCHANGED report
  BY DEF Look
<1> DEFINE seq == seqOf(answer)
           good == step.good /\ seq > step.seq
<1>3. /\ run \in Runs /\ ServerOK /\ blame \in BOOLEAN /\ step \in Steps
      /\ todo \in {Full4, Full3, Full2} /\ name \in CanaryNames
      /\ step.seq \in Nat /\ newest \in Nat /\ passed \cap failed = {}
      /\ polls \in 0 .. MaxPolls
  <2>1. polls \in 0 .. MaxPolls
    BY DEF IInv, TypeInv, RunnerOK
  <2>2. QED BY <1>1, <2>1, CanaryAt
<1>4. /\ blame' \in BOOLEAN
      /\ ~blame' => ~blame /\ answer = "read" /\ \E e \in events : e.by = name
  BY <1>2, <1>3 DEF Blames
<1>5. ServerOK' /\ RecordInv' /\ newest' = newest
  BY <1>1, <1>4, ServerStays
<1>6. CASE answer = "lost"
  <2>1. Throws /\ blame' = TRUE
    BY <1>2, <1>4, <1>6
  <2>2. QED BY <1>1, <1>3, <2>1, ThrowsKeeps
<1>7. CASE answer # "lost"
  <2>1. /\ step' = [step EXCEPT !.good = good, !.seq = IF seq > 0 THEN seq ELSE @]
        /\ IF name = "delete"
           THEN phase' = "gone" /\ UNCHANGED <<todo, passed, failed>>
           ELSE phase' = "act" /\ todo' = Tail(todo) /\ Scored(name, good)
        /\ UNCHANGED report
    BY <1>2, <1>7 DEF announced
(* A sequence that was read is an event's of the record.                   *)
  <2>2. /\ seq \in Nat
        /\ seq > 0 => \E e \in events : e.key = step.key /\ e.seq = seq
        /\ answer = "read" => \A e \in events : e.key = step.key => e.seq <= seq
    BY <1>3, LatestIs
  <2> HIDE DEF seqOf, seq
  <2>3. /\ step' \in Steps /\ step'.key = step.key /\ step'.good = good
        /\ step'.seq = (IF seq > 0 THEN seq ELSE step.seq)
    BY <1>3, <2>1, <2>2 DEF Steps
  <2>4. step.seq <= step'.seq
    <3>1. CASE seq > 0
      <4>1. answer = "read"
        BY <3>1 DEF seq, seqOf
      <4>2. step.seq > 0 => \E e \in events : e.key = step.key /\ e.seq = step.seq
        BY <1>1 DEF IInv, CanaryInv, PlaceInv
      <4>3. step.seq <= seq
        BY <1>3, <2>2, <4>1, <4>2
      <4>4. QED BY <2>3, <3>1, <4>3
    <3>2. CASE ~(seq > 0)
      BY <1>3, <2>3, <3>2
    <3>3. QED BY <3>1, <3>2
  <2>5. step'.seq > 0 => \E e \in events : e.key = step.key /\ e.seq = step'.seq
    BY <1>1, <2>2, <2>3 DEF IInv, CanaryInv, PlaceInv
  <2>6. /\ step.key \in Keys \ Theirs
        /\ created = <<>> /\ remaining = <<>>
        /\ \A n \in CanaryNames \cup {"sync"} :
             Len(todo) >= Turn[n] => n \notin passed \cup failed
    BY <1>1 DEF IInv, CanaryInv, PlaceInv
  <2>7. \/ todo = Full4 /\ name = "create"
        \/ todo = Full3 /\ name = "update"
        \/ todo = Full2 /\ name = "delete"
    BY <1>3, PlacesAre
  <2>8. \/ /\ name = "delete" /\ phase' = "gone" /\ todo' = todo /\ passed' = passed
           /\ failed' = failed
        \/ /\ name # "delete" /\ phase' = "act" /\ todo' = Tail(todo)
           /\ passed' = (IF good THEN passed \cup {name} ELSE passed)
           /\ failed' = (IF good THEN failed ELSE failed \cup {name})
    <3> HIDE DEF good
    <3>1. QED BY <2>1 DEF Scored
  <2>9. /\ name = "create" => todo' = Full3
        /\ name = "update" => todo' = Full2
        /\ name = "delete" => todo' = Full2
        /\ todo' \in Seq(Names)
    BY <2>7, <2>8, PlacesAre
  <2>10. name \notin passed \cup failed
    BY <2>6, <2>7, DueIs DEF CanaryNames
  <2>11. good \in BOOLEAN
    BY <1>3 DEF Steps
  <2>12. RunnerOK'
    <3>1. passed' \cap failed' = {}
      BY <1>3, <2>8, <2>10, <2>11
    <3>2. report' = report
      BY <2>1
    <3>3. phase' \in {"act", "gone"}
      BY <2>8
    <3>4. QED BY <1>1, <1>5, <2>3, <2>9, <3>1, <3>2, <3>3 DEF IInv, TypeInv, RunnerOK
  <2>13. PlaceInv'
    <3>1. ASSUME NEW n \in CanaryNames \cup {"sync"}, Len(todo') >= Turn[n]
          PROVE  n \notin passed' \cup failed'
      <4>1. Len(todo) >= Turn[n] /\ (name # "delete" => n # name)
        BY <2>7, <2>9, <3>1, DueIs
      <4>2. n \notin passed \cup failed
        BY <2>6, <4>1
      <4>3. QED BY <2>8, <2>11, <4>1, <4>2
    <3>2. phase' = "act" => todo' \in {Full3, Full2}
      BY <2>7, <2>8, <2>9
    <3>3. phase' = "gone" => todo' = Full2
      BY <2>8, <2>9
    <3>4. phase' \in {"act", "gone"}
      BY <2>8
    <3>5. step'.key \in Keys \ Theirs
      BY <2>3, <2>6
    <3>6. step'.seq > 0 => \E e \in events' : e.key = step'.key /\ e.seq = step'.seq
      BY <1>1, <2>3, <2>5
    <3>7. QED BY <1>1, <2>6, <3>1, <3>2, <3>3, <3>4, <3>5, <3>6 DEF PlaceInv
  <2>14. EventsInv'
    <3>1. ASSUME NEW n \in CanaryNames, Ahead(n)' PROVE Ahead(n)
      <4>1. CASE name = "delete"
        <5>1. todo' = todo /\ phase' = "gone"
          BY <2>8, <4>1
        <5>2. QED BY <1>1, <3>1, <5>1 DEF Ahead
      <4>2. CASE name # "delete"
        <5>1. Len(todo') >= Turn[n]
          BY <2>8, <3>1, <4>2 DEF Ahead
        <5>2. Len(todo) > Turn[n]
          BY <2>7, <2>9, <4>2, <5>1, DueIs
        <5>3. QED BY <1>1, <5>2 DEF Ahead
      <4>3. QED BY <4>1, <4>2
    <3>2. QED BY <1>1, <3>1 DEF IInv, CanaryInv, EventsInv
(* What makes the scenario good is its own event.                          *)
  <2>15. ASSUME good, name = "create" \/ (name = "update" /\ "create" \in passed)
                                      \/ (name = "delete" /\ {"create", "update"} \subseteq passed)
         PROVE  \E e \in events : e.by = name /\ e.seq <= step'.seq
    <3>1. PICK e \in events : e.key = step.key /\ e.seq = seq
      BY <1>3, <2>2, <2>15
    <3>2. e.seq = step'.seq /\ e.seq > step.seq /\ e.seq \in Nat
      BY <1>3, <2>2, <2>3, <2>15, <3>1
    <3>3. e.by \in CanaryNames
      BY <1>1, <2>6, <3>1 DEF IInv, CanaryInv, EventsInv
    <3>4. \A n \in CanaryNames : Ahead(n) => e.by # n
      BY <1>1 DEF IInv, CanaryInv, EventsInv
    <3>5. /\ "create" \in passed => e.by # "create"
          /\ {"create", "update"} \subseteq passed => e.by # "update"
      <4>1. /\ "create" \in passed => Seen("create")
            /\ {"create", "update"} \subseteq passed => Seen("update")
        BY <1>1 DEF IInv, CanaryInv, SeenInv
      <4>2. \A f \in events : f.by = e.by => f = e
        BY <1>1, <3>3 DEF IInv, CanaryInv, EventsInv
      <4>3. \A n : Seen(n) => e.by # n
        BY <1>3, <3>2, <4>2 DEF Seen
      <4>4. QED BY <4>1, <4>3
    <3>6. /\ name = "create" => Ahead("update") /\ Ahead("delete")
          /\ name = "update" => Ahead("delete")
      BY <1>1, <2>7, DueIs DEF Ahead, CanaryNames
    <3>7. e.by = name
      BY <2>15, <3>3, <3>4, <3>5, <3>6 DEF CanaryNames
    <3>8. step'.seq \in Nat
      BY <2>3 DEF Steps
    <3>9. QED BY <3>2, <3>7, <3>8
  <2>16. \A n : Seen(n) => Seen(n)'
    <3>1. \A e \in events : e.seq \in Nat
      BY <1>3, NewestIs
    <3>2. step'.seq \in Nat
      BY <2>3 DEF Steps
    <3>3. QED BY <1>1, <1>3, <2>4, <3>1, <3>2 DEF Seen
  <2>17. SeenInv'
    <3>1. /\ "create" \in passed => Seen("create")
          /\ {"create", "update"} \subseteq passed => Seen("update")
          /\ CanaryNames \subseteq passed => \E e \in events : e.by = "delete"
          /\ high >= 0 => \A e \in events : e.by = "old" => e.seq <= high
          /\ run.mode = "full" /\ "sync" \in passed => \E e \in events : e.by # "old"
      BY <1>1 DEF IInv, CanaryInv, SeenInv
    <3>2. \A n : n # name => (n \in passed' <=> n \in passed)
      BY <2>8, <2>11
    <3>3. name \in passed' => good /\ name # "delete"
      BY <2>8, <2>10, <2>11
    <3>4. "create" \in passed' => Seen("create")'
      <4>1. CASE name = "create"
        BY <1>1, <2>15, <3>3, <4>1 DEF Seen
      <4>2. CASE name # "create"
        BY <2>16, <3>1, <3>2, <4>2
      <4>3. QED BY <4>1, <4>2
    <3>5. {"create", "update"} \subseteq passed' => Seen("update")'
      <4>1. CASE name = "create"
        <5>1. "update" \notin passed
          BY <2>6, <2>7, <4>1, DueIs DEF CanaryNames
        <5>2. QED BY <3>2, <4>1, <5>1
      <4>2. CASE name = "update"
        BY <1>1, <2>15, <3>2, <3>3, <4>2 DEF Seen
      <4>3. CASE name = "delete"
        BY <2>16, <3>1, <3>2, <4>3
      <4>4. QED BY <2>7, <4>1, <4>2, <4>3
    <3>6. CanaryNames \subseteq passed' => \E e \in events' : e.by = "delete"
      <4>1. "delete" \notin passed'
        BY <2>6, <2>7, <3>2, <3>3, DueIs DEF CanaryNames
      <4>2. QED BY <4>1 DEF CanaryNames
    <3>7. {"create", "update"} \subseteq passed' /\ phase' = "gone" /\ step'.good
            => \E e \in events' : e.by = "delete"
      <4>1. phase' = "gone" => name = "delete"
        BY <2>8
      <4>2. name = "delete" /\ step'.good /\ {"create", "update"} \subseteq passed'
              => \E e \in events : e.by = "delete"
        BY <2>3, <2>15, <3>2
      <4>3. QED BY <1>1, <4>1, <4>2
    <3>8. run'.mode = "full" /\ "sync" \in passed' => \E e \in events' : e.by # "old"
      <4>1. name # "sync"
        BY <2>7
      <4>2. QED BY <1>1, <3>1, <3>2, <4>1
    <3>9. QED BY <1>1, <3>1, <3>4, <3>5, <3>6, <3>7, <3>8 DEF SeenInv
  <2>18. BlameInv'
    <3>1. SUFFICES ASSUME ~blame'
                   PROVE  /\ failed' = {} /\ high' >= 0
                          /\ todo' = Full2 /\ phase' = "gone" => record'[step'.key] = "absent"
                          /\ phase' = "gone" => step'.good
      <4>1. phase' # "look"
        BY <2>8
      <4>2. QED BY <3>1, <4>1 DEF BlameInv
    <3>2. ~blame /\ answer = "read"
      BY <1>4, <3>1
    <3>3. PICK e \in events : e.by = name
      BY <1>4, <3>1
    <3>4. /\ failed = {} /\ high >= 0 /\ step.good
          /\ e.key = step.key /\ e.seq > step.seq
          /\ todo = Full2 => record[step.key] = "absent"
      BY <1>1, <3>2, <3>3 DEF IInv, CanaryInv, BlameInv
    <3>5. e.seq <= seq /\ e.seq \in Nat
      BY <1>3, <2>2, <3>2, <3>4, NewestIs
    <3>6. good
      BY <1>3, <2>2, <3>4, <3>5
    <3>7. failed' = {}
      BY <2>8, <3>4, <3>6
    <3>8. phase' = "gone" => todo = Full2
      BY <2>7, <2>8
    <3>9. QED BY <1>1, <2>3, <3>4, <3>6, <3>7, <3>8
  <2>19. QED BY <1>1, <1>3, <1>5, <2>12, <2>13, <2>14, <2>17, <2>18, CanaryStep
<1>8. QED BY <1>6, <1>7

(* The three writes of the canary: each announces its change, or owes it,  *)
(* or never says.                                                          *)
LEMMA CanaryCreateKeeps ==
  ASSUME IInv, CanaryCreate
  PROVE  IInv'
<1> DEFINE k == newKey
           keyOf(fate, form) == IF succeeds(fate) THEN createdKey(k, form) ELSE None
<1>1. /\ canary /\ phase = "act" /\ Head(todo) = "create" /\ keysLeft
      /\ Quiet /\ run' = run /\ high' = high /\ polls' = polls
      /\ UNCHANGED <<created, removed, remaining>>
  BY DEF CanaryCreate, Quiet
<1>2. PICK fate \in Fates, form \in Forms \cup {"keyless"}, timing \in Timings :
        /\ Performs(fate, {k}, "made")
        /\ Changed(k, "create", fate, timing)
        /\ made' = made \cup {x \in {k} : performs(fate)}
        /\ told' = told \cup (made' \cap {keyOf(fate, form)})
        /\ Blames(fate # "done" \/ keyOf(fate, form) # k)
        /\ \/ isLost(fate) /\ Throws
           \/ /\ ~isLost(fate) /\ keyOf(fate, form) = None
              /\ Scored("create", FALSE)
              /\ todo' = <<"sync">>
              /\ UNCHANGED <<phase, step, report>>
           \/ /\ ~isLost(fate) /\ keyOf(fate, form) # None
              /\ phase' = "look"
              /\ step' = [key |-> keyOf(fate, form), good |-> TRUE, seq |-> 0]
              /\ UNCHANGED <<todo, passed, failed, report>>
  BY DEF CanaryCreate
<1> DEFINE key == keyOf(fate, form)
<1>3. /\ run \in Runs /\ ServerOK /\ blame \in BOOLEAN /\ step \in Steps /\ todo = Full4
      /\ newest \in Nat /\ passed \cap failed = {} /\ polls \in 0 .. MaxPolls
  <2>1. polls \in 0 .. MaxPolls
    BY DEF IInv, TypeInv, RunnerOK
  <2>2. QED BY <1>1, <2>1, CanaryAt
<1>4. /\ k \in Keys \ Theirs /\ k # None
      /\ key # None => key \in Keys \ Theirs
  <2>1. k \in Fresh
    BY <1>1, <1>3, NewKeyIs
  <2>2. key \in {None, k, Missing}
    BY DEF createdKey
  <2> HIDE DEF k, keyOf
  <2>3. QED BY <2>1, <2>2, KeysAre
<1> HIDE DEF k, keyOf
<1>5. /\ blame' \in BOOLEAN
      /\ ~blame' => ~blame /\ fate = "done" /\ key = k
  BY <1>2, <1>3 DEF Blames
<1>6. /\ RecordInv' /\ record' \in [Keys -> RecordStates]
  <2>1. Performs(fate, {k}, "made") /\ "made" \in RecordStates
    BY <1>2 DEF RecordStates
  <2>2. QED BY <1>1, <1>4, <2>1, TheirsStay
<1>7. /\ events' \in SUBSET Events /\ EventsBounded' /\ owed' \in SUBSET Owed
      /\ newest <= newest' /\ newest' \in Nat
      /\ events \subseteq events' /\ owed \subseteq owed'
      /\ \A e \in events' \ events : e.by = "create" /\ e.key = k /\ e.seq = newest + 1
      /\ \A o \in owed' \ owed : o.by = "create" /\ o.key = k
  <2>1. Changed(k, "create", fate, timing) /\ "create" \in CanaryNames
    BY <1>2 DEF CanaryNames
  <2>2. QED BY <1>3, <1>4, <2>1, ChangedIs
<1>8. ServerOK'
  <2>1. made' \in SUBSET Keys
    BY <1>2, <1>3, <1>4 DEF ServerOK
  <2>2. told' \in SUBSET Keys
    BY <1>2, <1>3, <2>1 DEF ServerOK
  <2>3. QED BY <1>5, <1>6, <1>7, <2>1, <2>2 DEF ServerOK
<1>9. /\ Ahead("create") /\ "create" \in CanaryNames
      /\ \A n \in CanaryNames : Ahead(n)
      /\ \A e \in events : e.by # "create"
      /\ \A o \in owed : o.by # "create"
  <2>1. \A n \in CanaryNames : Ahead(n)
    BY <1>1, <1>3, DueIs DEF Ahead
  <2>2. "create" \in CanaryNames
    BY DEF CanaryNames
  <2>3. QED BY <1>1, <2>1, <2>2 DEF IInv, CanaryInv, EventsInv
<1>10. ASSUME \A n \in CanaryNames : Ahead(n)' => n # "create" PROVE EventsInv'
  <2>1. Changed(k, "create", fate, timing)
    BY <1>2
  <2>2. QED BY <1>1, <1>4, <1>9, <1>10, <2>1, ChangedKeepsEvents
<1>11. /\ \A n \in CanaryNames \cup {"sync"} : n \notin passed \cup failed
       /\ created = <<>> /\ remaining = <<>>
       /\ step.seq > 0 => \E e \in events : e.key = step.key /\ e.seq = step.seq
  BY <1>1, <1>3, DueIs DEF IInv, CanaryInv, PlaceInv
<1>12. /\ high >= 0 => \A e \in events' : e.by = "old" => e.seq <= high
       /\ run.mode = "full" /\ "sync" \in passed => \E e \in events' : e.by # "old"
  <2>1. high >= 0 => \A e \in events : e.by = "old" => e.seq <= high
    BY <1>1 DEF IInv, CanaryInv, SeenInv
  <2>2. QED BY <1>7, <1>11, <2>1
<1>13. CASE isLost(fate) /\ Throws
  <2>1. blame' = TRUE
    <3>1. fate # "done"
      BY <1>13 DEF isLost
    <3>2. QED BY <1>5, <3>1
  <2>2. RunnerOK' /\ PlaceInv' /\ SeenInv' /\ BlameInv'
    BY <1>1, <1>3, <1>7, <1>13, <2>1, ThrowsIs
  <2>3. EventsInv'
    <3>1. \A n \in CanaryNames : ~Ahead(n)'
      BY <1>13 DEF Throws, Ahead
    <3>2. QED BY <1>10, <3>1
  <2>4. QED BY <1>1, <1>3, <1>6, <1>8, <2>2, <2>3, CanaryStep
<1>14. CASE /\ ~isLost(fate) /\ key = None
            /\ Scored("create", FALSE)
            /\ todo' = <<"sync">>
            /\ UNCHANGED <<phase, step, report>>
  <2>1. /\ todo' = Full1 /\ phase' = "act" /\ step' = step /\ report' = report
        /\ passed' = passed /\ failed' = failed \cup {"create"} /\ todo' \in Seq(Names)
    BY <1>1, <1>14, PlacesAre DEF Full1, Scored
  <2>2. blame'
    BY <1>4, <1>5, <1>14
  <2>3. RunnerOK'
    <3>1. passed' \cap failed' = {}
      BY <1>3, <1>9, <1>11, <2>1
    <3>2. high' \in Int /\ -1 <= high' /\ high' <= newest'
      BY <1>1, <1>3, <1>7 DEF IInv, TypeInv, RunnerOK
    <3>3. QED BY <1>1, <2>1, <3>1, <3>2 DEF IInv, TypeInv, RunnerOK
  <2>4. PlaceInv'
    <3>1. \A n \in CanaryNames \cup {"sync"} :
            Len(todo') >= Turn[n] => n \notin passed' \cup failed'
      BY <1>11, <2>1, DueIs
    <3>2. todo' # Full3 /\ todo' # Full2
      BY <2>1, DueIs
    <3>3. QED BY <1>1, <1>7, <1>11, <2>1, <3>1, <3>2 DEF PlaceInv
  <2>5. EventsInv'
    <3>1. \A n \in CanaryNames : ~(Len(todo') >= Turn[n])
      BY <2>1, DueIs DEF CanaryNames
    <3>2. \A n \in CanaryNames : ~Ahead(n)'
      BY <2>1, <3>1 DEF Ahead
    <3>3. QED BY <1>10, <3>2
  <2>6. SeenInv'
    <3>1. \A n \in CanaryNames \cup {"sync"} : n \notin passed'
      BY <1>11, <2>1
    <3>2. QED BY <1>1, <1>12, <3>1 DEF SeenInv, CanaryNames
  <2>7. BlameInv'
    BY <2>2 DEF BlameInv
  <2>8. QED BY <1>1, <1>3, <1>6, <1>8, <2>3, <2>4, <2>5, <2>6, <2>7, CanaryStep
<1>15. CASE /\ ~isLost(fate) /\ key # None
            /\ phase' = "look"
            /\ step' = [key |-> key, good |-> TRUE, seq |-> 0]
            /\ UNCHANGED <<todo, passed, failed, report>>
  <2>1. /\ step' \in Steps /\ step'.key = key /\ step'.good = TRUE /\ step'.seq = 0
        /\ key \in Keys \ Theirs
    BY <1>4, <1>15 DEF Steps
  <2>2. RunnerOK'
    <3>1. high' \in Int /\ -1 <= high' /\ high' <= newest'
      BY <1>1, <1>3, <1>7 DEF IInv, TypeInv, RunnerOK
    <3>2. QED BY <1>1, <1>15, <2>1, <3>1 DEF IInv, TypeInv, RunnerOK
  <2>3. PlaceInv'
    BY <1>1, <1>3, <1>11, <1>15, <2>1 DEF PlaceInv
  <2>4. EventsInv'
    <3>1. ASSUME NEW n \in CanaryNames, Ahead(n)' PROVE n # "create"
      <4>1. Len(todo) > Turn[n]
        BY <1>15, <3>1 DEF Ahead
      <4>2. QED BY <1>3, <4>1, DueIs
    <3>2. QED BY <1>10, <3>1
  <2>5. SeenInv'
    <3>1. \A n \in CanaryNames \cup {"sync"} : n \notin passed'
      BY <1>11, <1>15
    <3>2. QED BY <1>1, <1>12, <3>1 DEF SeenInv, CanaryNames
  <2>6. BlameInv'
    <3>1. SUFFICES ASSUME ~blame'
                   PROVE  /\ failed' = {} /\ high' >= 0 /\ step'.good
                          /\ \A e \in events' : e.by = "create" => e.key = step'.key /\ e.seq > step'.seq
                          /\ \A o \in owed' : o.by = "create" => o.key = step'.key
      <4>1. Head(todo') = "create" /\ todo' # Full2 /\ phase' # "gone"
        BY <1>3, <1>15, DueIs, PlacesAre
      <4>2. QED BY <3>1, <4>1 DEF BlameInv
    <3>2. ~blame /\ key = k
      BY <1>5, <3>1
    <3>3. failed = {} /\ high >= 0
      BY <1>1, <3>2 DEF IInv, CanaryInv, BlameInv
    <3>4. ASSUME NEW e \in events', e.by = "create" PROVE e.key = step'.key /\ e.seq > step'.seq
      <4>1. e.key = k /\ e.seq = newest + 1
        BY <1>7, <1>9, <3>4
      <4>2. QED BY <1>3, <2>1, <3>2, <4>1
    <3>5. \A o \in owed' : o.by = "create" => o.key = step'.key
      BY <1>7, <1>9, <2>1, <3>2
    <3>6. QED BY <1>1, <1>15, <2>1, <3>3, <3>4, <3>5
  <2>7. QED BY <1>1, <1>3, <1>6, <1>8, <2>2, <2>3, <2>4, <2>5, <2>6, CanaryStep
<1>16. QED BY <1>2, <1>13, <1>14, <1>15

LEMMA CanaryChangeKeeps ==
  ASSUME IInv, CanaryChange
  PROVE  IInv'
<1> DEFINE name == Head(todo)
           k == step.key
           value == IF name = "update" THEN "updated" ELSE "absent"
<1>1. /\ canary /\ phase = "act" /\ name \in {"update", "delete"}
      /\ Quiet /\ run' = run /\ high' = high /\ polls' = polls /\ made' = made /\ told' = told
      /\ UNCHANGED <<created, removed, remaining>>
  BY DEF CanaryChange, Quiet
<1>2. PICK fate \in Fates, timing \in Timings :
        /\ Performs(fate, {k}, value)
        /\ Changed(k, name, fate, timing)
        /\ Blames(fate # "done")
        /\ \/ isLost(fate) /\ Throws
           \/ /\ ~isLost(fate)
              /\ phase' = "look"
              /\ step' = [step EXCEPT !.good = succeeds(fate)]
              /\ UNCHANGED <<todo, passed, failed, report>>
  BY DEF CanaryChange
<1>3. /\ run \in Runs /\ ServerOK /\ blame \in BOOLEAN /\ step \in Steps
      /\ newest \in Nat /\ step.seq \in Nat /\ step.seq <= newest /\ polls \in 0 .. MaxPolls
      /\ name = "update" => todo = Full3
      /\ name = "delete" => todo = Full2
  <2>1. polls \in 0 .. MaxPolls
    BY DEF IInv, TypeInv, RunnerOK
  <2>2. QED BY <1>1, <2>1, CanaryAt
<1>4. k \in Keys \ Theirs
  BY <1>1, <1>3 DEF IInv, CanaryInv, PlaceInv
<1>5. blame' \in BOOLEAN /\ (~blame' => ~blame /\ fate = "done")
  BY <1>2, <1>3 DEF Blames
<1>6. /\ RecordInv' /\ record' \in [Keys -> RecordStates]
      /\ \A x \in Keys : record'[x] = IF performs(fate) /\ x \in {k} THEN value ELSE record[x]
  <2>1. Performs(fate, {k}, value) /\ value \in RecordStates
    BY <1>2 DEF RecordStates
  <2> HIDE DEF value, k
  <2>2. QED BY <1>1, <1>4, <2>1, TheirsStay
<1>7. /\ events' \in SUBSET Events /\ EventsBounded' /\ owed' \in SUBSET Owed
      /\ newest <= newest' /\ newest' \in Nat
      /\ events \subseteq events' /\ owed \subseteq owed'
      /\ \A e \in events' \ events : e.by = name /\ e.key = k /\ e.seq = newest + 1
      /\ \A o \in owed' \ owed : o.by = name /\ o.key = k
      /\ name \in CanaryNames
  <2>1. Changed(k, name, fate, timing) /\ name \in CanaryNames
    BY <1>1, <1>2 DEF CanaryNames
  <2>2. QED BY <1>3, <1>4, <2>1, ChangedIs
<1>8. ServerOK'
  BY <1>1, <1>3, <1>5, <1>6, <1>7 DEF ServerOK
<1>9. /\ Ahead(name)
      /\ \A e \in events : e.by # name
      /\ \A o \in owed : o.by # name
  <2>1. Len(todo) >= Turn[name]
    BY <1>1, <1>3, <1>7, DueIs
  <2>2. Ahead(name)
    BY <1>1, <2>1 DEF Ahead
  <2>3. QED BY <1>1, <1>7, <2>2 DEF IInv, CanaryInv, EventsInv
<1>10. ASSUME \A n \in CanaryNames : Ahead(n)' => Ahead(n) /\ n # name PROVE EventsInv'
  <2>1. Changed(k, name, fate, timing)
    BY <1>2
  <2> HIDE DEF k, name
  <2>2. QED BY <1>1, <1>4, <1>7, <1>9, <1>10, <2>1, ChangedKeepsEvents
<1>11. /\ created = <<>> /\ remaining = <<>>
       /\ step.seq > 0 => \E e \in events : e.key = step.key /\ e.seq = step.seq
       /\ \A n \in CanaryNames \cup {"sync"} : Len(todo) >= Turn[n] => n \notin passed \cup failed
  BY <1>1 DEF IInv, CanaryInv, PlaceInv
<1>12. CASE isLost(fate) /\ Throws
  <2>1. blame' = TRUE
    <3>1. fate # "done"
      BY <1>12 DEF isLost
    <3>2. QED BY <1>5, <3>1
  <2>2. RunnerOK' /\ PlaceInv' /\ SeenInv' /\ BlameInv'
    BY <1>1, <1>3, <1>7, <1>12, <2>1, ThrowsIs
  <2>3. EventsInv'
    <3>1. \A n \in CanaryNames : ~Ahead(n)'
      BY <1>12 DEF Throws, Ahead
    <3>2. QED BY <1>10, <3>1
  <2>4. QED BY <1>1, <1>3, <1>6, <1>8, <2>2, <2>3, CanaryStep
<1>13. CASE /\ ~isLost(fate)
            /\ phase' = "look"
            /\ step' = [step EXCEPT !.good = succeeds(fate)]
            /\ UNCHANGED <<todo, passed, failed, report>>
  <2>1. /\ step' \in Steps /\ step'.key = k /\ step'.good = succeeds(fate)
        /\ step'.seq = step.seq
    <3>1. succeeds(fate) \in BOOLEAN
      BY DEF succeeds
    <3>2. QED BY <1>3, <1>13, <3>1 DEF Steps
  <2>2. RunnerOK'
    <3>1. high' \in Int /\ -1 <= high' /\ high' <= newest'
      BY <1>1, <1>3, <1>7 DEF IInv, TypeInv, RunnerOK
    <3>2. QED BY <1>1, <1>13, <2>1, <3>1 DEF IInv, TypeInv, RunnerOK
  <2>3. todo \in {Full3, Full2}
    BY <1>1, <1>3
  <2>4. PlaceInv'
    <3>1. step'.seq > 0 => \E e \in events' : e.key = step'.key /\ e.seq = step'.seq
      BY <1>7, <1>11, <2>1
    <3>2. QED BY <1>1, <1>4, <1>11, <1>13, <2>1, <2>3, <3>1 DEF PlaceInv
  <2>5. EventsInv'
    <3>1. ASSUME NEW n \in CanaryNames, Ahead(n)' PROVE Ahead(n) /\ n # name
      <4>1. Len(todo) > Turn[n]
        BY <1>13, <3>1 DEF Ahead
      <4>2. Len(todo) >= Turn[n] /\ n # name
        BY <1>1, <1>3, <4>1, DueIs
      <4>3. QED BY <1>1, <4>2 DEF Ahead
    <3>2. QED BY <1>10, <3>1
  <2>6. SeenInv'
    <3>1. /\ "create" \in passed => Seen("create")
          /\ {"create", "update"} \subseteq passed => Seen("update")
          /\ CanaryNames \subseteq passed => \E e \in events : e.by = "delete"
          /\ high >= 0 => \A e \in events : e.by = "old" => e.seq <= high
          /\ run.mode = "full" /\ "sync" \in passed => \E e \in events : e.by # "old"
      BY <1>1 DEF IInv, CanaryInv, SeenInv
    <3>2. \A n : Seen(n) => Seen(n)'
      BY <1>7, <2>1 DEF Seen
    <3>3. /\ CanaryNames \subseteq passed' => \E e \in events' : e.by = "delete"
          /\ run'.mode = "full" /\ "sync" \in passed' => \E e \in events' : e.by # "old"
      BY <1>1, <1>7, <1>13, <3>1
    <3>4. high' >= 0 => \A e \in events' : e.by = "old" => e.seq <= high'
      BY <1>1, <1>7, <3>1
    <3>5. "create" \in passed' => Seen("create")'
      BY <1>13, <3>1, <3>2
    <3>6. {"create", "update"} \subseteq passed' => Seen("update")'
      BY <1>13, <3>1, <3>2
    <3>7. phase' # "gone"
      BY <1>13
    <3>8. QED BY <3>3, <3>4, <3>5, <3>6, <3>7 DEF SeenInv
  <2>7. BlameInv'
    <3>1. SUFFICES ASSUME ~blame'
                   PROVE  /\ failed' = {} /\ high' >= 0 /\ step'.good
                          /\ \A e \in events' : e.by = name => e.key = step'.key /\ e.seq > step'.seq
                          /\ \A o \in owed' : o.by = name => o.key = step'.key
                          /\ todo = Full2 => record'[step'.key] = "absent"
      <4>1. todo' = todo /\ phase' = "look"
        BY <1>13
      <4>2. QED BY <3>1, <4>1 DEF BlameInv
    <3>2. ~blame /\ fate = "done"
      BY <1>5, <3>1
    <3>3. failed = {} /\ high >= 0
      BY <1>1, <3>2 DEF IInv, CanaryInv, BlameInv
    <3>4. ASSUME NEW e \in events', e.by = name PROVE e.key = step'.key /\ e.seq > step'.seq
      <4>1. e.key = k /\ e.seq = newest + 1
        BY <1>7, <1>9, <3>4
      <4>2. QED BY <1>3, <2>1, <4>1
    <3>5. \A o \in owed' : o.by = name => o.key = step'.key
      BY <1>7, <1>9, <2>1
    <3>6. todo = Full2 => record'[step'.key] = "absent"
      <4>1. performs("done")
        BY DEF performs
      <4>2. todo = Full2 => name # "update"
        BY PlacesAre
      <4>3. QED BY <1>4, <1>6, <2>1, <3>2, <4>1, <4>2
    <3>7. step'.good
      BY <2>1, <3>2 DEF succeeds
    <3>8. QED BY <1>1, <1>13, <3>3, <3>4, <3>5, <3>6, <3>7
  <2>8. QED BY <1>1, <1>3, <1>6, <1>8, <2>2, <2>4, <2>5, <2>6, <2>7, CanaryStep
<1>14. QED BY <1>2, <1>12, <1>13

(* The feed grows by one event that the run did not read.                  *)
LEMMA FeedGrows ==
  ASSUME IInv, canary, UNCHANGED <<runner, record, history>>,
         NEW k \in Keys, NEW by \in CanaryNames \cup {"old", "other"}, Announces(k, by),
         owed' \subseteq owed, EventsInv', by = "old" => phase = "checking",
         ~blame /\ phase = "look" /\ by = Head(todo) => k = step.key
  PROVE  IInv'
<1>1. /\ run \in Runs /\ ServerOK /\ blame \in BOOLEAN /\ newest \in Nat
      /\ step.seq \in Nat /\ step.seq <= newest
  BY CanaryAt
<1>2. /\ run' = run /\ phase' = phase /\ todo' = todo /\ step' = step /\ created' = created
      /\ removed' = removed /\ remaining' = remaining /\ passed' = passed /\ failed' = failed
      /\ report' = report /\ high' = high /\ polls' = polls
      /\ record' = record /\ made' = made /\ told' = told /\ blame' = blame
  BY DEF runner, history
<1>3. /\ events' \in SUBSET Events /\ EventsBounded'
      /\ events' = events \cup {[key |-> k, seq |-> newest + 1, by |-> by]}
      /\ newest' \in Nat /\ newest <= newest'
  BY <1>1, AnnouncesOne
<1>4. /\ events \subseteq events'
      /\ \A e \in events' \ events : e.key = k /\ e.seq = newest + 1 /\ e.by = by
  BY <1>3
<1>5. ServerOK'
  BY <1>1, <1>2, <1>3 DEF ServerOK
<1>6. RecordInv'
  BY <1>2, SameRun DEF IInv, RecordInv
<1>7. RunnerOK'
  <2>1. high' \in Int /\ -1 <= high' /\ high' <= newest'
    BY <1>1, <1>2, <1>3 DEF IInv, TypeInv, RunnerOK
  <2>2. QED BY <1>2, <2>1 DEF IInv, TypeInv, RunnerOK
<1>8. PlaceInv'
  <2>1. step'.seq > 0 => \E e \in events' : e.key = step'.key /\ e.seq = step'.seq
    BY <1>2, <1>4 DEF IInv, CanaryInv, PlaceInv
  <2>2. phase' = "checking" => passed' = {} /\ failed' = {} /\ owed' = {}
    BY <1>2 DEF IInv, CanaryInv, PlaceInv
  <2>3. QED BY <1>2, <2>1, <2>2 DEF IInv, CanaryInv, PlaceInv
<1>9. SeenInv'
  <2>1. /\ "create" \in passed => Seen("create")
        /\ {"create", "update"} \subseteq passed => Seen("update")
        /\ {"create", "update"} \subseteq passed /\ phase = "gone" /\ step.good
             => \E e \in events : e.by = "delete"
        /\ CanaryNames \subseteq passed => \E e \in events : e.by = "delete"
        /\ phase \in {"act", "look", "gone"} /\ high >= 0
             => \A e \in events : e.by = "old" => e.seq <= high
        /\ run.mode = "full" /\ "sync" \in passed => \E e \in events : e.by # "old"
    BY DEF IInv, CanaryInv, SeenInv
  <2>2. \A n : Seen(n) => Seen(n)'
    BY <1>2, <1>4 DEF Seen
  <2>3. /\ {"create", "update"} \subseteq passed' /\ phase' = "gone" /\ step'.good
             => \E e \in events' : e.by = "delete"
        /\ CanaryNames \subseteq passed' => \E e \in events' : e.by = "delete"
        /\ run'.mode = "full" /\ "sync" \in passed' => \E e \in events' : e.by # "old"
    BY <1>2, <1>4, <2>1
  <2>4. phase' \in {"act", "look", "gone"} /\ high' >= 0
          => \A e \in events' : e.by = "old" => e.seq <= high'
    BY <1>2, <1>4, <2>1
  <2>5. "create" \in passed' => Seen("create")'
    BY <1>2, <2>1, <2>2
  <2>6. {"create", "update"} \subseteq passed' => Seen("update")'
    BY <1>2, <2>1, <2>2
  <2>7. QED BY <2>3, <2>4, <2>5, <2>6 DEF SeenInv
<1>10. BlameInv'
  <2>1. SUFFICES ASSUME ~blame
                 PROVE  /\ failed = {} /\ high >= 0
                        /\ phase = "look" =>
                             /\ step.good
                             /\ \A e \in events' : e.by = Head(todo)
                                                     => e.key = step.key /\ e.seq > step.seq
                             /\ \A o \in owed' : o.by = Head(todo) => o.key = step.key
                        /\ phase \in {"look", "gone"} /\ todo = Full2
                             => record[step.key] = "absent"
                        /\ phase = "gone" => step.good
    BY <1>2 DEF BlameInv
  <2>2. /\ failed = {} /\ high >= 0
        /\ phase = "look" =>
             /\ step.good
             /\ \A e \in events : e.by = Head(todo) => e.key = step.key /\ e.seq > step.seq
             /\ \A o \in owed : o.by = Head(todo) => o.key = step.key
        /\ phase \in {"look", "gone"} /\ todo = Full2 => record[step.key] = "absent"
        /\ phase = "gone" => step.good
    BY <2>1 DEF IInv, CanaryInv, BlameInv
  <2>3. ASSUME phase = "look", NEW e \in events', e.by = Head(todo)
        PROVE  e.key = step.key /\ e.seq > step.seq
    <3>1. CASE e \in events
      BY <2>2, <2>3, <3>1
    <3>2. CASE e \notin events
      BY <1>1, <1>4, <2>1, <2>3, <3>2
    <3>3. QED BY <3>1, <3>2
  <2>4. QED BY <2>2, <2>3
<1>11. QED BY <1>1, <1>2, <1>5, <1>6, <1>7, <1>8, <1>9, <1>10, CanaryStep

LEMMA AnnounceKeeps ==
  ASSUME IInv, Announce
  PROVE  IInv'
<1>1. canary /\ phase # "done" /\ UNCHANGED <<runner, record, history>>
  BY DEF Announce
<1>2. PICK o \in owed : Announces(o.key, o.by) /\ owed' = owed \ {o}
  BY DEF Announce
<1>3. /\ ServerOK /\ o.key \in Keys /\ o.by \in CanaryNames /\ newest \in Nat
  BY <1>1, CanaryAt DEF ServerOK, Owed
<1>4. /\ \A e \in events : e.by \in CanaryNames <=> e.key \notin Theirs
      /\ \A p \in owed : p.key \notin Theirs
      /\ \A e, f \in events : e.by = f.by /\ e.by \in CanaryNames => e = f
      /\ \A e \in events, p \in owed : e.by # p.by
      /\ \A p, q \in owed : p.by = q.by => p = q
      /\ \A n \in CanaryNames : Ahead(n) =>
           (\A e \in events : e.by # n) /\ (\A p \in owed : p.by # n)
  BY <1>1 DEF IInv, CanaryInv, EventsInv
<1>5. events' = events \cup {[key |-> o.key, seq |-> newest + 1, by |-> o.by]}
  BY <1>2 DEF Announces
<1>6. /\ \A e \in events' : e \in events \/ (e.by = o.by /\ e.key = o.key)
      /\ \A e, f \in events' : e \notin events /\ f \notin events => e = f
      /\ owed' \subseteq owed /\ o \notin owed'
  BY <1>2, <1>5
<1>7. EventsInv'
  <2>1. \A e \in events' : e.by \in CanaryNames <=> e.key \notin Theirs
    BY <1>3, <1>4, <1>6
  <2>2. \A p \in owed' : p.key \notin Theirs
    BY <1>4, <1>6
  <2>3. \A e, f \in events' : e.by = f.by /\ e.by \in CanaryNames => e = f
    BY <1>2, <1>4, <1>6
  <2>4. \A e \in events', p \in owed' : e.by # p.by
    BY <1>2, <1>4, <1>6
  <2>5. \A p, q \in owed' : p.by = q.by => p = q
    BY <1>4, <1>6
  <2>6. ASSUME NEW n \in CanaryNames, Ahead(n)'
        PROVE  (\A e \in events' : e.by # n) /\ (\A p \in owed' : p.by # n)
    <3>1. Ahead(n)
      BY <1>1, <2>6 DEF Ahead, runner
    <3>2. QED BY <1>2, <1>4, <1>6, <3>1
  <2>7. QED BY <2>1, <2>2, <2>3, <2>4, <2>5, <2>6 DEF EventsInv
<1>8. ~blame /\ phase = "look" /\ o.by = Head(todo) => o.key = step.key
  BY <1>1 DEF IInv, CanaryInv, BlameInv
<1>9. o.by # "old"
  BY <1>3 DEF CanaryNames
<1>10. QED BY <1>1, <1>2, <1>3, <1>6, <1>7, <1>8, <1>9, FeedGrows

LEMMA OtherWriteKeeps ==
  ASSUME IInv, OtherWrite
  PROVE  IInv'
<1>1. canary /\ phase # "done" /\ UNCHANGED <<runner, record, history>> /\ owed' = owed
  BY DEF OtherWrite
<1>2. PICK k \in Theirs : Announces(k, IF phase = "checking" THEN "old" ELSE "other")
  BY DEF OtherWrite
<1> DEFINE by == IF phase = "checking" THEN "old" ELSE "other"
<1>3. /\ by \in {"old", "other"} /\ by \notin CanaryNames /\ (by = "old" => phase = "checking")
      /\ k \in Keys /\ ServerOK /\ newest \in Nat
      /\ Announces(k, by)
  BY <1>1, <1>2, KeysAre, CanaryAt DEF CanaryNames
<1> HIDE DEF by
<1>4. events' = events \cup {[key |-> k, seq |-> newest + 1, by |-> by]}
  BY <1>3 DEF Announces
<1>5. \A e \in events' : e \in events \/ (e.by = by /\ e.key = k)
  BY <1>4
<1>6. EventsInv'
  <2>1. /\ \A e \in events : e.by \in CanaryNames <=> e.key \notin Theirs
        /\ \A o \in owed : o.key \notin Theirs
        /\ \A e, f \in events : e.by = f.by /\ e.by \in CanaryNames => e = f
        /\ \A e \in events, o \in owed : e.by # o.by
        /\ \A o, p \in owed : o.by = p.by => o = p
        /\ \A n \in CanaryNames : Ahead(n) =>
             (\A e \in events : e.by # n) /\ (\A o \in owed : o.by # n)
    BY <1>1 DEF IInv, CanaryInv, EventsInv
  <2>2. \A o \in owed : o.by \in CanaryNames
    BY <1>3 DEF ServerOK, Owed
  <2>3. \A e \in events' : e.by \in CanaryNames <=> e.key \notin Theirs
    BY <1>3, <1>5, <2>1
  <2>4. \A e, f \in events' : e.by = f.by /\ e.by \in CanaryNames => e = f
    BY <1>3, <1>5, <2>1
  <2>5. \A e \in events', o \in owed' : e.by # o.by
    BY <1>1, <1>3, <1>5, <2>1, <2>2
  <2>6. ASSUME NEW n \in CanaryNames, Ahead(n)'
        PROVE  (\A e \in events' : e.by # n) /\ (\A o \in owed' : o.by # n)
    <3>1. Ahead(n)
      BY <1>1, <2>6 DEF Ahead, runner
    <3>2. QED BY <1>1, <1>3, <1>5, <2>1, <3>1
  <2>7. QED BY <1>1, <2>1, <2>3, <2>4, <2>5, <2>6 DEF EventsInv
<1>7. phase = "look" => by # Head(todo)
  BY <1>1, <1>3, CanaryAt
<1>8. QED BY <1>1, <1>3, <1>6, <1>7, FeedGrows

-----------------------------------------------------------------------------
(* It holds at the start, and every step keeps it.                         *)
LEMMA InitIs ==
  ASSUME Init
  PROVE  IInv
<1>1. /\ run \in Runs /\ phase = "checking" /\ todo = <<>> /\ step = Idle
      /\ created = <<>> /\ removed = {} /\ remaining = <<>>
      /\ passed = {} /\ failed = {} /\ report = NoReport /\ high = 0 /\ polls = 0
      /\ record = [k \in Keys |-> IF k \in Theirs THEN "theirs" ELSE "absent"]
      /\ owed = {} /\ made = {} /\ told = {} /\ blame = FALSE
  BY DEF Init
<1>2. \A e \in events : \E t \in Theirs, i \in {1, 2} : e = [key |-> t, seq |-> i, by |-> "old"]
  BY DEF Init, OldEvents
<1>3. \A e \in events : e \in Events /\ e.seq <= 2 /\ e.by = "old" /\ e.key \in Theirs
  BY <1>2, KeysAre DEF Events
<1>4. ServerOK
  <2>1. EventsBounded
    BY <1>3 DEF EventsBounded
  <2>2. record \in [Keys -> RecordStates]
    BY <1>1 DEF RecordStates
  <2>3. events \in SUBSET Events
    BY <1>3
  <2>4. QED BY <1>1, <2>1, <2>2, <2>3 DEF ServerOK
<1>5. RunnerOK
  <2>1. newest \in Nat
    BY <1>4, NewestIs
  <2>2. step \in Steps
    BY <1>1 DEF Idle, Steps
  <2>3. report \in Reports
    BY <1>1 DEF NoReport, Reports
  <2>4. todo \in Seq(Names) /\ created \in Seq(Keys) /\ Range(created) = {}
        /\ remaining \in Seq(Keys) /\ Range(remaining) = {}
    BY <1>1, RangeOfNone
  <2>5. polls \in 0 .. MaxPolls
    BY <1>1, KeysAreApart
  <2>6. QED BY <1>1, <2>1, <2>2, <2>3, <2>4, <2>5 DEF RunnerOK
<1>6. RecordInv
  BY <1>1, KeysAre DEF RecordInv
<1>7. OwnInv
  <2>1. ~Going
    BY <1>1 DEF Going
  <2>2. PlanInv /\ NamesInv
    BY <1>1, <2>1 DEF PlanInv, NamesInv
  <2>3. KeysInv
    BY <1>1, RangeOfNone DEF KeysInv
  <2>4. MadeIsAccountedFor
    BY <1>1 DEF MadeIsAccountedFor
  <2>5. AccountInv
    BY <1>1, <2>1, <2>4 DEF AccountInv
  <2>6. FaultInv
    BY <1>1, <2>1 DEF FaultInv
  <2>7. QED BY <2>2, <2>3, <2>5, <2>6 DEF OwnInv
<1>8. CanaryInv
  <2>1. PlaceInv
    BY <1>1 DEF PlaceInv, Idle
  <2>2. EventsInv
    <3>1. "old" \notin CanaryNames
      BY DEF CanaryNames
    <3>2. \A e \in events : e.by \notin CanaryNames /\ e.key \in Theirs
      BY <1>3, <3>1
    <3>3. \A name \in CanaryNames : \A e \in events : e.by # name
      BY <3>2
    <3>4. QED BY <1>1, <3>2, <3>3 DEF EventsInv
  <2>3. SeenInv
    BY <1>1 DEF SeenInv, CanaryNames
  <2>4. BlameInv
    BY <1>1 DEF BlameInv
  <2>5. QED BY <2>1, <2>2, <2>3, <2>4 DEF CanaryInv
<1>9. QED BY <1>4, <1>5, <1>6, <1>7, <1>8 DEF IInv, TypeInv

LEMMA StutterKeeps ==
  ASSUME IInv, UNCHANGED vars
  PROVE  IInv'
<1>1. /\ run' = run /\ phase' = phase /\ todo' = todo /\ step' = step /\ created' = created
      /\ removed' = removed /\ remaining' = remaining /\ passed' = passed /\ failed' = failed
      /\ report' = report /\ high' = high /\ polls' = polls
      /\ record' = record /\ events' = events /\ owed' = owed
      /\ made' = made /\ told' = told /\ pretended' = pretended /\ blame' = blame
  BY DEF vars, runner, server, history
<1>2. newest' = newest
  BY <1>1 DEF newest
<1>3. TypeInv' /\ RecordInv'
  BY <1>1, <1>2, SameRun
     DEF IInv, TypeInv, RunnerOK, ServerOK, EventsBounded, RecordInv
<1>4. PlanInv' /\ KeysInv' /\ NamesInv'
  BY <1>1, SameRun DEF IInv, OwnInv, PlanInv, KeysInv, NamesInv, Going
<1>5. AccountInv'
  BY <1>1, SameRun DEF IInv, OwnInv, AccountInv, Going, Pending, MadeIsAccountedFor
<1>6. FaultInv'
  BY <1>1, SameRun DEF IInv, OwnInv, FaultInv, Going
<1>7. PlaceInv' /\ BlameInv'
  BY <1>1, SameRun DEF IInv, CanaryInv, PlaceInv, BlameInv
<1>8. EventsInv'
  BY <1>1, SameRun DEF IInv, CanaryInv, EventsInv, Ahead
<1>9. SeenInv'
  BY <1>1, SameRun DEF IInv, CanaryInv, SeenInv, Seen
<1>10. QED BY <1>3, <1>4, <1>5, <1>6, <1>7, <1>8, <1>9 DEF IInv, OwnInv, CanaryInv

LEMMA NextKeeps ==
  ASSUME IInv, [Next]_vars
  PROVE  IInv'
<1>1. CASE AddEditNext
  BY <1>1, CheckKeeps, CreateKeeps, NoRecordKeeps, UpdateKeeps, DeleteKeeps, FollowUpKeeps,
     CleanUpKeeps DEF AddEditNext
<1>2. CASE CanaryNext
  BY <1>2, BaselineKeeps, CanaryCreateKeeps, CanaryChangeKeeps, LookKeeps, GoneKeeps, SyncKeeps,
     PollKeeps, AnnounceKeeps, OtherWriteKeeps DEF CanaryNext
<1>3. CASE UNCHANGED vars
  BY <1>3, StutterKeeps
<1>4. QED BY <1>1, <1>2, <1>3 DEF Next

-----------------------------------------------------------------------------
(* The invariant holds in every run of the two runners.                    *)
THEOREM WriteInvariant == Spec => []IInv
<1>1. Init => IInv
  BY InitIs
<1>2. IInv /\ [Next]_vars => IInv'
  BY NextKeeps
<1>3. QED BY <1>1, <1>2, PTL DEF Spec

(* Every variable has its type; what was removed was created, no scenario  *)
(* both passes and fails, and the baseline of incremental sync is never    *)
(* ahead of the feed (test-runner.ts of both runners).                     *)
THEOREM WriteTypeCorrect == Spec => []TypeOK
<1>1. ASSUME IInv PROVE TypeOK
  <2>1. RunnerOK /\ ServerOK /\ newest \in Nat
    BY <1>1, NewestIs DEF IInv, TypeInv
  <2>2. \A k \in Keys : record[k] \in {"theirs", "made", "updated", "absent"}
    BY <2>1 DEF ServerOK, RecordStates
  <2>3. Range(created) \subseteq Keys
    BY <2>1 DEF RunnerOK, Range
  <2>4. report.removed \cup report.notRemoved \cup report.left \subseteq Keys
    BY <2>1 DEF RunnerOK, Reports
  <2>5. high \in -1 .. newest
    BY <2>1 DEF RunnerOK
  <2>6. QED BY <2>1, <2>2, <2>3, <2>4, <2>5 DEF TypeOK, RunnerOK, ServerOK
<1>2. QED BY <1>1, WriteInvariant, PTL

(* A provider's own records are left alone, but for those that the payloads *)
(* of an Add/Edit run name: no write of a run goes to the collection's URL,  *)
(* and no clean-up or canary reaches a record the run did not make.          *)
THEOREM ProvidersRecordsStay == Spec => []OthersAreLeftAlone
<1>1. ASSUME IInv PROVE OthersAreLeftAlone
  <2>1. \A k \in Theirs : k \notin Payload => record[k] = "theirs"
    BY <1>1 DEF IInv, RecordInv
  <2>2. ours = made \cup Payload
    BY DEF ours, Payload
  <2>3. QED BY <2>1, <2>2 DEF OthersAreLeftAlone
<1>2. QED BY <1>1, WriteInvariant, PTL

(* A run that reports accounts for every record that it made and was told  *)
(* of: it is gone, the report names it, or the delete of the clean-up was  *)
(* answered with a success that removed nothing (cleanUp).                 *)
THEOREM CreatedIsAccountedFor == Spec => []MadeIsAccountedFor
<1>1. ASSUME IInv PROVE MadeIsAccountedFor
  BY <1>1 DEF IInv, OwnInv, AccountInv, MadeIsAccountedFor
<1>2. QED BY <1>1, WriteInvariant, PTL

(* A canary that passes its three scenarios had each of its changes in the *)
(* feed, and a full run passes incremental sync only for an event that     *)
(* came after it began to write.                                           *)
THEOREM PassIsAnnounced == Spec => []PassedMeansAnnounced
<1>1. ASSUME IInv PROVE PassedMeansAnnounced
  <2>1. Range(canaryScenarios) = CanaryNames
    BY DEF Range, canaryScenarios, CanaryNames
  <2>2. run \in Runs
    BY <1>1 DEF IInv, TypeInv, RunnerOK
  <2>3. CASE canary
    <3>1. /\ "create" \in passed => Seen("create")
          /\ {"create", "update"} \subseteq passed => Seen("update")
          /\ CanaryNames \subseteq passed => \E e \in events : e.by = "delete"
          /\ run.mode = "full" /\ "sync" \in passed => \E e \in events : e.by # "old"
      BY <1>1, <2>3 DEF IInv, CanaryInv, SeenInv
    <3>2. ASSUME CanaryNames \subseteq passed, NEW name \in CanaryNames
          PROVE  \E e \in events : e.by = name
      <4>1. "create" \in passed /\ {"create", "update"} \subseteq passed
        BY <3>2 DEF CanaryNames
      <4>2. (\E e \in events : e.by = "create") /\ (\E e \in events : e.by = "update")
        BY <3>1, <4>1 DEF Seen
      <4>3. QED BY <3>1, <3>2, <4>2 DEF CanaryNames
    <3>3. QED BY <2>1, <3>1, <3>2 DEF PassedMeansAnnounced
  <2>4. CASE ~canary
    <3>1. passed \subseteq AddEditNames
      BY <1>1, <2>2, <2>4, RunIs DEF IInv, OwnInv, NamesInv
    <3>2. "create" \in CanaryNames /\ "create" \notin AddEditNames
      BY DEF CanaryNames, AddEditNames, CreateNames, UpdateNames, DeleteNames
    <3>3. QED BY <2>1, <2>4, <3>1, <3>2 DEF PassedMeansAnnounced
  <2>5. QED BY <2>3, <2>4
<1>2. QED BY <1>1, WriteInvariant, PTL

(* A scenario fails only when something went wrong outside the runner: a   *)
(* server that does what it is asked, answers as it should and announces   *)
(* in time fails none.                                                     *)
THEOREM FailureIsOutside == Spec => []FailureIsTheProviders
<1>1. ASSUME IInv PROVE FailureIsTheProviders
  <2>1. addEdit \/ canary
    BY <1>1, RunIs DEF IInv, TypeInv, RunnerOK
  <2>2. ~blame => failed = {}
    BY <1>1, <2>1 DEF IInv, OwnInv, FaultInv, CanaryInv, BlameInv
  <2>3. QED BY <2>2 DEF FailureIsTheProviders
<1>2. QED BY <1>1, WriteInvariant, PTL
=============================================================================
