----------------------------- MODULE CoreRules ------------------------------
(***************************************************************************)
(* What the Web API Core test decides, as pure operators: which fields of  *)
(* a sampled resource a scenario is tried on and with which values, what   *)
(* it asks, how it judges the records that come back, and what it makes of *)
(* an answer without records (src/reso-certification/src/web-api-core).    *)
(*                                                                         *)
(* A resource has one field of the standard and one local field of the     *)
(* data type under test, its representation.  A cell is the set of its     *)
(* values: {} is null, or the empty collection of a multi-valued field.  A *)
(* value is a number, its rank in the order the tester compares in: by     *)
(* number, or as text for dates and timestamps.                            *)
(***************************************************************************)
EXTENDS Integers, FiniteSets, Sequences, SequencesExt

CONSTANTS
  Values,          \* ranks of the values records may hold
  StandardValues,  \* those the Data Dictionary knows
  Clock,           \* the rank of now(), between values
  Instant,         \* Instant[r]: when the timestamp of rank r is
  SubsetMax        \* SUBSET_MAX_VALUES

Low == -1          \* below every value: the sentinel of not()
High == 1000       \* above every value: integerValueHigh

Ranks == Values \cup {Low, Clock, High}

ASSUME RanksAreApart ==
  /\ Values \subseteq (Low + 1)..(High - 1) /\ IsFiniteSet(Values)
  /\ Clock \in ((Low + 1)..(High - 1)) \ Values
  /\ StandardValues \subseteq Values
  /\ Instant \in [Ranks -> Int]
  /\ SubsetMax \in Nat

Fields == {"standard", "local"}
Scalars == {"integer", "decimal", "date"}
Singles == {"SINGLE_ENUM", "SINGLE_STRING"}
Multis == {"FLAGS_ENUM", "COLLECTION_ENUM", "COLLECTION_STRING"}
Reps == Scalars \cup {"datetime"} \cup Singles \cup Multis

Strings(rep) == rep \in {"SINGLE_STRING", "COLLECTION_STRING"}

(***************************************************************************)
(* The catalogue: what is asked of each representation, in order.  since   *)
(* is the first version of Core that asks it.                              *)
(***************************************************************************)
Ask(op, arg) == [op |-> op, arg |-> arg, since |-> "2.0.0"]
Ask21(op, arg) == [op |-> op, arg |-> arg, since |-> "2.1.0"]

Catalog == [rep \in Reps |->
  CASE rep = "integer" ->
         << Ask("and", "median"), Ask("or", "median"), Ask("not", "sentinel"),
            Ask("eq", "median"), Ask("ne", "median"), Ask("gt", "min"),
            Ask("ge", "median"), Ask("lt", "max"), Ask("le", "median") >>
    [] rep = "decimal" ->
         << Ask("ne", "median"), Ask("gt", "min"), Ask("ge", "median"),
            Ask("lt", "max"), Ask("le", "median") >>
    [] rep = "date" ->
         << Ask("eq", "median"), Ask("ne", "median"), Ask("gt", "min"),
            Ask("ge", "median"), Ask("lt", "max"), Ask("le", "median") >>
    [] rep = "datetime" ->
         << Ask("gt", "min"), Ask("ge", "min"), Ask("ne", "min"), Ask("lt", "max"),
            Ask("le", "min"), Ask("lt", "now"), Ask("le", "now"), Ask("ne", "now"),
            Ask("asc", "none"), Ask("desc", "none") >>
    [] rep = "SINGLE_ENUM" ->
         << Ask("has", "first"), Ask("eq", "first"), Ask("ne", "first"), Ask21("in", "three") >>
    [] rep = "SINGLE_STRING" ->
         << Ask21("lookup", "none"), Ask21("eq", "first"), Ask21("ne", "first"),
            Ask21("in", "three") >>
    [] rep = "FLAGS_ENUM" -> << Ask("has", "first"), Ask("has", "two") >>
    [] rep = "COLLECTION_ENUM" -> << Ask("any", "first"), Ask("all", "first") >>
    [] rep = "COLLECTION_STRING" ->
         << Ask21("lookup", "none"), Ask21("any", "two"), Ask21("all", "two") >>]

scenariosForVersion(rep, version) ==
  SelectSeq(Catalog[rep], LAMBDA s : version = "2.1.0" \/ s.since = "2.0.0")

-----------------------------------------------------------------------------
(***************************************************************************)
(* Sampled values and their ranking.                                       *)
(***************************************************************************)
ValuesOf(records, f) == UNION {records[i][f] : i \in DOMAIN records}

fillCount(records, f) == Cardinality({i \in DOMAIN records : records[i][f] # {}})

(* Ascending, as the statistics sort them; the median is the upper one.    *)
sorted(S) == SetToSortSeq(S, LAMBDA a, b : a < b)

stats(S) ==
  LET seq == sorted(S)
  IN  [min |-> seq[1], median |-> seq[(Len(seq) \div 2) + 1], max |-> seq[Len(seq)],
       distinct |-> Len(seq)]

integerNotSentinelFor(S) ==
  LET below == stats(S).min - 1 IN IF below < Low THEN below ELSE Low

(* Members of an enumeration, the ones the dictionary knows first, then    *)
(* the most frequent, then the first seen; three of them at most.          *)
firstRow(records, f, v) ==
  CHOOSE i \in DOMAIN records :
    v \in records[i][f] /\ \A j \in 1..(i - 1) : v \notin records[j][f]

members(records, f) ==
  LET count(v) == Cardinality({i \in DOMAIN records : v \in records[i][f]})
      before(a, b) ==
        \/ a \in StandardValues /\ b \notin StandardValues
        \/ /\ (a \in StandardValues) <=> (b \in StandardValues)
           /\ \/ count(a) > count(b)
              \/ /\ count(a) = count(b)
                 /\ \/ firstRow(records, f, a) < firstRow(records, f, b)
                    \/ firstRow(records, f, a) = firstRow(records, f, b) /\ a < b
  IN  SetToSortSeq(ValuesOf(records, f), before)

firstOf(seq, n) == SubSeq(seq, 1, IF Len(seq) < n THEN Len(seq) ELSE n)

(* The smallest collection a record holds, unless it is too large.         *)
smallestRecordSet(records, f) ==
  LET sets == {c \in {records[i][f] : i \in DOMAIN records} :
                 c # {} /\ Cardinality(c) <= SubsetMax}
  IN  IF sets = {} THEN {}
      ELSE CHOOSE c \in sets : \A d \in sets : Cardinality(c) <= Cardinality(d)

(* Only a field that can tell operators apart may be named by an override. *)
MIN_DISCRIMINATING_VALUES == 2

parseableTimestamps(records, f) == {Instant[v] : v \in ValuesOf(records, f)}

hasPastValue(records, f) == \E t \in parseableTimestamps(records, f) : t <= Instant[Clock]

isEligible(rep, records, f) ==
  /\ Cardinality(ValuesOf(records, f)) >= MIN_DISCRIMINATING_VALUES
  /\ rep = "datetime" => hasPastValue(records, f)

(* A field is a candidate if it has a value to compare against, and a      *)
(* multi-valued one if it fills in both values of its tests.               *)
isCandidate(rep, records, f) ==
  IF rep \in Multis THEN Cardinality(ValuesOf(records, f)) >= MIN_DISCRIMINATING_VALUES
  ELSE ValuesOf(records, f) # {}

(* Standard before local: usage and distinct count decide inside a rank,   *)
(* which here has one field.                                               *)
ranked(rep, records) ==
  SelectSeq(<<"standard", "local">>, LAMBDA f : isCandidate(rep, records, f))

(* A named field that is eligible replaces the ranking of its slot.        *)
applyFieldOverrides(rep, records, named) ==
  IF named \in Fields /\ isCandidate(rep, records, named) /\ isEligible(rep, records, named)
  THEN <<named>> ELSE ranked(rep, records)

(* The field of a lt/le now() is the first with a past value, if any has.  *)
isNowOrdered(s) == s.arg = "now" /\ s.op \in {"lt", "le"}

paramsForTimestampScenario(s, ladder, records) ==
  LET past == SelectSeq(ladder, LAMBDA f : hasPastValue(records, f))
  IN  IF isNowOrdered(s) /\ past # <<>> THEN Head(past) ELSE Head(ladder)

nowFieldPastness(ladder, records) ==
  IF \E i \in DOMAIN ladder : hasPastValue(records, ladder[i]) THEN "has-past"
  ELSE IF ladder = <<>> \/ parseableTimestamps(records, Head(ladder)) = {} THEN "no-values"
  ELSE "all-future"

-----------------------------------------------------------------------------
(***************************************************************************)
(* A query: an operator on a field with values.  derived says that the     *)
(* values are one record's own.                                            *)
(***************************************************************************)
Query(op, f, vals, derived) == [op |-> op, field |-> f, vals |-> vals, derived |-> derived]

recordDerivedSet(rep, s, records, f) ==
  LET own == smallestRecordSet(records, f) IN
  IF s.op = "all" THEN own
  ELSE IF s.op = "has" /\ s.arg = "two" /\ Cardinality(own) >= 2
       THEN Range(firstOf(sorted(own), 2)) ELSE {}

enumQuery(rep, s, records, f) ==
  LET own == recordDerivedSet(rep, s, records, f)
      n == CASE s.arg = "first" -> 1 [] s.arg = "two" -> 2 [] OTHER -> 3
  IN  IF own # {} THEN Query(s.op, f, own, TRUE)
      ELSE Query(s.op, f, Range(firstOf(members(records, f), n)), FALSE)

(* Mutant: gt and lt compare against the wrong end of the sample.          *)
FaultyScalarQuery(s, records, f) ==
  LET st == stats(ValuesOf(records, f))
      value == CASE s.arg = "min" -> st.max [] s.arg = "max" -> st.min
                 [] s.arg = "now" -> Clock
                 [] s.arg = "sentinel" -> integerNotSentinelFor(ValuesOf(records, f))
                 [] OTHER -> st.median
  IN  Query(s.op, f, {value}, FALSE)

scalarQuery(s, records, f) ==
  LET st == stats(ValuesOf(records, f))
      value == CASE s.arg = "min" -> st.min [] s.arg = "max" -> st.max
                 [] s.arg = "now" -> Clock
                 [] s.arg = "sentinel" -> integerNotSentinelFor(ValuesOf(records, f))
                 [] OTHER -> st.median
  IN  Query(s.op, f, {value}, FALSE)

(* in needs two values, or its query cannot be built.                      *)
isBuildable(q) == q.op = "in" => Cardinality(q.vals) >= 2

(* What a scenario tries, in order: a ladder of candidates, but a single   *)
(* field for timestamps.                                                   *)
attemptsFor(rep, s, records, named) ==
  LET ladder == applyFieldOverrides(rep, records, named)
      queryOf(f) == IF rep \in Singles \cup Multis THEN enumQuery(rep, s, records, f)
                    ELSE scalarQuery(s, records, f)
      all == IF rep = "datetime" /\ ladder # <<>>
             THEN <<scalarQuery(s, records, paramsForTimestampScenario(s, ladder, records))>>
             ELSE [i \in DOMAIN ladder |-> queryOf(ladder[i])]
  IN  IF s.op = "lookup" THEN <<>> ELSE SelectSeq(all, isBuildable)

-----------------------------------------------------------------------------
(***************************************************************************)
(* Comparing.  at is the order: ranks for the tester, instants for a       *)
(* server that compares timestamps.                                        *)
(***************************************************************************)
textOrder == [r \in Ranks |-> r]

serverOrder(rep) == IF rep = "datetime" THEN Instant ELSE textOrder

compare(op, a, b) ==
  CASE op = "eq" -> a = b [] op = "ne" -> a # b [] op = "gt" -> a > b
    [] op = "ge" -> a >= b [] op = "lt" -> a < b [] op = "le" -> a <= b

(* not(x le sentinel) is checked by the complement of its operator.        *)
satisfies(op, a, v) ==
  CASE op = "and" -> a > v /\ a < High
    [] op = "or" -> a > v \/ a < High
    [] op = "not" -> compare("gt", a, v)
    [] OTHER -> compare(op, a, v)

holds(rep, q, cell, at) ==
  CASE q.op \in {"asc", "desc"} -> TRUE
    [] rep \in Multis /\ q.op = "has" -> q.vals \subseteq cell
    [] rep \in Multis /\ q.op = "any" -> cell \cap q.vals # {}
    [] rep \in Multis /\ q.op = "all" -> cell \subseteq q.vals
    [] q.op = "in" \/ (rep \in Singles /\ q.op = "has") -> cell \subseteq q.vals
    [] OTHER -> \A a \in cell, v \in q.vals : satisfies(q.op, at[a], at[v])

isSorted(values, direction, at) ==
  \A i, j \in DOMAIN values :
    i < j => IF direction = "asc" THEN at[values[i]] <= at[values[j]]
             ELSE at[values[i]] >= at[values[j]]

(* The non-null values of a single-valued field, in the order given.       *)
column(rows, f) ==
  LET given == SelectSeq(rows, LAMBDA r : r[f] # {})
  IN  [i \in DOMAIN given |-> CHOOSE v \in given[i][f] : TRUE]

(* Null is neither an answer to a filter nor looked at in one.             *)
hasValue(rep, cell) == rep \in Multis \/ cell # {}

(* assertData: every record that has a value satisfies the query.          *)
assertData(rep, q, rows) ==
  IF q.op \in {"asc", "desc"} THEN isSorted(column(rows, q.field), q.op, textOrder)
  ELSE \A i \in DOMAIN rows :
         hasValue(rep, rows[i][q.field]) => holds(rep, q, rows[i][q.field], textOrder)

(***************************************************************************)
(* What an answer without records means.                                   *)
(***************************************************************************)
(* Mutant: one sampled value is taken for the whole resource.              *)
FaultyEmptyVerdict(rep, s, q, distinct, complete, pastness) ==
  IF s.op \in {"gt", "lt", "ne"} /\ s.arg # "now"
  THEN IF distinct >= 2 THEN "fail" ELSE "pass"
  ELSE IF s.op \in {"asc", "desc", "and", "or", "all"} THEN "skip" ELSE "fail"

emptyVerdict(rep, s, q, distinct, complete, pastness) ==
  LET ne == IF distinct >= 2 THEN "fail" ELSE IF distinct = 1 /\ complete THEN "pass" ELSE "skip"
  IN  CASE s.op \in {"asc", "desc", "and", "or"} -> "skip"
        [] s.op = "not" -> "fail"
        [] s.arg = "now" /\ s.op # "ne" ->
             (CASE pastness = "all-future" -> (IF complete THEN "pass" ELSE "skip")
                [] pastness = "no-values" -> "skip"
                [] OTHER -> "fail")
        [] s.arg = "now" -> "fail"
        [] s.op \in {"gt", "lt", "ne"} -> ne
        [] s.op = "all" \/ (rep = "FLAGS_ENUM" /\ s.arg = "two") ->
             (IF q.derived THEN "fail" ELSE "skip")
        [] OTHER -> "fail"

(* Wrong records of a single-valued enumeration's ne are a warning.        *)
isSingleEnumNe(rep, s) == rep = "SINGLE_ENUM" /\ s.op = "ne"

(* Whether a data type was met, for full coverage.                         *)
hasData(rep, records, named) == applyFieldOverrides(rep, records, named) # <<>>

(* Presence of the resource on the two surfaces, and with records.         *)
isCore21OrLater(version) == version = "2.1.0"

resolveServingDecision(kind, version, served, declared) ==
  IF ~isCore21OrLater(version) \/ kind = "unknown" \/ served # "absent" \/ declared # "absent"
  THEN "run" ELSE IF kind = "required" THEN "fail" ELSE "na"

resolveNoRecordsOutcome(kind, version, hasRecords) ==
  IF hasRecords \/ ~isCore21OrLater(version) THEN "run"
  ELSE IF kind = "required" THEN "fail" ELSE "na"

coreVerdict(failed, coverageFailed, deadlineReached) ==
  IF failed \/ coverageFailed THEN "failed"
  ELSE IF deadlineReached THEN "incomplete" ELSE "passed"
=============================================================================
