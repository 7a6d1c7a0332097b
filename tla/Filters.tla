------------------------------- MODULE Filters -------------------------------
(***************************************************************************)
(* Filters of growing size, and what the parser, the serializer and the    *)
(* three backends of the reference server make of each.  The parameters    *)
(* are the comparisons, functions and lambdas a filter is built from, and  *)
(* the tables it is tried on.                                              *)
(***************************************************************************)
EXTENDS FilterBackends

CONSTANTS Atoms,        \* filters without a logical operator
          Seeds,        \* what a filter is extended by
          Table,        \* the rows a filter is tried on
          Idle,         \* field -> its value where the filter does not mention it
          MaxOperators  \* bound: a filter with so many logical operators grows no more

VARIABLE filter

-----------------------------------------------------------------------------
(* Walking a filter.                                                        *)

Operands(e) ==
  CASE e.type \in {"comparison", "logical", "arithmetic"} -> {e.left, e.right}
    [] e.type = "not"        -> {e.operand}
    [] e.type = "function"   -> ToSet(e.args)
    [] e.type = "collection" -> ToSet(e.items)
    [] e.type = "lambda"     -> {e.source, e.predicate}
    [] OTHER                 -> {}

RECURSIVE Nodes(_)
Nodes(e) == {e} \cup UNION {Nodes(o) : o \in Operands(e)}

RECURSIVE Operators(_)
Operators(e) == CASE e.type = "logical" -> 1 + Operators(e.left) + Operators(e.right)
                  [] e.type = "not"     -> 1 + Operators(e.operand)
                  [] OTHER              -> 0

Mentioned(e) == {n.name : n \in {m \in Nodes(e) : m.type = "property"}}

SERVERS == {"postgres", "sqlite", "mongodb"}

\* Every table row that differs where the filter can tell.
Rows(e) == LET free == DOMAIN Idle \ Mentioned(e) IN {row \in Table : \A f \in free : row[f] = Idle[f]}

-----------------------------------------------------------------------------
Init == filter \in Atoms

Negate == /\ Operators(filter) < MaxOperators
          /\ filter' = Not(filter)
Extend == /\ Operators(filter) < MaxOperators
          /\ \E op \in LOGICAL_OPS, seed \in Seeds :
               filter' \in {Logical(op, filter, seed), Logical(op, seed, filter)}
Next == Negate \/ Extend

Spec == Init /\ [][Next]_filter

-----------------------------------------------------------------------------
(* What a filter means: the grammar of the comment in parser.ts, and        *)
(* three-valued logic, in which any() and all() find nothing in null and    *)
(* all() nothing in an empty collection, and the string tests do not look   *)
(* at the case of letters, on which the three translations agree.           *)

Level(e) == CASE e.type = "logical"    -> IF e.operator = "or" THEN 1 ELSE 2
              [] e.type = "not"        -> 3
              [] e.type = "comparison" -> 4
              [] e.type = "arithmetic" -> 5
              [] OTHER                 -> 6

\* The loosest operand a node can have on either side without parentheses.
LeftLevel(e)  == IF e.type = "comparison" THEN 5 ELSE Level(e)
RightLevel(e) == IF e.type = "comparison" THEN 5 ELSE Level(e) + 1

RECURSIVE Written(_, _)
Written(e, level) ==
  LET List(items) == InParentheses(Separated([i \in DOMAIN items |-> Written(items[i], 1)]))
      text == CASE e.type = "comparison" /\ e.operator = "in" ->
                     Written(e.left, LeftLevel(e)) \o <<Word("in")>> \o List(e.right.items)
                [] e.type \in {"logical", "arithmetic"} \/ (e.type = "comparison" /\ e.operator # "in") ->
                     Written(e.left, LeftLevel(e)) \o <<Word(e.operator)>> \o Written(e.right, RightLevel(e))
                [] e.type = "not"      -> <<Word("not")>> \o Written(e.operand, 3)
                [] e.type = "function" -> <<Word(e.name)>> \o List(e.args)
                [] e.type = "lambda"   ->
                     Written(e.source, 6) \o <<Mark("/"), Word(e.operator)>>
                       \o InParentheses(IF e.variable = "" THEN << >>
                                        ELSE <<Word(e.variable), Mark(":")>> \o Written(e.predicate, 1))
                [] OTHER               -> astToFilterString(e)
  IN  IF Level(e) < level THEN InParentheses(text) ELSE text

NeedsGrouping(e) ==
  \E n \in Nodes(e) : n.type \in {"comparison", "logical", "arithmetic"}
                      /\ (Level(n.left) < LeftLevel(n) \/ (n.operator # "in" /\ Level(n.right) < RightLevel(n)))

RECURSIVE Meaning(_, _)
Meaning(e, row) ==
  LET L == Meaning(e.left, row)
      R == Meaning(e.right, row)
      Bound(x) == Meaning(e.predicate, [v \in {e.variable} |-> x])
  IN  CASE e.type = "property" -> row[e.name]
        [] e.type = "literal"  -> ValueOf(e)
        [] e.type = "not"      -> Not3(Meaning(e.operand, row))
        [] e.type = "logical"  -> IF e.operator = "and" THEN And3(L, R) ELSE Or3(L, R)
        [] e.type = "arithmetic" -> Strict(L, R, LAMBDA x, y : Calculated(e.operator, x, y))
        [] e.type = "comparison" ->
             IF e.operator = "in"
             THEN Strict(L, TRUE, LAMBDA x, y : \E i \in DOMAIN e.right.items : x = ValueOf(e.right.items[i]))
             ELSE IF NullLiteral \in {e.left, e.right} THEN Compared(e.operator, L, R)
             ELSE Strict(L, R, LAMBDA x, y : Compared(e.operator, x, y))
        [] e.type = "function" -> LET arg == [i \in DOMAIN e.args |-> Meaning(e.args[i], row)] IN
             IF \E i \in DOMAIN arg : arg[i] = Null THEN Null
             ELSE (CASE e.name = "length"    -> Len(arg[1])
                     [] e.name = "indexof"   -> IndexOf(arg[1], arg[2])
                     [] e.name = "substring" -> Cut(arg[1], arg[2], IF Len(arg) = 3 THEN arg[3] ELSE Len(arg[1]))
                     [] e.name = "concat"    -> arg[1] \o arg[2]
                     [] OTHER                -> Fits(e.name, arg[1], arg[2]))
        [] e.type = "lambda"   -> LET elements == Meaning(e.source, row) IN
             Strict(TRUE, IF elements = Null THEN Null ELSE TRUE, LAMBDA x, y :
               /\ elements # {}
               /\ e.variable = "" \/ IF e.operator = "any" THEN \E el \in elements : Bound(el)
                                                           ELSE \A el \in elements : Bound(el))

-----------------------------------------------------------------------------
\* A lambda whose predicate begins with a minus sign: behind the colon the lexer takes
\* no minus for that of a number.
BeginsWithMinus(e) ==
  \E n \in Nodes(e) : n.type = "lambda" /\ n.variable # "" /\ Head(Written(n.predicate, 1)).class = "minus"

(* What text and tree make of each other.  Written with no more             *)
(* parentheses than precedence demands, a filter comes back from the parser *)
(* as the tree it was written from (parser.ts 88-362 over lexer.ts          *)
(* 230-411), unless a lambda's predicate begins with a minus sign: that the *)
(* lexer refuses.  The serializer (serializer.ts 10-49) writes no           *)
(* parentheses, so its text comes back exactly when, besides, the tree      *)
(* needs none.  The two exceptions are real: they contradict the round trip *)
(* the parser's guide promises (EveryFilterRoundTrips).                     *)
ComesBack(text) == LET result == parseFilter(text) IN result.ok /\ result.expr = filter
FiltersAreReadBack ==
  /\ ComesBack(Written(filter, 1)) <=> ~BeginsWithMinus(filter)
  /\ ComesBack(astToFilterString(filter)) <=> ~BeginsWithMinus(filter) /\ ~NeedsGrouping(filter)

\* Lambdas whose predicates are equalities, joined by and or by or; and a filter as the
\* translations take it, with or for every and of a lambda's predicate.
Equalities(e) == \A n \in Nodes(e) : n.type = "comparison" => n.operator = "eq"
OnlyEqualities == \A n \in Nodes(filter) : n.type = "lambda" => Equalities(n.predicate)

RECURSIVE AsChoice(_)
AsChoice(e) == IF e.type = "logical" THEN Logical("or", AsChoice(e.left), AsChoice(e.right)) ELSE e
RECURSIVE AsTranslated(_)
AsTranslated(e) ==
  CASE e.type = "lambda"  -> [e EXCEPT !.predicate = AsChoice(@)]
    [] e.type = "logical" -> Logical(e.operator, AsTranslated(e.left), AsTranslated(e.right))
    [] e.type = "not"     -> Not(AsTranslated(e.operand))
    [] OTHER              -> e

\* Rows without null in place of a collection, of which EXISTS makes no null.
CollectionsThere(db, rows) == {row \in rows : db = "sqlite" => \A f \in Collections : ~IsNull(row[f])}

(* What SQL selects.  The parentheses that filterToSql and filterToSqlite   *)
(* write keep the tree: both databases, reading the text by their own       *)
(* precedence, select the rows for which the filter is true, when every and *)
(* in a lambda's predicate is read as an or.  That reading is the           *)
(* translations' (filter-to-sql.ts 167-169, filter-to-sqlite.ts 152-154),   *)
(* not the language's, and contradicts the reference server's guide         *)
(* (LambdasMeanWhatTheySay); a lambda with another comparison than eq is    *)
(* refused.  Set aside is a null collection on SQLite.                      *)
SqlKeepsTheMeaning ==
  \A db \in {"postgres", "sqlite"} :
    \E rows \in {CollectionsThere(db, Rows(filter))} :
      Selected(db, filter, rows) =
        IF OnlyEqualities THEN {row \in rows : Meaning(AsTranslated(filter), AsSqlRow(row)) = TRUE} ELSE Thrown

(* The backends select alike, but for nulls: on rows without one whatever   *)
(* the filter, unless MongoDB's translation refuses it; and with nulls and  *)
(* missing fields, filters that negate nothing and compare fields with      *)
(* literals, which is what the handlers above them rely on.  Set aside are  *)
(* the tests that hold for an explicit null in place of a collection        *)
(* (filter-to-mongo.ts 128, 156).                                           *)
Native(e) ==
  \A n \in Nodes(e) :
    /\ n.type # "not"
    /\ n.type = "comparison" => n.left.type = "property" /\ isSimpleExpr(n.right)
                                  /\ n.right.type # "property"
OnlyNullsDiffer ==
  /\ \E rows \in {{row \in Rows(filter) : \A f \in DOMAIN row : ~IsNull(row[f])}} :
       \A a, b \in {<<db, Selected(db, filter, rows)>> : db \in SERVERS} :
         a[2] = b[2] \/ <<"mongodb", Thrown>> \in {a, b}
  /\ Native(filter) =>
       \E rows \in {{row \in Rows(filter) : \A f \in Collections : row[f] # Null}} :
         Cardinality({Selected(db, filter, rows) : db \in SERVERS}) = 1

(* What the guide of the parser promises (GUIDE.md 143) and serializer.ts   *)
(* 5-6 repeats: any filter survives the round trip.  It does not where the  *)
(* tree needs parentheses, nor, parentheses apart, behind a lambda's colon. *)
EveryFilterRoundTrips     == ComesBack(astToFilterString(filter))
UngroupedFiltersRoundTrip == ~NeedsGrouping(filter) => EveryFilterRoundTrips

(* What the guide of the reference server promises (GUIDE.md 149): the      *)
(* logical operators, and any and all on collections.  The predicate of a   *)
(* lambda with an and in it is answered as if it were an or.                *)
LambdasMeanWhatTheySay ==
  filter.type = "lambda" /\ Equalities(filter.predicate) =>
    \A db \in {"postgres", "sqlite"} :
      \E rows \in {CollectionsThere(db, Rows(filter))} :
        Selected(db, filter, rows) = {row \in rows : Meaning(filter, AsSqlRow(row)) = TRUE}

(* What the guide of the reference server promises (GUIDE.md 77): whatever  *)
(* the filter, the backends behave alike.  Nulls tell them apart.           *)
BackendsAgree == Cardinality({Selected(db, filter, Rows(filter)) : db \in SERVERS}) = 1
=============================================================================
