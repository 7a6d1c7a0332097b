---------------------------- MODULE FilterBackends ----------------------------
(***************************************************************************)
(* The three translations of a $filter in the reference server -- to       *)
(* PostgreSQL, SQLite and MongoDB -- and what the databases make of them.  *)
(*                                                                         *)
(* SQL is text: it is modelled as the words the code emits, with its       *)
(* parentheses, and read again by the precedence of the database's own     *)
(* grammar.  A parameter is its value.  A Mongo query is a document, and   *)
(* is modelled as one.  Left out are `has', division (its results are not  *)
(* whole numbers on every backend), and the functions other than those     *)
(* named here; `in' takes a list, as the grammar has it.                   *)
(***************************************************************************)
EXTENDS Integers, FiniteSets, FilterSyntax

CONSTANTS Null,         \* null
          Absent,       \* what MongoDB finds in place of a field a document lacks
          Thrown,       \* a translation or a query that ends in an error
          Collections   \* the fields that hold collections

ASSUME MarkersDiffer == Cardinality({Null, Absent, Thrown}) = 3

NumberOf == [t \in {"-1", "0", "1", "2", "3"} |->
               CASE t = "-1" -> -1 [] t = "0" -> 0 [] t = "1" -> 1 [] t = "2" -> 2 [] t = "3" -> 3]
ValueOf(literal) == CASE literal.dataType = "null"   -> Null
                      [] literal.dataType = "number" -> NumberOf[literal.value]
                      [] literal.dataType = "string" -> literal.value
IsLiteral(e) == e.type = "literal"

\* The values a lambda's predicate names; any other predicate is refused.
RECURSIVE extractValues(_)
extractValues(predicate) ==
  CASE predicate.type = "comparison" /\ predicate.operator = "eq"
         /\ (IsLiteral(predicate.left) \/ IsLiteral(predicate.right)) ->
         <<ValueOf(IF IsLiteral(predicate.left) THEN predicate.left ELSE predicate.right)>>
    [] predicate.type = "logical" ->
         extractValues(predicate.left) \o extractValues(predicate.right)
    [] OTHER -> <<Thrown>>
isEmptyLambda(e) == e.variable = "" /\ e.predicate = TrueLiteral

-----------------------------------------------------------------------------
(* The emitted SQL.                                                         *)

Op(op)  == [op |-> op]
Atom(a) == [atom |-> a]
FaultyBracketed(words) == words
Bracketed(words) == <<Op("(")>> \o words \o <<Op(")")>>

SQL_OPS == [eq |-> "=", ne |-> "!=", gt |-> ">", ge |-> ">=", lt |-> "<", le |-> "<=",
            add |-> "+", sub |-> "-", mul |-> "*", and |-> "AND", or |-> "OR"]

Refused == Op("refused")      \* the translation throws
One     == Atom(Literal("number", "1"))
STRING_TESTS == {"contains", "startswith", "endswith"}

\* Tests of a collection column: the database functions the code calls.
Column(test, field, values) == Atom([type |-> test, name |-> field, values |-> values])
HasElements(field) == <<Column("array_length", field, {}), Op(">"), Atom(Literal("number", "0"))>>

\* PostgreSQL compares arrays; SQLite looks through their elements.
lambdaToSql(e) ==
  LET field  == e.source.name
      vals   == extractValues(e.predicate)
      has(v) == Column("@>", field, {v})
  IN  IF isEmptyLambda(e) THEN HasElements(field)
      ELSE IF Thrown \in ToSet(vals) THEN <<Refused>>
      ELSE IF e.operator = "any"
      THEN IF Len(vals) = 1 THEN <<has(vals[1])>>
           ELSE Bracketed(FoldLeft(LAMBDA words, v : words \o <<Op("OR"), has(v)>>,
                                   <<has(Head(vals))>>, Tail(vals)))
      ELSE Bracketed(HasElements(field) \o <<Op("AND"), Column("<@", field, ToSet(vals))>>)

lambdaToSqlite(e) ==
  LET field == e.source.name
      vals  == ToSet(extractValues(e.predicate))
  IN  IF isEmptyLambda(e) THEN HasElements(field)
      ELSE IF Thrown \in vals THEN <<Refused>>
      ELSE IF e.operator = "any" THEN <<Column("EXISTS IN", field, vals)>>
      ELSE Bracketed(HasElements(field) \o <<Op("AND"), Op("NOT"), Column("EXISTS NOT IN", field, vals)>>)

RECURSIVE toSql(_, _)
comparisonToSql(db, e) ==
  LET nullTest == Op(IF e.operator = "eq" THEN "IS NULL" ELSE "IS NOT NULL")
  IN  IF e.right = NullLiteral THEN Append(toSql(db, e.left), nullTest)
      ELSE IF e.left = NullLiteral THEN Append(toSql(db, e.right), nullTest)
      ELSE IF e.operator = "in"
      THEN toSql(db, e.left) \o <<Op("IN"), Atom([type |-> "list",
             items |-> [i \in DOMAIN e.right.items |-> toSql(db, e.right.items[i])]])>>
      ELSE toSql(db, e.left) \o <<Op(SQL_OPS[e.operator])>> \o toSql(db, e.right)

\* functionToSql and functionToSqlite, given the SQL of the arguments.
functionToSql(e, args) ==
  CASE e.name = "length"    -> <<Atom([type |-> "LENGTH", args |-> args])>>
    [] e.name = "indexof"   -> Bracketed(<<Atom([type |-> "POSITION", args |-> args]), Op("-"), One>>)
    [] e.name = "substring" ->
         <<Atom([type |-> "SUBSTRING",
                 args |-> [args EXCEPT ![2] = Bracketed(args[2]) \o <<Op("+"), One>>]])>>
    [] e.name = "concat"    -> Bracketed(args[1] \o <<Op("||")>> \o args[2])
    [] e.name \in STRING_TESTS ->
         args[1] \o <<Op("LIKE"), Atom([type |-> e.name, args |-> <<args[2]>>])>>

\* filterToSql and filterToSqlite, which differ in their lambdas and in LIKE's name.
toSql(db, e) ==
  CASE e.type = "comparison" -> comparisonToSql(db, e)
    [] e.type \in {"logical", "arithmetic"} ->
         Bracketed(toSql(db, e.left) \o <<Op(SQL_OPS[e.operator])>> \o toSql(db, e.right))
    [] e.type = "not" -> <<Op("NOT")>> \o Bracketed(toSql(db, e.operand))
    [] e.type = "function" -> functionToSql(e, [i \in DOMAIN e.args |-> toSql(db, e.args[i])])
    [] e.type = "lambda" -> IF db = "sqlite" THEN lambdaToSqlite(e) ELSE lambdaToSql(e)
    [] OTHER -> <<Atom(e)>>

-----------------------------------------------------------------------------
(* What the SQL databases read in it (external).                            *)

\* Operators from loose to tight; those of one level group from the left.
Levels(db) ==
  IF db = "postgres"
  THEN <<{"OR"}, {"AND"}, {"NOT"}, {"IS NULL", "IS NOT NULL"}, {"=", "!=", "<", "<=", ">", ">="},
         {"IN", "LIKE"}, {"||"}, {"+", "-"}, {"*"}>>
  ELSE <<{"OR"}, {"AND"}, {"NOT"}, {"=", "!=", "IS NULL", "IS NOT NULL", "IN", "LIKE"},
         {"<", "<=", ">", ">="}, {"+", "-"}, {"*"}, {"||"}>>

PrefixLevel == 3              \* NOT stands in front of what it negates

IsOp(word, ops) == "op" \in DOMAIN word /\ word.op \in ops

\* The depth of parentheses in front of each word.
Depths(words) ==
  FoldLeft(LAMBDA ds, w : Append(ds, Last(ds) + (IF IsOp(w, {"("}) THEN 1 ELSE IF IsOp(w, {")"}) THEN -1 ELSE 0)),
           <<0>>, words)

RECURSIVE Reading(_, _)
Reading(db, words) ==
  LET depth  == Depths(words)
      At(ops) == {i \in DOMAIN words : depth[i] = 0 /\ IsOp(words[i], ops)}
      levels == {n \in DOMAIN Levels(db) : At(Levels(db)[n]) # {}}
      level  == CHOOSE n \in levels : \A m \in levels : n <= m
      places == At(Levels(db)[level])
      place  == IF level = PrefixLevel THEN Min(places) ELSE Max(places)
      op     == words[place].op
      Before == Reading(db, SubSeq(words, 1, place - 1))
      Behind == Reading(db, SubSeq(words, place + 1, Len(words)))
  IN  IF levels = {}
      THEN IF Len(words) = 1 THEN words[1] ELSE Reading(db, SubSeq(words, 2, Len(words) - 1))
      ELSE CASE op = "NOT"                      -> [op |-> op, args |-> <<Behind>>]
             [] op \in {"IS NULL", "IS NOT NULL"} -> [op |-> op, args |-> <<Before>>]
             [] OTHER                           -> [op |-> op, args |-> <<Before, Behind>>]

\* Three-valued logic.
And3(a, b) == IF FALSE \in {a, b} THEN FALSE ELSE IF Null \in {a, b} THEN Null ELSE TRUE
Not3(a)    == IF a = Null THEN Null ELSE ~a
Or3(a, b)  == Not3(And3(Not3(a), Not3(b)))
Compared(op, a, b) == CASE op \in {"=", "eq", "$eq"}    -> a = b
                        [] op \in {"!=", "ne", "$ne"}   -> a # b
                        [] op \in {">", "gt", "$gt"}    -> a > b
                        [] op \in {">=", "ge", "$gte"}  -> a >= b
                        [] op \in {"<", "lt", "$lt"}    -> a < b
                        [] op \in {"<=", "le", "$lte"}  -> a <= b
Calculated(op, a, b) == CASE op \in {"+", "add", "$add"} -> a + b
                          [] op \in {"-", "sub", "$subtract"} -> a - b
                          [] op \in {"*", "mul", "$multiply"} -> a * b
                          [] op \in {"||", "$concat"}         -> a \o b
Strict(a, b, Result(_, _)) == IF Null \in {a, b} THEN Null ELSE Result(a, b)

\* Texts: the place of a part, from 0 on; what stands from a place on.
Occurs(text, part, i) == i + Len(part) <= Len(text) /\ SubSeq(text, i + 1, i + Len(part)) = part
IndexOf(text, part) ==
  LET places == {i \in 0..Len(text) : Occurs(text, part, i)}
  IN  IF places = {} THEN -1 ELSE Min(places)
Cut(text, from, length) == SubSeq(text, from + 1, Min({from + length, Len(text)}))

\* Whether a text matches the pattern of a string function.  The case of letters does
\* not count: ILIKE, SQLite's LIKE and the option i of a regular expression ignore it.
Small == [c \in {"a", "b", "A", "B"} |-> CASE c = "A" -> "a" [] c = "B" -> "b" [] OTHER -> c]
LowerCase(text) == FoldLeft(LAMBDA t, i : t \o Small[SubSeq(text, i, i)], "", [i \in 1..Len(text) |-> i])
Fits(name, text, part) ==
  \E i \in 0..Len(text) : /\ Occurs(LowerCase(text), LowerCase(part), i)
                          /\ name = "startswith" => i = 0
                          /\ name = "endswith"   => i + Len(part) = Len(text)

\* The value of a column or function: null in, null out, except for EXISTS over the
\* elements of a null column, of which there are none.
columnValue(test, column, values) ==
  CASE test \in {"EXISTS IN", "EXISTS NOT IN"} ->
         \E x \in (IF column = Null THEN {} ELSE column) : (x \in values) <=> (test = "EXISTS IN")
    [] test = "array_length" -> IF column = Null THEN Null ELSE Cardinality(column)
    [] test = "@>"           -> IF column = Null THEN Null ELSE values \subseteq column
    [] test = "<@"           -> IF column = Null THEN Null ELSE column \subseteq values

RECURSIVE SqlValue(_, _, _)
atomValue(db, a, row) ==
  CASE a.type = "literal"  -> ValueOf(a)
    [] a.type = "property" -> row[a.name]
    [] a.type \in {"LENGTH", "POSITION", "SUBSTRING"} ->
         LET arg == [i \in DOMAIN a.args |-> SqlValue(db, Reading(db, a.args[i]), row)]
         IN  IF \E i \in DOMAIN arg : arg[i] = Null THEN Null
             ELSE IF a.type = "LENGTH" THEN Len(arg[1])
             ELSE IF a.type = "POSITION" THEN IndexOf(arg[1], arg[2]) + 1
             ELSE Cut(arg[1], arg[2] - 1, IF Len(arg) = 3 THEN arg[3] ELSE Len(arg[1]))
    [] OTHER               -> columnValue(a.type, row[a.name], a.values)

SqlValue(db, tree, row) ==
  LET Arg(i) == SqlValue(db, tree.args[i], row) IN
  IF "atom" \in DOMAIN tree THEN atomValue(db, tree.atom, row)
  ELSE CASE tree.op = "OR"          -> Or3(Arg(1), Arg(2))
         [] tree.op = "AND"         -> And3(Arg(1), Arg(2))
         [] tree.op = "NOT"         -> Not3(Arg(1))
         [] tree.op = "IS NULL"     -> Arg(1) = Null
         [] tree.op = "IS NOT NULL" -> Arg(1) # Null
         [] tree.op = "IN"          -> LET items == tree.args[2].atom.items IN
              FoldLeft(LAMBDA found, i :
                         Or3(found, Strict(Arg(1), SqlValue(db, Reading(db, items[i]), row),
                                           LAMBDA x, y : x = y)),
                       FALSE, [i \in DOMAIN items |-> i])
         [] tree.op = "LIKE"        -> LET pattern == tree.args[2].atom IN
              Strict(Arg(1), SqlValue(db, Reading(db, pattern.args[1]), row),
                     LAMBDA text, part : Fits(pattern.type, text, part))
         [] tree.op \in {"+", "-", "*", "||"} -> Strict(Arg(1), Arg(2), LAMBDA x, y : Calculated(tree.op, x, y))
         [] OTHER                   -> Strict(Arg(1), Arg(2), LAMBDA x, y : Compared(tree.op, x, y))

-----------------------------------------------------------------------------
(* filterToMongo.  A document is a test of a field, a combination of        *)
(* documents, or an aggregation expression under $expr.                     *)

Test(field, op, arg) == [field |-> field, test |-> op, arg |-> arg]
Combined(op, docs)   == [docs |-> docs, op |-> op]
Expr(aggregation)    == [expr |-> aggregation]
Aggregation(op, args) == [op |-> op, args |-> args]
Throws               == [throws |-> TRUE]

MONGO_OPS == [eq |-> "$eq", ne |-> "$ne", gt |-> "$gt", ge |-> "$gte", lt |-> "$lt", le |-> "$lte",
              add |-> "$add", sub |-> "$subtract", mul |-> "$multiply", and |-> "$and", or |-> "$or"]
MONGO_FUNCTIONS == [length |-> "$strLenCP", indexof |-> "$indexOfCP", substring |-> "$substrCP",
                    concat |-> "$concat"]
Rest == 10000                 \* the length of what is left, where none is given
isSimpleExpr(e) == e.type \in {"property", "literal", "collection"}

RECURSIVE toExpr(_)
toExpr(e) ==
  CASE e.type = "property"   -> [path |-> e.name]
    [] e.type = "literal"    -> [value |-> ValueOf(e)]
    [] e.type = "not"        -> Aggregation("$not", <<toExpr(e.operand)>>)
    [] e.type = "function" /\ e.name \in STRING_TESTS ->
         IF IsLiteral(e.args[2]) THEN Aggregation("$regexMatch", <<toExpr(e.args[1]), [regex |-> e]>>)
                                 ELSE Throws
    [] e.type = "function" /\ e.name \notin STRING_TESTS ->
         LET args == [i \in DOMAIN e.args |-> toExpr(e.args[i])] IN
         Aggregation(MONGO_FUNCTIONS[e.name],
                     IF e.name = "substring" /\ Len(args) = 2 THEN Append(args, [value |-> Rest]) ELSE args)
    [] e.type = "comparison" /\ e.operator = "in" ->
         Aggregation("$in", <<toExpr(e.left), [i \in DOMAIN e.right.items |-> toExpr(e.right.items[i])]>>)
    [] e.type = "lambda"     -> Throws
    [] OTHER -> Aggregation(MONGO_OPS[e.operator], <<toExpr(e.left), toExpr(e.right)>>)

\* `ne' leaves null out, as SQL's != does.
FaultyNeQuery(field, value) == Test(field, "$ne", value)
neQuery(field, value) == Test(field, "$nin", {value, Null})

\* comparisonToNativeQuery; getPropertyName and toLiteralValue refuse anything else.
comparisonToNativeQuery(e) ==
  LET nullTest(f) == Test(f, IF e.operator = "eq" THEN "$eq" ELSE "$ne", Null)
  IN  IF e.right = NullLiteral
      THEN IF e.left.type = "property" THEN nullTest(e.left.name) ELSE Throws
      ELSE IF e.left = NullLiteral
      THEN IF e.right.type = "property" THEN nullTest(e.right.name) ELSE Throws
      ELSE IF e.left.type # "property" THEN Throws
      ELSE IF e.operator = "in"
      THEN IF \A i \in DOMAIN e.right.items : IsLiteral(e.right.items[i])
           THEN Test(e.left.name, "$in", {ValueOf(e.right.items[i]) : i \in DOMAIN e.right.items})
           ELSE Throws
      ELSE IF ~IsLiteral(e.right) THEN Throws
      ELSE IF e.operator = "ne" THEN neQuery(e.left.name, ValueOf(e.right))
      ELSE Test(e.left.name, MONGO_OPS[e.operator], ValueOf(e.right))

FaultyLambdaToQuery(e) ==      \* all() as $all, which asks for a superset
  LET vals == extractValues(e.predicate)
  IN  Combined(IF e.operator = "all" THEN "$and" ELSE "$or",
               [i \in DOMAIN vals |-> Test(e.source.name, "$eq", vals[i])])
lambdaToQuery(e) ==
  LET field == e.source.name
      vals  == extractValues(e.predicate)
  IN  IF isEmptyLambda(e)
      THEN Combined("$and", <<Test(field, "$exists", TRUE), Test(field, "$not $size", 0)>>)
      ELSE IF Thrown \in ToSet(vals) THEN Throws
      ELSE IF e.operator = "any"
      THEN IF Len(vals) = 1 THEN Test(field, "$eq", vals[1]) ELSE Test(field, "$in", ToSet(vals))
      ELSE Combined("$and", <<Test(field, "$exists", TRUE), Test(field, "$not $size", 0),
                              Test(field, "$not $elemMatch $nin", ToSet(vals))>>)

RECURSIVE toQuery(_)
toQuery(e) ==
  CASE e.type = "comparison" ->
         LET direct(x) == isSimpleExpr(x) \/ x.type = "comparison"
         IN  IF direct(e.left) /\ direct(e.right) THEN comparisonToNativeQuery(e) ELSE Expr(toExpr(e))
    [] e.type = "logical"  -> Combined(MONGO_OPS[e.operator], <<toQuery(e.left), toQuery(e.right)>>)
    [] e.type = "not"      -> Combined("$nor", <<toQuery(e.operand)>>)
    [] e.type = "lambda"   -> lambdaToQuery(e)
    [] e.type = "function" ->
         IF e.name \notin STRING_TESTS THEN Expr(toExpr(e))
         ELSE IF e.args[1].type = "property" /\ IsLiteral(e.args[2])
         THEN Test(e.args[1].name, "$regex", [name |-> e.name, part |-> ValueOf(e.args[2])])
         ELSE Throws
    [] OTHER               -> Throws

-----------------------------------------------------------------------------
(* What MongoDB makes of it (external).                                     *)

IsNull(v) == v \in {Null, Absent}

\* A test of a field: a collection is matched by its elements, and null is matched by
\* null and by a missing field only.
Passes(row, field, op, arg) ==
  LET v == row[field]
      holds(values) == IF IsNull(v) THEN Null \in values
                       ELSE IF field \in Collections THEN v \cap values # {} ELSE v \in values
  IN  CASE op = "$eq"        -> holds({arg})
        [] op = "$ne"        -> ~holds({arg})
        [] op = "$in"        -> holds(arg)
        [] op = "$nin"       -> ~holds(arg)
        [] op = "$exists"    -> v # Absent
        [] op = "$not $size" -> IsNull(v) \/ v # {}
        [] op = "$not $elemMatch $nin" -> IsNull(v) \/ v \subseteq arg
        [] op = "$regex"     -> ~IsNull(v) /\ Fits(arg.name, v, arg.part)
        [] OTHER             -> ~IsNull(v) /\ Compared(op, v, arg)

\* The order of an aggregation puts what is missing before null and null before numbers.
Before(a, b) == IF Absent \in {a, b} THEN b # Absent /\ a = Absent
                ELSE IF Null \in {a, b} THEN b # Null /\ a = Null
                ELSE a < b
Ordered(op, a, b) == CASE op = "$eq"  -> a = b
                       [] op = "$ne"  -> a # b
                       [] op = "$lt"  -> Before(a, b)
                       [] op = "$gt"  -> Before(b, a)
                       [] op = "$lte" -> ~Before(b, a)
                       [] op = "$gte" -> ~Before(a, b)
Truthy(v) == v # FALSE /\ ~IsNull(v)

RECURSIVE Computed(_, _)
Computed(a, row) ==
  LET Arg(i)  == Computed(a.args[i], row)
      failing == \E i \in DOMAIN a.args : Arg(i) = Thrown
  IN  CASE "path" \in DOMAIN a  -> row[a.path]
        [] "value" \in DOMAIN a -> a.value
        [] "throws" \in DOMAIN a -> Thrown
        [] "op" \in DOMAIN a ->
             IF a.op = "$regexMatch"
             THEN ~IsNull(Arg(1)) /\ Fits(a.args[2].regex.name, Arg(1), ValueOf(a.args[2].regex.args[2]))
             ELSE IF a.op = "$in" THEN \E i \in DOMAIN a.args[2] : Arg(1) = Computed(a.args[2][i], row)
             ELSE IF failing THEN Thrown
             ELSE CASE a.op = "$strLenCP" -> IF IsNull(Arg(1)) THEN Thrown ELSE Len(Arg(1))
                    [] a.op = "$not"      -> ~Truthy(Arg(1))
                    [] a.op = "$and"      -> Truthy(Arg(1)) /\ Truthy(Arg(2))
                    [] a.op = "$or"       -> Truthy(Arg(1)) \/ Truthy(Arg(2))
                    [] a.op = "$substrCP" -> IF IsNull(Arg(1)) THEN "" ELSE Cut(Arg(1), Arg(2), Arg(3))
                    [] a.op \in {"$add", "$subtract", "$multiply", "$concat", "$indexOfCP"} ->
                         IF IsNull(Arg(1)) \/ IsNull(Arg(2)) THEN Null
                         ELSE IF a.op = "$indexOfCP" THEN IndexOf(Arg(1), Arg(2))
                         ELSE Calculated(a.op, Arg(1), Arg(2))
                    [] OTHER              -> Ordered(a.op, Arg(1), Arg(2))

RECURSIVE Matches(_, _)
Matches(doc, row) ==
  LET Of(i) == Matches(doc.docs[i], row) IN
  CASE "throws" \in DOMAIN doc -> Thrown
    [] "test" \in DOMAIN doc   -> Passes(row, doc.field, doc.test, doc.arg)
    [] "expr" \in DOMAIN doc   -> LET v == Computed(doc.expr, row) IN IF v = Thrown THEN Thrown ELSE Truthy(v)
    [] "docs" \in DOMAIN doc   ->
         IF \E i \in DOMAIN doc.docs : Of(i) = Thrown THEN Thrown
         ELSE CASE doc.op = "$and" -> \A i \in DOMAIN doc.docs : Of(i)
                [] doc.op = "$or"  -> \E i \in DOMAIN doc.docs : Of(i)
                [] doc.op = "$nor" -> ~\E i \in DOMAIN doc.docs : Of(i)

-----------------------------------------------------------------------------
\* The rows a backend selects, of a table that has these rows; an error on one row is
\* an error of the query.
AsSqlRow(row) == [f \in DOMAIN row |-> IF row[f] = Absent THEN Null ELSE row[f]]

Selected(backend, e, rows) ==
  IF backend = "mongodb"
  THEN LET doc == toQuery(e)
           verdicts == {<<row, Matches(doc, row)>> : row \in rows}
       IN  IF \E v \in verdicts : v[2] = Thrown THEN Thrown ELSE {v[1] : v \in {w \in verdicts : w[2]}}
  ELSE LET words == toSql(backend, e) IN
       IF Refused \in ToSet(words) THEN Thrown
       ELSE LET tree == Reading(backend, words)
            IN  {row \in rows : SqlValue(backend, tree, AsSqlRow(row)) = TRUE}
=============================================================================
