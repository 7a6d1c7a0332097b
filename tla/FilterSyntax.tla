---------------------------- MODULE FilterSyntax ----------------------------
(***************************************************************************)
(* The $filter grammar of odata-expression-parser: lexer, recursive-       *)
(* descent parser and serializer, as operators.                            *)
(*                                                                         *)
(* A filter text is the sequence of its lexemes, that is of the stretches  *)
(* between which the lexer's regular expressions cut; the characters of    *)
(* one are abstracted to its class and its value.  Dates, durations, guids *)
(* and enumeration members are literals like any other and are left out,   *)
(* and so is the position that an error message names.                     *)
(***************************************************************************)
EXTENDS Naturals, SequencesExt

-----------------------------------------------------------------------------
(* The nodes of types.ts.  Values are strings throughout, so that any two   *)
(* nodes can be compared.                                                   *)

Property(name)           == [type |-> "property", name |-> name]
Literal(dataType, value) == [type |-> "literal", dataType |-> dataType, value |-> value]
Operation(type, op, l, r) == [type |-> type, operator |-> op, left |-> l, right |-> r]
Comparison(op, l, r)     == Operation("comparison", op, l, r)
Logical(op, l, r)        == Operation("logical", op, l, r)
Arithmetic(op, l, r)     == Operation("arithmetic", op, l, r)
Not(e)                   == [type |-> "not", operand |-> e]
Call(name, args)         == [type |-> "function", name |-> name, args |-> args]
Collection(items)        == [type |-> "collection", items |-> items]
Lambda(op, variable, source, predicate) ==
  [type |-> "lambda", operator |-> op, variable |-> variable, source |-> source,
   predicate |-> predicate]

NullLiteral == Literal("null", "null")
TrueLiteral == Literal("boolean", "true")

-----------------------------------------------------------------------------
(* Lexer.                                                                   *)

Word(text)   == [class |-> "word", text |-> text]
Mark(text)   == [class |-> "mark", text |-> text]
Quoted(text) == [class |-> "quoted", text |-> text]
Number(text) == [class |-> "number", text |-> text]      \* digits
Minus(text)  == [class |-> "minus", text |-> text]       \* digits behind a "-"

COMPARISON_OPS == {"eq", "ne", "gt", "ge", "lt", "le", "has", "in"}
LOGICAL_OPS    == {"and", "or"}
ARITHMETIC_OPS == {"add", "sub", "mul", "div", "mod", "divby"}
LAMBDA_OPS     == {"any", "all"}
markType ==
  [m \in {"(", ")", ",", ":", "/"} |->
     CASE m = "(" -> "lparen" [] m = ")" -> "rparen" [] m = "," -> "comma"
       [] m = ":" -> "colon"  [] m = "/" -> "slash"]

\* What makes the word "in" an operator, and what a "-" must follow.
isAfterValue(last) ==
  last \in {"property", "literal_string", "literal_number", "literal_boolean",
            "literal_null", "rparen"}
isAfterOperator(last) ==
  last \in {"start", "comparison_op", "logical_op", "arithmetic_op", "not_op", "lparen", "comma"}

\* readWord: the class of a word, from the token before it and whether a "(" follows.
wordType(word, last, opens) ==
  CASE word = "null"                            -> "literal_null"
    [] word \in {"true", "false"}               -> "literal_boolean"
    [] word = "not"                             -> "not_op"
    [] word = "in" /\ ~isAfterValue(last)       -> IF opens THEN "function" ELSE "property"
    [] word \in COMPARISON_OPS /\ ~(word = "in" /\ ~isAfterValue(last)) -> "comparison_op"
    [] word \in LOGICAL_OPS                     -> "logical_op"
    [] word \in ARITHMETIC_OPS                  -> "arithmetic_op"
    [] word \in LAMBDA_OPS /\ (last = "slash" \/ opens) -> "lambda_op"
    [] OTHER                                    -> IF opens THEN "function" ELSE "property"

Token(type, value) == [type |-> type, value |-> value]

\* The token of one lexeme; an "error" is the LexerError of a "-" in the wrong place.
tokenOf(lexeme, last, opens) ==
  Token(CASE lexeme.class = "quoted" -> "literal_string"
          [] lexeme.class = "number" -> "literal_number"
          [] lexeme.class = "minus"  -> IF isAfterOperator(last) THEN "literal_number" ELSE "error"
          [] lexeme.class = "mark"   -> markType[lexeme.text]
          [] lexeme.class = "word"   -> wordType(lexeme.text, last, opens),
        lexeme.text)

tokenize(text) ==
  FoldLeft(LAMBDA tokens, i :
             Append(tokens, tokenOf(text[i],
                                    IF tokens = << >> THEN "start" ELSE Last(tokens).type,
                                    i < Len(text) /\ text[i + 1] = Mark("("))),
           << >>, [i \in 1..Len(text) |-> i])

-----------------------------------------------------------------------------
(* Parser.  A rule takes the tokens and a position and gives the node it    *)
(* read and the position behind it; a ParseError ends every rule around it. *)

Parsed(expr, pos) == [ok |-> TRUE, expr |-> expr, pos |-> pos]
ParseError        == [ok |-> FALSE]
Then(result, Rest(_)) == IF result.ok THEN Rest(result) ELSE result

peek(tokens, pos) == IF pos <= Len(tokens) THEN tokens[pos].type ELSE "end"

\* expect(): the result with its position behind a token of this type.
expect(tokens, result, type) ==
  Then(result, LAMBDA r : IF peek(tokens, r.pos) = type THEN [r EXCEPT !.pos = @ + 1]
                                                        ELSE ParseError)

RECURSIVE parseOrExpr(_, _), parseAndExpr(_, _), parseNotExpr(_, _), parsePrimaryExpr(_, _),
          moreOr(_, _), moreAnd(_, _), moreArithmetic(_, _), parsePath(_, _), parseItems(_, _, _)

\* An operator of this kind stands at pos; the node of it and of its two operands.
continues(tokens, pos, type, operators) ==
  peek(tokens, pos) = type /\ tokens[pos].value \in operators
joined(node, op, left, right) ==
  Then(right, LAMBDA r : Parsed(Operation(node, op, left.expr, r.expr), r.pos))

\* The while loops of the three left-associative rules.
moreOr(tokens, result) ==
  Then(result, LAMBDA l :
    IF continues(tokens, l.pos, "logical_op", {"or"})
    THEN moreOr(tokens, joined("logical", "or", l, parseAndExpr(tokens, l.pos + 1)))
    ELSE l)
moreAnd(tokens, result) ==
  Then(result, LAMBDA l :
    IF continues(tokens, l.pos, "logical_op", {"and"})
    THEN moreAnd(tokens, joined("logical", "and", l, parseNotExpr(tokens, l.pos + 1)))
    ELSE l)
moreArithmetic(tokens, result) ==
  Then(result, LAMBDA l :
    IF continues(tokens, l.pos, "arithmetic_op", ARITHMETIC_OPS)
    THEN moreArithmetic(tokens,
           joined("arithmetic", tokens[l.pos].value, l, parsePrimaryExpr(tokens, l.pos + 1)))
    ELSE l)

parseOrExpr(tokens, pos) == moreOr(tokens, parseAndExpr(tokens, pos))
FaultyParseAndExpr(tokens, pos) ==      \* groups what follows an `and' first
  Then(parseNotExpr(tokens, pos), LAMBDA l :
    IF continues(tokens, l.pos, "logical_op", {"and"})
    THEN joined("logical", "and", l, parseAndExpr(tokens, l.pos + 1))
    ELSE l)
parseAndExpr(tokens, pos) == moreAnd(tokens, parseNotExpr(tokens, pos))
parseArithmeticExpr(tokens, pos) == moreArithmetic(tokens, parsePrimaryExpr(tokens, pos))

\* [ expr ( ',' expr )* ] ')' : the items of a list or of a call, from `pos' on.
parseItems(tokens, items, pos) ==
  IF items = << >> /\ peek(tokens, pos) = "rparen"
  THEN Parsed(items, pos + 1)
  ELSE Then(parseOrExpr(tokens, pos), LAMBDA item :
         IF peek(tokens, item.pos) = "comma"
         THEN parseItems(tokens, Append(items, item.expr), item.pos + 1)
         ELSE expect(tokens, Parsed(Append(items, item.expr), item.pos), "rparen"))

parseComparisonExpr(tokens, pos) ==
  Then(parseArithmeticExpr(tokens, pos), LAMBDA l :
    IF peek(tokens, l.pos) # "comparison_op" THEN l
    ELSE LET op == tokens[l.pos].value IN
         IF op = "in"
         THEN Then(expect(tokens, Parsed(l.expr, l.pos + 1), "lparen"), LAMBDA o :
                Then(parseItems(tokens, << >>, o.pos), LAMBDA items :
                  Parsed(Comparison(op, l.expr, Collection(items.expr)), items.pos)))
         ELSE Then(parseArithmeticExpr(tokens, l.pos + 1), LAMBDA r :
                Parsed(Comparison(op, l.expr, r.expr), r.pos)))

parseNotExpr(tokens, pos) ==
  IF peek(tokens, pos) = "not_op"
  THEN Then(parseNotExpr(tokens, pos + 1), LAMBDA e : Parsed(Not(e.expr), e.pos))
  ELSE parseComparisonExpr(tokens, pos)

\* From behind any or all on: '(' [ variable ':' predicate ] ')'.
parseLambda(tokens, op, source, pos) ==
  Then(expect(tokens, Parsed(source, pos), "lparen"), LAMBDA o :
    IF peek(tokens, o.pos) = "rparen" THEN Parsed(Lambda(op, "", source, TrueLiteral), o.pos + 1)
    ELSE IF peek(tokens, o.pos) # "property" \/ peek(tokens, o.pos + 1) # "colon" THEN ParseError
    ELSE expect(tokens,
           Then(parseOrExpr(tokens, o.pos + 2), LAMBDA p :
             Parsed(Lambda(op, tokens[o.pos].value, source, p.expr), p.pos)),
           "rparen"))

\* The segments behind a property: lambdas, and names that extend its path.
parsePath(tokens, result) ==
  Then(result, LAMBDA r :
    IF peek(tokens, r.pos) # "slash" THEN r
    ELSE CASE peek(tokens, r.pos + 1) = "lambda_op" ->
                parsePath(tokens, parseLambda(tokens, tokens[r.pos + 1].value, r.expr, r.pos + 2))
           [] peek(tokens, r.pos + 1) = "property" /\ r.expr.type = "property" ->
                parsePath(tokens, Parsed(Property(r.expr.name \o "/" \o tokens[r.pos + 1].value), r.pos + 2))
           [] OTHER -> ParseError)

parsePrimaryExpr(tokens, pos) ==
  LET type == peek(tokens, pos) IN
  CASE type = "function" ->
         Then(expect(tokens, Parsed(tokens[pos].value, pos + 1), "lparen"), LAMBDA o :
           Then(parseItems(tokens, << >>, o.pos), LAMBDA args :
             Parsed(Call(tokens[pos].value, args.expr), args.pos)))
    [] type = "lparen"          -> expect(tokens, parseOrExpr(tokens, pos + 1), "rparen")
    [] type = "literal_string"  -> Parsed(Literal("string", tokens[pos].value), pos + 1)
    [] type = "literal_number"  -> Parsed(Literal("number", tokens[pos].value), pos + 1)
    [] type = "literal_boolean" -> Parsed(Literal("boolean", tokens[pos].value), pos + 1)
    [] type = "literal_null"    -> Parsed(NullLiteral, pos + 1)
    [] type = "property"        -> parsePath(tokens, Parsed(Property(tokens[pos].value), pos + 1))
    [] OTHER                    -> ParseError

parseFilter(text) ==
  LET tokens == tokenize(text) IN
  IF tokens = << >> \/ \E i \in DOMAIN tokens : tokens[i].type = "error" THEN ParseError
  ELSE Then(parseOrExpr(tokens, 1), LAMBDA r : IF r.pos <= Len(tokens) THEN ParseError ELSE r)

-----------------------------------------------------------------------------
(* Serializer.                                                              *)

NegativeNumbers == {"-1"}

literalLexeme(l) ==
  CASE l.dataType = "string" -> Quoted(l.value)
    [] l.dataType = "number" -> IF l.value \in NegativeNumbers THEN Minus(l.value) ELSE Number(l.value)
    [] OTHER                 -> Word(l.value)

Separated(texts) ==
  FoldLeft(LAMBDA t, i : IF i = 1 THEN texts[1] ELSE t \o <<Mark(",")>> \o texts[i],
           << >>, [i \in DOMAIN texts |-> i])
InParentheses(text) == <<Mark("(")>> \o text \o <<Mark(")")>>

RECURSIVE astToFilterString(_)
astToFilterString(e) ==
  CASE e.type = "comparison" /\ e.operator = "in" ->
         astToFilterString(e.left) \o <<Word("in")>>
           \o InParentheses(Separated([i \in DOMAIN e.right.items |-> astToFilterString(e.right.items[i])]))
    [] e.type \in {"logical", "arithmetic"} \/ (e.type = "comparison" /\ e.operator # "in") ->
         astToFilterString(e.left) \o <<Word(e.operator)>> \o astToFilterString(e.right)
    [] e.type = "not"      -> <<Word("not")>> \o InParentheses(astToFilterString(e.operand))
    [] e.type = "function" ->
         <<Word(e.name)>> \o InParentheses(Separated([i \in DOMAIN e.args |-> astToFilterString(e.args[i])]))
    [] e.type = "lambda"   ->
         astToFilterString(e.source) \o <<Mark("/"), Word(e.operator)>>
           \o InParentheses(IF e.variable = "" THEN << >>
                            ELSE <<Word(e.variable), Mark(":")>> \o astToFilterString(e.predicate))
    [] e.type = "literal"  -> <<literalLexeme(e)>>
    [] e.type = "property" -> <<Word(e.name)>>
=============================================================================
