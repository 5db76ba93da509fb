------------------------------ MODULE SqlParser ------------------------------
(***************************************************************************)
(* PrattParser and SqlParser.  A parser reads a sequence of tokens ts from *)
(* position i on, and returns an expression and the position after it.     *)
(* The expression is None at the end of the tokens, and Failed where the   *)
(* parser panics.                                                          *)
(***************************************************************************)
EXTENDS SqlTokenizer

CONSTANT HalfInt    \* an i32 is in -HalfInt..(HalfInt - 1)

ASSUME IntAssumption == HalfInt \in Nat \ {0}

-------------------------------------------------------------------------------
(* The syntax tree.  A LIMIT is a sequence of one number, or of none. *)

Identifier(id) == [node |-> "identifier", id |-> id]
StringLit(content) == [node |-> "string", content |-> content]
Long(n) == [node |-> "long", n |-> n]
DoubleLit(value) == [node |-> "double", value |-> value]
DateLit(content) == [node |-> "date", content |-> content]
IntervalLit(content) == [node |-> "interval", content |-> content]
BinaryExpr(l, op, r) == [node |-> "binary", l |-> l, op |-> op, r |-> r]
Function(id, args) == [node |-> "function", id |-> id, args |-> args]
Alias(expr, name) == [node |-> "alias", expr |-> expr, alias |-> name]
Cast(expr, data_type) == [node |-> "cast", expr |-> expr, data_type |-> data_type]
Sort(expr, asc) == [node |-> "sort", expr |-> expr, asc |-> asc]

Select(projection, table_name, selection, group_by, having, order_by, limit) ==
    [node |-> "select", projection |-> projection, table_name |-> table_name,
     selection |-> selection, group_by |-> group_by, having |-> having,
     order_by |-> order_by, limit |-> limit]

None == [node |-> "none"]
Failed == [node |-> "failed"]

Parsed(expr, i) == [expr |-> expr, i |-> i]
Panics == Parsed(Failed, 0)
Fails(parsed) == parsed.i = 0

-------------------------------------------------------------------------------
(* TokenStream. *)

IsSymbol(ts, i, texts) == i \in DOMAIN ts /\ ts[i].kind = "symbol" /\ ts[i].text \in texts
IsKeyword(ts, i, names) ==
    i \in DOMAIN ts /\ ts[i].kind = "keyword" /\ to_uppercase(ts[i].text) \in names

consume_keywords(ts, i, names) ==
    \A k \in DOMAIN names : IsKeyword(ts, i + k - 1, {names[k]})

-------------------------------------------------------------------------------
(* Precedences. *)

Comparing == {"<", "<=", "=", "!=", ">=", ">"}
Adding == {"+", "-"}
Multiplying == {"*", "/"}

\* Mutant: AND and OR bind alike.
next_precedence_Flat(ts, i) ==
    CASE IsKeyword(ts, i, {"AS", "ASC", "DESC"}) -> 10
      [] IsKeyword(ts, i, {"OR", "AND"}) -> 20
      [] IsSymbol(ts, i, Comparing) -> 40
      [] IsSymbol(ts, i, Adding) -> 50
      [] IsSymbol(ts, i, Multiplying) -> 60
      [] IsSymbol(ts, i, {"("}) -> 70
      [] OTHER -> 0

next_precedence(ts, i) ==
    CASE IsKeyword(ts, i, {"AS", "ASC", "DESC"}) -> 10
      [] IsKeyword(ts, i, {"OR"}) -> 20
      [] IsKeyword(ts, i, {"AND"}) -> 30
      [] IsSymbol(ts, i, Comparing) -> 40
      [] IsSymbol(ts, i, Adding) -> 50
      [] IsSymbol(ts, i, Multiplying) -> 60
      [] IsSymbol(ts, i, {"("}) -> 70
      [] OTHER -> 0

-------------------------------------------------------------------------------
(* The parser. *)

RECURSIVE parse(_, _, _)
RECURSIVE climb(_, _, _)
RECURSIVE parse_expr_list(_, _, _)
RECURSIVE parse_select(_, _)

parse_expr(ts, i) == parse(ts, i, 0)

\* An expression that must be there.
expect(e) == IF e.expr = None THEN Panics ELSE e
expect_expr(ts, i, prec) == expect(parse(ts, i, prec))

\* Mutant: no closing parenthesis is needed.
closing_Optional(ts, e) == IF IsSymbol(ts, e.i, {")"}) THEN Parsed(e.expr, e.i + 1) ELSE e

\* The parenthesis that closes what has been parsed.
closing(ts, e) == IF IsSymbol(ts, e.i, {")"}) THEN Parsed(e.expr, e.i + 1) ELSE Panics

\* The expression in a CAST is an alias: of the value, as the type.
as_cast(e) == IF e.expr.node = "alias" THEN Parsed(Cast(e.expr.expr, e.expr.alias), e.i) ELSE Panics

parse_cast(ts, i) ==
    IF IsSymbol(ts, i, {"("}) THEN closing(ts, as_cast(expect_expr(ts, i + 1, 0))) ELSE Panics

\* What parse_date and parse_interval have in common.
parse_quoted(ts, i, literal) ==
    IF i \in DOMAIN ts /\ ts[i].kind = "string"
    THEN Parsed([literal EXCEPT !.content = ts[i].text], i + 1) ELSE Panics

\* A number must fit into an i64.
parse_prefix(ts, i) ==
    IF i \notin DOMAIN ts THEN Parsed(None, i)
    ELSE LET text == ts[i].text
         IN  CASE IsKeyword(ts, i, {"SELECT"}) -> parse_select(ts, i + 1)
               [] IsKeyword(ts, i, {"CAST"}) -> parse_cast(ts, i + 1)
               [] IsKeyword(ts, i, {"DATE"}) -> parse_quoted(ts, i + 1, DateLit(<<>>))
               [] IsKeyword(ts, i, {"INTERVAL"}) -> parse_quoted(ts, i + 1, IntervalLit(<<>>))
               [] IsKeyword(ts, i, {"MIN", "MAX", "SUM", "AVG", "COUNT", "INT", "DOUBLE"})
                    \/ ts[i].kind = "identifier" -> Parsed(Identifier(text), i + 1)
               [] ts[i].kind = "string" -> Parsed(StringLit(text), i + 1)
               [] ts[i].kind = "long" -> IF text < Half THEN Parsed(Long(text), i + 1) ELSE Panics
               [] ts[i].kind = "double" -> IF text # Panic THEN Parsed(DoubleLit(text), i + 1) ELSE Panics
               [] IsSymbol(ts, i, {"("}) -> closing(ts, expect_expr(ts, i + 1, 0))
               [] IsSymbol(ts, i, {"*"}) -> Parsed(Identifier("*"), i + 1)
               [] OTHER -> Panics

\* parse_identifier takes a whole expression, which must be an identifier.
parse_identifier(ts, i) ==
    LET name(e) == IF e.expr.node = "identifier" THEN Parsed(e.expr.id, e.i) ELSE Panics
    IN  name(expect_expr(ts, i, 0))

parse_call(ts, left, i) ==
    LET call(args) == IF Fails(args) THEN Panics
                      ELSE closing(ts, Parsed(Function(left.id, args.expr), args.i))
    IN  IF left.node # "identifier" THEN Panics
        ELSE call(IF IsSymbol(ts, i, {")"}) THEN Parsed(<<>>, i) ELSE parse_expr_list(ts, i, <<>>))

parse_infix(ts, left, i, prec) ==
    LET aliased(name) == IF Fails(name) THEN Panics ELSE Parsed(Alias(left, name.expr), name.i)
        combined(r) == IF Fails(r) THEN Panics ELSE Parsed(BinaryExpr(left, ts[i].text, r.expr), r.i)
    IN  CASE IsSymbol(ts, i, {"("}) -> parse_call(ts, left, i + 1)
          [] IsKeyword(ts, i, {"AS"}) -> aliased(parse_identifier(ts, i + 1))
          [] IsKeyword(ts, i, {"ASC", "DESC"}) -> Parsed(Sort(left, IsKeyword(ts, i, {"ASC"})), i + 1)
          [] \/ IsSymbol(ts, i, Comparing \cup Adding \cup Multiplying \cup {"<>"})
             \/ IsKeyword(ts, i, {"AND", "OR"}) -> combined(expect_expr(ts, i + 1, prec))

\* The loop of PrattParser::parse, with the expression parsed so far.
climb(ts, left, prec) ==
    LET next == next_precedence(ts, left.i)
    IN  IF Fails(left) \/ prec >= next THEN left
        ELSE climb(ts, parse_infix(ts, left.expr, left.i, next), prec)

\* At the end of the tokens there is no expression, and nothing to climb.
parse(ts, i, prec) == climb(ts, parse_prefix(ts, i), prec)

\* A comma at the end of the tokens ends a list too.
parse_expr_list(ts, i, list) ==
    LET longer(e) ==
            CASE e.expr = None -> Parsed(list, e.i)
              [] e.expr = Failed -> Panics
              [] e.expr \notin {None, Failed} ->
                   IF IsSymbol(ts, e.i, {","}) THEN parse_expr_list(ts, e.i + 1, Append(list, e.expr))
                   ELSE Parsed(Append(list, e.expr), e.i)
    IN  longer(parse_expr(ts, i))

\* A list of identifiers and sort expressions, which ORDER BY makes sort expressions.
parse_order(ts, i) ==
    LET key(e) == IF e.node = "identifier" THEN Sort(e, TRUE) ELSE e
        sorted(list) ==
            IF Fails(list) \/ \E k \in DOMAIN list.expr : list.expr[k].node \notin {"identifier", "sort"}
            THEN Panics
            ELSE Parsed([k \in DOMAIN list.expr |-> key(list.expr[k])], list.i)
    IN  sorted(parse_expr_list(ts, i, <<>>))

\* `as i32` drops the upper bits.
as_i32(n) == ((n + HalfInt) % (2 * HalfInt)) - HalfInt

parse_limit(ts, i) ==
    LET limit(e) == IF e.expr.node = "long" THEN Parsed(<<as_i32(e.expr.n)>>, e.i) ELSE Panics
    IN  limit(expect_expr(ts, i, 0))

\* A statement with one more of its clauses.
with_clause(select_, clause, e) ==
    IF Fails(e) THEN Panics ELSE Parsed([select_.expr EXCEPT ![clause] = e.expr], e.i)

\* FROM, the only clause that must be there, and the list before it.
parse_from(ts, list) ==
    LET from(name) == IF Fails(name) THEN Panics
                      ELSE Parsed(Select(list.expr, name.expr, None, <<>>, None, <<>>, <<>>), name.i)
    IN  IF Fails(list) \/ ~consume_keywords(ts, list.i, <<"FROM">>) THEN Panics
        ELSE from(parse_identifier(ts, list.i + 1))

parse_where(ts, q) ==
    IF consume_keywords(ts, q.i, <<"WHERE">>)
    THEN with_clause(q, "selection", parse_expr(ts, q.i + 1)) ELSE q
parse_group_by(ts, q) ==
    IF consume_keywords(ts, q.i, <<"GROUP", "BY">>)
    THEN with_clause(q, "group_by", parse_expr_list(ts, q.i + 2, <<>>)) ELSE q
parse_having(ts, q) ==
    IF consume_keywords(ts, q.i, <<"HAVING">>)
    THEN with_clause(q, "having", parse_expr(ts, q.i + 1)) ELSE q
parse_order_by(ts, q) ==
    IF consume_keywords(ts, q.i, <<"ORDER", "BY">>)
    THEN with_clause(q, "order_by", parse_order(ts, q.i + 2)) ELSE q
parse_last(ts, q) ==
    IF consume_keywords(ts, q.i, <<"LIMIT">>)
    THEN with_clause(q, "limit", parse_limit(ts, q.i + 1)) ELSE q

\* The clauses, in their order.  Any tokens after the last one are left to the caller.
parse_select(ts, i) ==
    parse_last(ts, parse_order_by(ts, parse_having(ts, parse_group_by(ts, parse_where(ts,
        parse_from(ts, parse_expr_list(ts, i, <<>>)))))))
===============================================================================
