------------------------------ MODULE SqlPlanner ------------------------------
(***************************************************************************)
(* SqlPlanner: from a SELECT to the logical plan of a DataFrame.  A panic  *)
(* is a predicate of its own: CanCreateExpr and CanCreateDataFrame say     *)
(* where create_logical_expr and create_data_frame return.                 *)
(***************************************************************************)
EXTENDS SqlParser, LogicalPlan

-------------------------------------------------------------------------------
(* Literals, from the runs of characters that a string encloses. *)

\* A number, or a word: the instances use a few, and anything else is the one before them.
WordsUsed == <<"x", "y", "z">>
StringValue(content) ==
    IF Len(content) = 1 /\ content[1].run = "digits" THEN Scalar("utf8", content[1].n)
    ELSE Word(1 + SelectInSeq(WordsUsed, LAMBDA w : content = <<WordRun(w)>>))

IsDate(content) == Len(content) = 1 /\ content[1].run = "date"

\* Digits, whitespace and day or days, perhaps with whitespace around them.
parse_interval_days(content) ==
    LET trimmed == SelectSeq(content, LAMBDA r : r.run # "space")
    IN  [ok |-> /\ Len(trimmed) = 2 /\ trimmed[1].run = "digits"
                /\ trimmed[2].run = "word" /\ to_uppercase(trimmed[2].text) \in {"DAY", "DAYS"}
                /\ \E i \in 2..Len(content) : content[i] = Space /\ content[i - 1] = trimmed[1],
         days |-> IF trimmed # <<>> /\ trimmed[1].run = "digits" THEN trimmed[1].n ELSE 0]

-------------------------------------------------------------------------------
(* Expressions. *)

ComparisonOps == [o \in {"=", "!=", "<>", ">", ">=", "<", "<="} |->
    CASE o = "=" -> "eq" [] o \in {"!=", "<>"} -> "neq" [] o = ">" -> "gt"
      [] o = ">=" -> "gteq" [] o = "<" -> "lt" [] o = "<=" -> "lteq"]
MathOps == [o \in {"+", "-", "*", "/", "%"} |->
    CASE o = "+" -> "add" [] o = "-" -> "subtract" [] o = "*" -> "mult" [] o = "/" -> "div" [] o = "%" -> "mod"]

Aggregating == [MIN |-> "min", MAX |-> "max", SUM |-> "sum", AVG |-> "avg", COUNT |-> "count"]

\* AND and OR are only known in capitals, the one data type only in small letters.
RECURSIVE CanCreateExpr(_)
CanCreateExpr(e) ==
    CASE e.node \in {"identifier", "string", "long", "double"} -> TRUE
      [] e.node = "date" -> IsDate(e.content)
      [] e.node = "interval" -> parse_interval_days(e.content).ok
      [] e.node = "binary" ->
           /\ e.op \in DOMAIN ComparisonOps \cup DOMAIN MathOps \cup {"AND", "OR"}
           /\ CanCreateExpr(e.l) /\ CanCreateExpr(e.r)
      [] e.node = "alias" -> CanCreateExpr(e.expr)
      [] e.node = "cast" -> CanCreateExpr(e.expr) /\ e.data_type = "double"
      [] e.node = "function" ->
           /\ to_uppercase(e.id) \in DOMAIN Aggregating
           /\ e.args # <<>> /\ CanCreateExpr(e.args[1])
      [] e.node \in {"sort", "select", "none"} -> FALSE

\* A date literal plus or minus an interval literal is a date.
create_binary(op, l, r) ==
    LET dated == r.op = "interval" /\ l.op = "lit" /\ l.value.type = "date32"
    IN  CASE op \in DOMAIN ComparisonOps -> binary(ComparisonOps[op], l, r)
          [] op \in {"AND", "OR"} -> binary(IF op = "AND" THEN "and" ELSE "or", l, r)
          [] op = "+" /\ dated -> binary("date_add", l, r)
          [] op = "-" /\ dated -> binary("date_subtract", l, r)
          [] op \in DOMAIN MathOps /\ ~(op \in {"+", "-"} /\ dated) -> binary(MathOps[op], l, r)

RECURSIVE create_logical_expr(_)
create_logical_expr(e) ==
    CASE e.node = "identifier" -> col(e.id)
      [] e.node = "string" -> lit(StringValue(e.content))
      [] e.node = "long" -> lit_long(e.n)
      [] e.node = "double" -> lit(e.value)
      [] e.node = "date" -> lit(Scalar("date32", e.content[1].n))
      [] e.node = "interval" -> lit_interval(parse_interval_days(e.content).days)
      [] e.node = "binary" ->
           create_binary(e.op, create_logical_expr(e.l), create_logical_expr(e.r))
      [] e.node = "alias" -> alias(create_logical_expr(e.expr), e.alias)
      [] e.node = "cast" -> cast(create_logical_expr(e.expr), "f64")
      [] e.node = "function" ->
           LET fn == Aggregating[to_uppercase(e.id)]
           IN  aggregate_expr(fn, IF fn = "count" /\ e.args[1] = Identifier("*") THEN lit_long(1)
                                  ELSE create_logical_expr(e.args[1]))

create_logical_exprs(es) == [i \in DOMAIN es |-> create_logical_expr(es[i])]

is_aggregate_expr(e) == e.op = "aggregate" \/ (e.op = "alias" /\ e.expr.op = "aggregate")

-------------------------------------------------------------------------------
(* The columns that expressions refer to, in the order they are first seen. *)

ordered_extend(target, extra) ==
    FoldLeft(LAMBDA t, item : IF item \in ToSet(t) THEN t ELSE Append(t, item), target, extra)

ordered_difference(from, remove) == SelectSeq(from, LAMBDA c : c \notin ToSet(remove))

\* Casts and dates are not visited.
RECURSIVE visit(_, _)
visit(e, acc) ==
    CASE e.op = "col" -> ordered_extend(acc, <<e.name>>)
      [] e.op \in {"alias", "aggregate"} -> visit(e.expr, acc)
      [] e.op \in BinaryOps \ Dates -> visit(e.r, visit(e.l, acc))
      [] OTHER -> acc

referenced_columns(exprs) == FoldLeft(LAMBDA acc, e : visit(e, acc), <<>>, exprs)

columns_referenced_by_selection(select_, table) ==
    IF select_.selection = None THEN <<>>
    ELSE SelectSeq(visit(create_logical_expr(select_.selection), <<>>),
                   LAMBDA name : position(schema(table), name) # 0)

-------------------------------------------------------------------------------
(* DataFrames. *)

\* LIMIT, if the statement has one.
Limited(plan, select_) == IF select_.limit = <<>> THEN plan ELSE Limit(plan, select_.limit[1])

Columns(names) == [i \in DOMAIN names |-> col(names[i])]

\* The expressions, and the columns that the selection needs besides them, filtered.
Extended(select_, table, exprs, missing) ==
    Selection(Projection(table, exprs \o Columns(missing)), create_logical_expr(select_.selection))

\* Mutant: the columns that the table has are taken to be there.
MissingColumns_OfTable(select_, table, exprs) ==
    ordered_difference(columns_referenced_by_selection(select_, table), Names(schema(table)))

MissingColumns(select_, table, exprs) ==
    ordered_difference(columns_referenced_by_selection(select_, table), referenced_columns(exprs))

\* Mutant: the extra columns stay.
plan_non_aggregate_query_KeepsExtra(select_, table, exprs) ==
    IF select_.selection = None THEN Projection(table, exprs)
    ELSE Extended(select_, table, exprs, MissingColumns(select_, table, exprs))

plan_non_aggregate_query(select_, table, exprs) ==
    LET missing == MissingColumns(select_, table, exprs)
        extended == Extended(select_, table, exprs, missing)
    IN  CASE select_.selection = None -> Projection(table, exprs)
          [] select_.selection # None /\ missing = <<>> -> extended
          [] select_.selection # None /\ missing # <<>> ->
               Projection(extended, Columns(SubSeq(Names(schema(extended)), 1, Len(exprs))))

plan_aggregate_query(select_, table, exprs, aggregates) ==
    LET plain == SelectSeq(exprs, LAMBDA e : ~is_aggregate_expr(e))
        in_selection == columns_referenced_by_selection(select_, table)
        in_aggregates == referenced_columns(aggregates)
        required == ordered_extend(ordered_extend(referenced_columns(plain), in_selection), in_aggregates)
        missing == ordered_difference(required, referenced_columns(plain))
        input == IF select_.selection = None THEN table ELSE Extended(select_, table, plain, missing)
    IN  Aggregate(input, create_logical_exprs(select_.group_by), aggregates)

\* The columns of the aggregate, by index: the k-th expression that is no aggregate is
\* taken to be the k-th group expression.
AggregateProjection(exprs, groups) ==
    [i \in DOMAIN exprs |->
       LET n == Cardinality({j \in 1..i : is_aggregate_expr(exprs[j])})
       IN  CASE exprs[i].op = "aggregate" -> col_index(groups + n)
             [] exprs[i].op = "alias" -> alias(col_index(groups + n), exprs[i].name)
             [] exprs[i].op \notin {"aggregate", "alias"} -> col_index(i - n)]

CanCreateDataFrame(select_, tables) ==
    LET table == tables[select_.table_name]
        exprs == create_logical_exprs(select_.projection)
        aggregated == \E e \in ToSet(exprs) : is_aggregate_expr(e)
        optional(e) == e = None \/ CanCreateExpr(e)
    IN  /\ select_.table_name \in DOMAIN tables
        /\ \A e \in ToSet(select_.projection) : CanCreateExpr(e)
        /\ optional(select_.selection)
        /\ select_.selection # None => HasSchema(table)
        /\ aggregated =>
             /\ \A e \in ToSet(select_.group_by) : CanCreateExpr(e)
             /\ optional(select_.having)
             /\ \A e \in ToSet(exprs) : e.op = "alias" => is_aggregate_expr(e)
        /\ ~aggregated =>
             /\ select_.group_by = <<>>
             /\ MissingColumns(select_, table, exprs) # <<>> => HasSchema(Projection(table, exprs))

create_data_frame(select_, tables) ==
    LET table == tables[select_.table_name]
        exprs == create_logical_exprs(select_.projection)
        aggregated == SelectSeq(exprs, is_aggregate_expr)
        aggregates == [i \in DOMAIN aggregated |->
                         IF aggregated[i].op = "alias" THEN aggregated[i].expr ELSE aggregated[i]]
        plan == Projection(plan_aggregate_query(select_, table, exprs, aggregates),
                           AggregateProjection(exprs, Len(select_.group_by)))
        kept == IF select_.having = None THEN plan
                ELSE Selection(plan, create_logical_expr(select_.having))
    IN  IF aggregates = <<>> THEN Limited(plan_non_aggregate_query(select_, table, exprs), select_)
        ELSE Limited(kept, select_)
===============================================================================
