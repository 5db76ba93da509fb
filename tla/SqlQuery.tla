------------------------------- MODULE SqlQuery -------------------------------
(***************************************************************************)
(* A SQL statement from its text to the rows it returns: the tables that   *)
(* are registered with a context, its sql(), which tokenizes, parses and   *)
(* plans, and then the phases of QueryPipeline.                            *)
(* The text is written from the statement it means, or is another one.     *)
(***************************************************************************)
EXTENDS QueryAnswers, SqlPlanner, SqlText

CONSTANTS
    Statements,     \* the statements a user may mean
    OtherTexts,     \* texts that are not written from one of them
    Registrations   \* arguments of register: pairs of a name and a plan

VARIABLES
    statement,      \* what the text is written from, None for another text
    text,           \* the text, as runs of characters
    tables,         \* the tables of the context
    tokens,         \* what the tokenizer made of the text
    ast             \* what the parser made of the tokens

sqlVars == <<statement, text, tables, tokens, ast>>
allVars == <<vars, sqlVars>>

-------------------------------------------------------------------------------
SqlTypeOK ==
    /\ phase \in Phases \cup {"text", "tokens", "parsed"}
    /\ \A name \in DOMAIN tables : <<name, tables[name]>> \in Registrations
    /\ \A i \in DOMAIN tokens : tokens[i].end \in 2..(Len(text) + 1) \/ tokens[i].kind = "panic"
    /\ \A i, j \in DOMAIN tokens : i < j /\ tokens[j].kind # "panic" => tokens[i].end < tokens[j].end
    /\ phase \in {"received", "optimized", "planned", "sent", "done"} => plan # NoPlan

SqlInit ==
    /\ \/ \E st \in Statements, blanks, capital \in BOOLEAN :
            statement = st /\ text = Text(Pieces(st, capital), blanks)
       \/ statement = None /\ text \in OtherTexts
    /\ tables = <<>>
    /\ tokens = <<>>
    /\ ast = None
    /\ db \in Databases
    /\ plan = NoPlan
    /\ ops = 0
    /\ phase = "text"
    /\ context = "none"
    /\ received = NoPlan
    /\ optimized = NoPlan
    /\ physical = NoPlan
    /\ tasks = <<>>
    /\ output = <<>>
    /\ swallowed = FALSE

Later == <<db, ops, context, received, optimized, physical, tasks, output, swallowed>>

\* register, register_csv and register_data_source; a second table takes the name's place.
Register ==
    /\ phase = "text"
    /\ \E r \in Registrations : tables' = (r[1] :> r[2]) @@ tables
    /\ UNCHANGED <<statement, text, tokens, ast, plan, phase, Later>>

\* The three steps of sql().
Tokenize ==
    /\ phase = "text"
    /\ tokens' = tokenize(text)
    /\ phase' = IF tokens' # <<>> /\ Last(tokens').kind = "panic" THEN "panicked" ELSE "tokens"
    /\ UNCHANGED <<statement, text, tables, ast, plan, Later>>

Parse ==
    /\ phase = "tokens"
    /\ ast' = parse(tokens, 1, 0).expr
    /\ phase' = IF ast'.node = "select" THEN "parsed" ELSE "panicked"
    /\ UNCHANGED <<statement, text, tables, tokens, plan, Later>>

PlanStatement ==
    /\ phase = "parsed"
    /\ IF CanCreateDataFrame(ast, tables)
       THEN phase' = "building" /\ plan' = create_data_frame(ast, tables)
       ELSE phase' = "panicked" /\ UNCHANGED plan
    /\ UNCHANGED <<statement, text, tables, tokens, ast, Later>>

Run ==
    /\ ExecuteHere \/ ExecuteOnServer \/ Optimize \/ CreatePhysicalPlan \/ SendTasks \/ Execute
    /\ UNCHANGED sqlVars

SqlFinished == Finished /\ UNCHANGED sqlVars

SqlNext == Register \/ Tokenize \/ Parse \/ PlanStatement \/ Run \/ SqlFinished

SqlSpec == SqlInit /\ [][SqlNext]_allVars

-------------------------------------------------------------------------------
(* What a statement means, clause by clause, on the rows of its table. *)

Table == tables[statement.table_name]
Exprs == create_logical_exprs(statement.projection)
IsAggregate == \E e \in ToSet(Exprs) : is_aggregate_expr(e)

Bare(e) == IF e.op = "alias" THEN e.expr ELSE e

\* The rows that WHERE keeps.
Chosen(rows) ==
    IF statement.selection = None THEN rows
    ELSE SelectSeq(rows, LAMBDA row :
                     Value(create_logical_expr(statement.selection), schema(Table), row) = Bool(TRUE))

\* One row for each group, with the value of every expression on the group's rows.
GroupRows(rows) ==
    LET s == schema(Table)
        by == create_logical_exprs(statement.group_by)
        key(row) == [i \in DOMAIN by |-> Value(by[i], s, row)]
        value(e, in) ==
            IF e.op = "aggregate"
            THEN AggregateValue(e.fn, [r \in DOMAIN in |-> Value(e.expr, s, in[r])])
            ELSE Value(e, s, in[1])
        row_of(k) == LET in == SelectSeq(rows, LAMBDA row : key(row) = k)
                     IN  [i \in DOMAIN Exprs |-> value(Bare(Exprs[i]), in)]
        keys == SetToSeq({key(rows[i]) : i \in DOMAIN rows})
    IN  [i \in DOMAIN keys |-> row_of(keys[i])]

\* The columns of the answer.
OutputFields == [i \in DOMAIN Exprs |-> to_field(Exprs[i], schema(Table))]

\* The answers before LIMIT.
Unlimited(rows) ==
    IF ~IsAggregate
    THEN LET kept == Chosen(rows)
         IN  [r \in DOMAIN kept |-> [i \in DOMAIN Exprs |-> Value(Exprs[i], schema(Table), kept[r])]]
    ELSE IF statement.having = None THEN GroupRows(Chosen(rows))
    ELSE SelectSeq(GroupRows(Chosen(rows)), LAMBDA row :
                     Value(create_logical_expr(statement.having), OutputFields, row) = Bool(TRUE))

Meanings ==
    UNION {IF statement.limit = <<>> THEN {Unlimited(rows)}
           ELSE SubSequences(Unlimited(rows), statement.limit[1]) : rows \in Answers(Table)}

-------------------------------------------------------------------------------
(* Kinds of statements. *)

RECURSIVE Writes(_, _)
Writes(e, opers) ==
    CASE e.node = "binary" -> e.op \in opers \/ Writes(e.l, opers) \/ Writes(e.r, opers)
      [] e.node \in {"alias", "cast", "sort"} -> Writes(e.expr, opers)
      [] e.node = "function" -> \E a \in ToSet(e.args) : Writes(a, opers)
      [] OTHER -> FALSE

ExprsOf(st) ==
    ToSet(st.projection) \cup ToSet(st.group_by) \cup ToSet(st.order_by)
      \cup ({st.selection, st.having} \ {None})

\* A statement of a registered table whose expressions the planner knows, without the
\* parts that are parsed and then dropped: ORDER BY, and HAVING without an aggregate.
Planned(st) ==
    /\ st.table_name \in DOMAIN tables
    /\ st.order_by = <<>>
    /\ \A e \in ExprsOf(st) : CanCreateExpr(e)
    /\ st.having # None => IsAggregate

\* The parser has no precedence for <>, and ends the statement there; a LIMIT is an i32.
Parsable(st) ==
    /\ \A e \in ExprsOf(st) : ~Writes(e, {"<>"})
    /\ \A i \in DOMAIN st.limit : as_i32(st.limit[i]) = st.limit[i]

\* Every column that WHERE names is, in the SELECT list, that column itself, or is not
\* named by another expression of the list; and no two expressions have one name.
WhereSeesTable(st) ==
    st.selection # None =>
        LET used == {ref.name : ref \in References(create_logical_expr(st.selection))}
        IN  /\ \A i \in DOMAIN Exprs : OutputFields[i].name \in used => Exprs[i] = col(OutputFields[i].name)
            /\ \A i, j \in DOMAIN Exprs : OutputFields[i].name = OutputFields[j].name => i = j

\* The plain expressions of an aggregate query are the group columns, in their order.
GroupsInOrder(st) ==
    IsAggregate => LET plain == SelectSeq(Exprs, LAMBDA e : ~is_aggregate_expr(e))
                  IN  plain = SubSeq(create_logical_exprs(st.group_by), 1, Len(plain))

\* A statement that the planner supports.
SupportedStatement(st) ==
    LET by == create_logical_exprs(st.group_by)
        where == create_logical_expr(st.selection)
        outputs == {e.name : e \in {f \in ToSet(Exprs) : f.op = "col"}}
        visited(es) == ToSet(referenced_columns(es))
        needed(es) == {ref.name : ref \in UNION {References(e) : e \in ToSet(es)}}
    IN  /\ \A e \in ToSet(Exprs) : e.op = "alias" => ~IsAggregate \/ is_aggregate_expr(e)
        /\ st.group_by # <<>> => IsAggregate
        /\ \A e \in ToSet(Exprs) \cup ToSet(by) :
             \A ref \in References(e) : position(schema(Table), ref.name) # 0
        /\ st.selection # None =>
             /\ needed(<<where>>) = visited(<<where>>)
             /\ \A name \in visited(<<where>>) : position(schema(Table), name) # 0
             /\ ~IsAggregate => visited(<<where>>) \cap visited(Exprs) \subseteq outputs
             /\ IsAggregate => /\ needed(Exprs) = visited(Exprs)
                              /\ needed(by) \subseteq visited(Exprs) \cup visited(<<where>>)
        /\ st.having # None =>
             \A f \in Subexpressions(create_logical_expr(st.having)) :
                 f.op # "aggregate" /\ (f.op = "col" => position(OutputFields, f.name) # 0)

\* Its expressions have types.
TypedStatement(st) ==
    LET s == schema(Table)
        declared(e) == TypeOf(e, s) = to_field(e, s).type /\ TypeOf(e, s) # "none"
    IN  /\ \A e \in ToSet(Exprs) :
             IF is_aggregate_expr(e)
             THEN AggregateTyped(Bare(e), s) /\ (Bare(e).fn # "count" => declared(Bare(e).expr))
             ELSE declared(e)
        /\ st.selection # None => TypeOf(create_logical_expr(st.selection), s) = "bool"
        /\ st.having # None => TypeOf(create_logical_expr(st.having), OutputFields) = "bool"

-------------------------------------------------------------------------------
(* What a text says. *)

\* Tokens that say the same, whether a word is a keyword or not, and in capitals or not.
Same(t, u) ==
    LET words == {"keyword", "identifier"}
    IN  IF t.kind \in words THEN u.kind \in words /\ to_uppercase(t.text) = to_uppercase(u.text)
        ELSE t.kind = u.kind /\ t.text = u.text

IsParenthesis(t, texts) == t.kind = "symbol" /\ t.text \in texts
Balanced(ts) ==
    Len(SelectSeq(ts, LAMBDA t : IsParenthesis(t, {"("})))
      = Len(SelectSeq(ts, LAMBDA t : IsParenthesis(t, {")"})))

\* But for parentheses, which may be more than are needed, and ASC, which need not be said.
SayTheSame(ts, us) ==
    LET needed(t) == ~IsParenthesis(t, {"(", ")"}) /\ ~(t.kind = "keyword" /\ t.text = "ASC")
        inner(some) == SelectSeq(some, needed)
    IN  /\ Len(inner(ts)) = Len(inner(us))
        /\ \A i \in DOMAIN inner(ts) : Same(inner(ts)[i], inner(us)[i])

\* The statement that was parsed, perhaps with a LIMIT beyond an i32 as the text has it.
Readings ==
    {ast} \cup {[ast EXCEPT !.limit = <<tokens[i].text>>] :
                 i \in {k \in DOMAIN tokens : /\ tokens[k].kind = "long"
                                             /\ ast.limit = <<as_i32(tokens[k].text)>>}}

written(st) == tokenize(Text(Pieces(st, TRUE), TRUE))

-------------------------------------------------------------------------------
(* Properties. *)

\* SqlTokenizer and SqlParser: the parser reads from every text the statement it was
\* written from: no blank, letter case or precedence of operators changes what it means.
ParsesAsWritten ==
    ast # None /\ statement # None /\ Parsable(statement) => ast = statement

\* SqlParser's panics: what is answered is a statement that the text begins with, with its
\* parentheses closed, whatever else the text is.  Only after the statement may anything
\* follow, which is not read: a clause without an operand at the end of the text, a comma,
\* an operand without an operator.
OnlyStatementsAnswered ==
    statement = None /\ phase = "done" =>
        \E n \in DOMAIN tokens, st \in Readings :
            /\ Balanced(SubSeq(tokens, 1, n))
            /\ SayTheSame(SubSeq(tokens, 1, n), written(st))

\* SqlPlanner::create_data_frame: the plan's projections, filters and indices together
\* return what the statement's clauses mean, in every context, and no other row where a
\* panic on the server ends the rows, for a statement that is planned as a whole, whose
\* WHERE names columns as the table does, and which selects its group columns in their
\* order.
AnswersTheStatement ==
    phase = "done" /\ (swallowed => output # <<>>) /\ statement # None /\ Parsable(statement) /\ Planned(statement)
        /\ WhereSeesTable(statement) /\ GroupsInOrder(statement) /\ ReadAsWritten(plan)
      => \E rows \in Meanings :
            IF swallowed THEN ToBag(FlattenSeq(output)) \sqsubseteq ToBag(rows)
            ELSE ToBag(FlattenSeq(output)) = ToBag(rows)

\* columns_referenced_by_selection and the projections built from it: no column that a
\* clause of a supported statement needs is projected away, so that sql() and execute()
\* of a local context do not panic.
SupportedNeverPanics ==
    phase = "panicked" /\ statement # None /\ context \in {"none", "local"} =>
        ~ /\ Parsable(statement) /\ Planned(statement)
          /\ SupportedStatement(statement)
          /\ WhereSeesTable(statement) /\ GroupsInOrder(statement)
          /\ TypedStatement(statement)

\* plan_non_aggregate_query: "Otherwise we project the extra columns the selection needs,
\* filter, then drop them again", so that WHERE selects rows of the table also when the
\* SELECT list gives other values the names of its columns.
WhereFiltersTheTable ==
    phase = "done" /\ ~swallowed
        /\ Parsable(statement) /\ Planned(statement) /\ GroupsInOrder(statement)
      => \E rows \in Meanings : ToBag(FlattenSeq(output)) = ToBag(rows)

\* parse_infix: "Arithmetic and comparison operators", the operator <> among them, are
\* parsed as the statement has them.
ParsesEveryOperator == ast # None => ast = statement
===============================================================================
