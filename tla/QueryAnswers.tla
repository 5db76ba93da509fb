----------------------------- MODULE QueryAnswers -----------------------------
(***************************************************************************)
(* What a query of QueryPipeline means, by its plan, its files and SQL's   *)
(* three-valued logic, and that the phases of its execution return that.   *)
(***************************************************************************)
EXTENDS QueryPipeline

-------------------------------------------------------------------------------
(* What a query means: the row sequences it may return, from the files and     *)
(* the plan as it was built, row by row and by name.  The order of rows has no *)
(* meaning, so LIMIT n may keep any n of them; a negative limit keeps all.     *)

\* FALSE, UNKNOWN and TRUE are 0, 1 and 2: AND is the least, OR the greatest.
Truth(v) == IF is_null(v) THEN 1 ELSE IF v = Bool(TRUE) THEN 2 ELSE 0
OfTruth(t) == IF t = 1 THEN Null ELSE Bool(t = 2)

\* Fractions, rounded towards zero if both operands are integers of one type.
Arithmetic(op, l, r) ==
    LET n == CASE op = "add" -> l.n * r.d + r.n * l.d
               [] op = "subtract" -> l.n * r.d - r.n * l.d
               [] op = "mult" -> l.n * r.n
               [] op = "div" -> l.n * r.d
        d == IF op = "div" THEN l.d * r.n ELSE l.d * r.d
    IN  IF Panic \in {l, r} \/ d = 0 THEN Panic
        ELSE IF Null \in {l, r} THEN Null
        ELSE IF l.type = r.type /\ l.type \in Integral THEN Scalar(l.type, Wrap(Truncated(n, d)))
        ELSE Double(n, d)

RECURSIVE Value(_, _, _)
Value(e, s, row) ==
    CASE e.op = "col" -> row[position(s, e.name)]
      [] e.op = "index" -> row[e.i]
      [] e.op = "lit" -> e.value
      [] e.op = "interval" -> Scalar("i64", e.days)
      [] e.op = "alias" -> Value(e.expr, s, row)
      [] e.op = "cast" -> cast_value(Value(e.expr, s, row), e.type)
      [] e.op \in BinaryOps ->
           LET l == Value(e.l, s, row)
               r == Value(e.r, s, row)
           IN  CASE e.op \in Maths -> Arithmetic(e.op, l, r)
                 [] e.op = "and" -> OfTruth(Min({Truth(l), Truth(r)}))
                 [] e.op = "or" -> OfTruth(Max({Truth(l), Truth(r)}))
                 [] e.op \in Comparisons /\ Null \in {l, r} -> Null
                 [] e.op \in Comparisons /\ Null \notin {l, r} ->
                      Bool(CASE e.op = "eq" -> l = r [] e.op = "neq" -> l # r
                             [] e.op = "lt" -> Less(l, r) [] e.op = "gt" -> Less(r, l)
                             [] e.op = "lteq" -> l = r \/ Less(l, r)
                             [] e.op = "gteq" -> l = r \/ Less(r, l))
                 [] e.op \in Dates /\ Null \in {l, r} -> Null
                 [] e.op \in Dates /\ Null \notin {l, r} ->
                      Scalar("date32", IF e.op = "date_add" THEN l.n + r.n ELSE l.n - r.n)

\* SQL aggregates over the values that are not NULL.
AggregateValue(fn, values) ==
    LET present == SelectSeq(values, LAMBDA v : ~is_null(v))
        total == FoldLeft(LAMBDA sum, v : Arithmetic("add", sum, v), Head(present), Tail(present))
    IN  CASE fn = "count" -> Scalar("i32", Len(present))
          [] fn # "count" /\ present = <<>> -> Null
          [] fn = "max" /\ present # <<>> ->
               CHOOSE v \in ToSet(present) : \A w \in ToSet(present) : ~Less(v, w)
          [] fn = "min" /\ present # <<>> ->
               CHOOSE v \in ToSet(present) : \A w \in ToSet(present) : ~Less(w, v)
          [] fn = "sum" /\ present # <<>> -> total
          [] fn = "avg" /\ present # <<>> -> Double(total.n, total.d * Len(present))

\* s is the schema of the input.
Grouped(p, s, rows) ==
    LET key(row) == [i \in DOMAIN p.group_expr |-> Value(p.group_expr[i], s, row)]
        values(a, k) == LET in == SelectSeq(rows, LAMBDA row : key(row) = k)
                        IN  [i \in DOMAIN in |-> Value(a.expr, s, in[i])]
        result(k) == k \o [i \in DOMAIN p.aggregate_expr |->
            AggregateValue(p.aggregate_expr[i].fn, values(p.aggregate_expr[i], k))]
    IN  SetToSeq({result(key(rows[i])) : i \in DOMAIN rows})

\* A joined row has the columns of Join::schema: a key of both sides comes from
\* the side whose rows a join keeps.  The schemas of the two sides are l and r.
Joined(p, l, r, left, right) ==
    LET keep(s, row) == LET kept == SelectSeq([i \in DOMAIN s |-> i],
                                              LAMBDA i : s[i].name \notin duplicate_keys(p.on))
                        IN  [k \in DOMAIN kept |-> row[kept[k]]]
        merge_rows(a, b) == IF p.join_type = "right" THEN keep(l, a) \o b ELSE a \o keep(r, b)
        agree(a, b) == \A i \in DOMAIN p.on :
            a[position(l, p.on[i][1])] = b[position(r, p.on[i][2])]
        nulls(s) == [i \in DOMAIN s |-> Null]
        pairs == FlattenSeq([i \in DOMAIN left |->
            LET found == SelectSeq(right, LAMBDA b : agree(left[i], b))
            IN  [k \in DOMAIN found |-> merge_rows(left[i], found[k])]])
        alone == IF p.join_type = "left"
                 THEN SelectSeq(left, LAMBDA a : ~\E b \in ToSet(right) : agree(a, b))
                 ELSE IF p.join_type = "right"
                 THEN SelectSeq(right, LAMBDA b : ~\E a \in ToSet(left) : agree(a, b))
                 ELSE <<>>
    IN  pairs \o [i \in DOMAIN alone |-> IF p.join_type = "left" THEN merge_rows(alone[i], nulls(r))
                                         ELSE merge_rows(nulls(l), alone[i])]

SubSequences(rows, n) ==
    LET indices == {I \in SUBSET DOMAIN rows :
                      Cardinality(I) = IF n < Len(rows) THEN n ELSE Len(rows)}
        at(I) == SetToSortSeq(I, <)
    IN  {[k \in DOMAIN at(I) |-> rows[at(I)[k]]] : I \in indices}

\* The rows of a file, as the columns the source declares.
FileRows(source) ==
    LET rows == FlattenSeq(db[source.file])
        s == source_schema(source)
    IN  [r \in DOMAIN rows |-> [i \in DOMAIN s |-> parse_field(rows[r][i], s[i].type)]]

RECURSIVE Answers(_)
Answers(p) ==
    CASE p.op = "scan" -> {FileRows(p.source)}
      [] p.op = "selection" ->
           {SelectSeq(rows, LAMBDA row : Value(p.expr, schema(p), row) = Bool(TRUE))
              : rows \in Answers(p.input)}
      [] p.op = "projection" ->
           {[r \in DOMAIN rows |-> [i \in DOMAIN p.exprs |->
               Value(p.exprs[i], schema(p.input), rows[r])]] : rows \in Answers(p.input)}
      [] p.op = "aggregate" -> {Grouped(p, schema(p.input), rows) : rows \in Answers(p.input)}
      [] p.op = "limit" ->
           UNION {IF p.limit < 0 THEN {rows} ELSE SubSequences(rows, p.limit)
                    : rows \in Answers(p.input)}
      [] p.op = "join" -> UNION {{Joined(p, schema(p.left), schema(p.right), left, right) :
                                      left \in Answers(p.left)}
                                   : right \in Answers(p.right)}

-------------------------------------------------------------------------------
(* Kinds of queries. *)

\* The query asks for every column of its tables: a scan or a join, perhaps limited.
RECURSIVE TakesAllColumns(_)
TakesAllColumns(p) ==
    \/ p.op \in {"scan", "join"}
    \/ p.op = "limit" /\ TakesAllColumns(p.input)

\* Right joins have keys of different names, and a left side without a LIMIT.
PlainRightJoins(p) ==
    \A n \in Nodes(p) : n.op = "join" /\ n.join_type = "right" =>
        duplicate_keys(n.on) = {} /\ \A m \in Nodes(n.left) : m.op # "limit"

\* A filter or limit directly on a scan of which push-down requested no column.
RECURSIVE OverBareScan(_)
OverBareScan(p) ==
    /\ p.op \in {"selection", "limit"}
    /\ \/ p.input.op = "scan" /\ p.input.projection = <<>>
       \/ OverBareScan(p.input)

\* Group and aggregate expressions that read from a partial result what they read
\* from the table: its columns from the first on.
Aligned(x) ==
    /\ \A i \in DOMAIN x.group : x.group[i] = Column(i)
    /\ \A i \in DOMAIN x.aggregate : x.aggregate[i].input = Column(Len(x.group) + i)

\* An aggregate in two stages needs that.
Mergeable(x) == context = "distributed" /\ x.op = "aggregate" => Aligned(x)

\* The type of an expression, "none" for operands that its operator does not take.
RECURSIVE TypeOf(_, _)
TypeOf(e, s) ==
    CASE e.op \in {"col", "index"} -> to_field(e, s).type
      [] e.op = "lit" -> e.value.type
      [] e.op = "interval" -> "interval"
      [] e.op = "alias" -> TypeOf(e.expr, s)
      [] e.op = "cast" -> IF TypeOf(e.expr, s) \in Numeric THEN e.type ELSE "none"
      [] e.op \in {"not", "mod"} -> "none"
      [] e.op \in BinaryOps \ {"mod"} ->
           LET l == TypeOf(e.l, s)
               r == TypeOf(e.r, s)
           IN  CASE e.op \in Comparisons ->
                      IF l = r /\ l \notin {"none", "bool", "interval"} THEN "bool" ELSE "none"
                 [] e.op \in Connectives -> IF l = "bool" /\ r = "bool" THEN "bool" ELSE "none"
                 [] e.op \in Maths ->
                      IF ~({l, r} \subseteq Numeric) THEN "none" ELSE IF l = r THEN l ELSE "f64"
                 [] e.op \in Dates ->
                      IF l = "date32" /\ r = "interval" THEN "date32" ELSE "none"

AggregateTyped(a, s) ==
    CASE a.fn = "avg" -> TypeOf(a.expr, s) = "f64"
      [] a.fn = "sum" -> TypeOf(a.expr, s) \in Numeric
      [] a.fn \notin {"avg", "sum"} -> TypeOf(a.expr, s) \notin {"none", "bool", "interval"}

\* Operands have types that the operators take, output columns their declared ones, and
\* no value is missing: nothing but a positive literal divides.
WellTyped(p) ==
    \A n \in Nodes(p) :
        LET s == schema(n.input)
            declared(e) == TypeOf(e, s) = to_field(e, s).type
        IN  /\ \A e \in ExpressionsOf(n) :
                 /\ TypeOf(e, s) # "none"
                 /\ \A f \in Subexpressions(e) : f.op = "div" => f.r.op = "lit" /\ f.r.value.n > 0
            /\ n.op = "projection" => \A e \in ToSet(n.exprs) : declared(e)
            /\ n.op = "aggregate" =>
                 /\ \A e \in ToSet(n.group_expr) : declared(e)
                 /\ \A a \in ToSet(n.aggregate_expr) :
                      /\ AggregateTyped(a, s)
                      /\ a.fn \in {"sum", "min", "max"} => declared(a.expr)

\* What the context can send away.
Transferable(p) ==
    LET splits(x) == x.op = "aggregate" => Aligned(x) /\ \A a \in ToSet(x.aggregate) : a.fn # "avg"
    IN  /\ context = "flight" => CanSerializePlan(p) /\ CanDeserializePlan(p)
        /\ context = "distributed" =>
             /\ \A n \in Nodes(p) :
                  /\ n.op \notin {"limit", "join"}
                  /\ \A e \in ExpressionsOf(n) : Operators(e) \cap (Dates \cup {"interval"}) = {}
             /\ \A source \in SourcesOf(p) : source.kind # "memory"
             /\ splits(create_physical_plan(optimize(p).plan))

-------------------------------------------------------------------------------
(* Properties. *)

\* The sets of columns that a query may return.  Of the table of a query that names no
\* columns, push-down leaves those that its filter needs, sorted by name.
ReturnedColumns ==
    LET all == DOMAIN schema(plan)
        returned == schema(optimized)
    IN  IF NamesItsColumns(plan) \/ TakesAllColumns(plan) THEN {all}
        ELSE {K \in SUBSET all : /\ Cardinality(K) = Len(returned)
                                 /\ {schema(plan)[i].name : i \in K} = ToSet(Names(returned))}

\* The returned rows are these columns of these rows, in some order, or some of the rows
\* if a panic was swallowed.
Agrees(rows) ==
    LET named(s, row, columns) == {<<s[i].name, row[i]>> : i \in columns}
        of(s, some, columns) ==
            IF NamesItsColumns(plan) THEN ToBag(some)
            ELSE ToBag([r \in DOMAIN some |-> named(s, some[r], columns)])
        returned == of(schema(optimized), FlattenSeq(output), DOMAIN schema(optimized))
    IN  \E columns \in ReturnedColumns :
            IF swallowed THEN returned \sqsubseteq of(schema(plan), rows, columns)
            ELSE returned = of(schema(plan), rows, columns)

\* execute of the three contexts: the wire, push-down, lowering and the operators
\* together return what the DataFrame's plan means, whatever the batches and the order of
\* the hash maps, and never a wrong row where do_get takes a panic for the end.  For every
\* query that uses indices only above a projection or an aggregate, has plain right joins,
\* reads its files as they were written and whose aggregate the stages can merge.
AnswersTheQuery ==
    phase = "done" /\ (swallowed => output # <<>>)
        /\ StableIndices(plan) /\ PlainRightJoins(plan) /\ ReadAsWritten(plan)
        /\ Mergeable(physical)
      => \E rows \in Answers(plan) : Agrees(rows)

\* The optimizer never takes away a column that an expression, a join key or a
\* schema above the scan still needs, and no serializer loses one: a valid query
\* does not panic in any phase, seen or swallowed.
NoNeedlessPanic ==
    phase = "panicked" \/ swallowed =>
        ~ /\ WellFormed(plan) /\ Supported(plan) /\ WellTyped(plan)
          /\ StableIndices(plan) /\ PlainRightJoins(plan) /\ ReadAsWritten(plan)
          /\ \A n \in Nodes(optimize(plan).plan) : ~OverBareScan(n)
          /\ Transferable(plan)

\* HashJoinExec: a right join whose keys have one name on both sides returns what it means.
AnswersRightJoins ==
    phase = "done" /\ ~swallowed /\ TakesAllColumns(plan) => \E rows \in Answers(plan) : Agrees(rows)

\* DataSource::scan: "Scan the data source, selecting the specified columns", of a Parquet
\* file too, whose columns are not sorted by name.
AnswersParquetQueries ==
    phase = "done" /\ ~swallowed /\ NamesItsColumns(plan) /\ StableIndices(plan)
      => \E rows \in Answers(plan) : Agrees(rows)
===============================================================================
