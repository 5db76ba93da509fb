----------------------------- MODULE LogicalPlan -----------------------------
(***************************************************************************)
(* Logical plans and logical expressions as trees of records, and the      *)
(* schema a plan derives from its inputs.  A Rust panic is a predicate of  *)
(* its own: Resolved and HasSchema say where to_field and schema() return. *)
(***************************************************************************)
EXTENDS HashAggregate, DataSource

CONSTANTS
    Literals,       \* the values of literals, and of the numbers of days of intervals
    MaxPlanDepth    \* bound on how deep plans are nested

ASSUME PlanDepthAssumption == MaxPlanDepth \in Nat

-------------------------------------------------------------------------------
(* Expressions.  An expression has a fixed set of operands, by its operator.   *)

col(name) == [op |-> "col", name |-> name]
col_index(i) == [op |-> "index", i |-> i]
lit(value) == [op |-> "lit", value |-> value]
lit_long(n) == lit(Scalar("i64", n))
lit_interval(days) == [op |-> "interval", days |-> days]
alias(expr, name) == [op |-> "alias", expr |-> expr, name |-> name]
cast(expr, type) == [op |-> "cast", expr |-> expr, type |-> type]
binary(op, l, r) == [op |-> op, l |-> l, r |-> r]
not_(expr) == [op |-> "not", expr |-> expr]

\* An aggregate: as an argument of DataFrame::aggregate, or bridged into an expression.
aggregate_expr(fn, expr) == [op |-> "aggregate", fn |-> fn, expr |-> expr]

BinaryOps == Comparisons \cup Connectives \cup Maths \cup {"mod"} \cup Dates
UnaryOps == {"alias", "cast", "not", "aggregate"}
AggregateFns == {"sum", "min", "max", "avg", "count", "count_distinct"}

\* The expressions whose operands are in a set.
ExprForms(inner) ==
    [op : {"col"}, name : STRING]
      \cup [op : {"index"}, i : Nat]
      \cup [op : {"lit"}, value : Literals]
      \cup [op : {"interval"}, days : {v.n : v \in Literals}]
      \cup [op : {"alias"}, expr : inner, name : STRING]
      \cup [op : {"cast"}, expr : inner, type : STRING]
      \cup [op : {"not"}, expr : inner]
      \cup [op : {"aggregate"}, fn : AggregateFns, expr : inner]
      \cup [op : BinaryOps, l : inner, r : inner]

\* The expressions that are nested at most n deep.
LogicalExprsWithin(n) ==
    LET within[k \in 0..MaxExprDepth] == ExprForms(IF k = 0 THEN {} ELSE within[k - 1])
    IN  within[n]

LogicalExprs == LogicalExprsWithin(MaxExprDepth)
AggregateExprs == {e \in LogicalExprs : e.op = "aggregate"}

operands(e) ==
    CASE e.op \in BinaryOps -> {e.l, e.r}
      [] e.op \in UnaryOps -> {e.expr}
      [] e.op \notin BinaryOps \cup UnaryOps -> {}

Subexpressions(e) ==
    LET within[x \in LogicalExprs] == {x} \cup UNION {within[y] : y \in operands(x)}
    IN  within[e]

\* Every column reference of the expression.
References(e) == {f \in Subexpressions(e) : f.op \in {"col", "index"}}

Operators(e) == {f.op : f \in Subexpressions(e)}

Resolved(ref, schema) ==
    IF ref.op = "col" THEN position(schema, ref.name) # 0 ELSE ref.i \in DOMAIN schema

\* The name of a literal's column: strings, numbers and dates as they are written.
LiteralName(v) ==
    CASE v.d = 1 -> ToString(v.n)
      [] v.d = 0 -> "word " \o ToString(v.n)
      [] v.d \notin {0, 1} -> ToString(v.n) \o "/" \o ToString(v.d)

IntervalName(days) == ToString(days) \o " days"

ASSUME LiteralsAssumption ==
    /\ Literals \subseteq [type : STRING, n : Int, d : Nat]
    /\ \A v \in Literals : LiteralName(v) \in STRING /\ IntervalName(v.n) \in STRING

\* The names and the types that to_field makes up.
MadeUpNames == BinaryOps \cup {"not", "SUM", "MIN", "MAX", "AVG", "COUNT", "COUNT_DISTINCT"}
MadeUpTypes == {"interval", "date32", "bool", "i32", "u32"}

\* True of every string literal, but unknown to the provers unless it is said.
ASSUME MadeUpAssumption == MadeUpNames \cup MadeUpTypes \subseteq STRING

\* The field an expression produces.  An interval evaluates to an i64 whatever its field says.
to_field(e, s) ==
    LET field[x \in LogicalExprs] ==
          CASE x.op = "col" -> s[position(s, x.name)]
            [] x.op = "index" -> s[x.i]
            [] x.op = "lit" -> Field(LiteralName(x.value), x.value.type)
            [] x.op = "interval" -> Field(IntervalName(x.days), "interval")
            [] x.op = "alias" -> Field(x.name, field[x.expr].type)
            [] x.op = "cast" -> Field(field[x.expr].name, x.type)
            [] x.op \in Dates -> Field(x.op, "date32")
            [] x.op \in Comparisons \cup Connectives \cup {"not"} -> Field(x.op, "bool")
            [] x.op \in Maths \cup {"mod"} -> Field(x.op, field[x.l].type)
            [] x.op = "aggregate" /\ x.fn = "count" -> Field("COUNT", "i32")
            [] x.op = "aggregate" /\ x.fn = "count_distinct" -> Field("COUNT_DISTINCT", "u32")
            [] OTHER -> Field([sum |-> "SUM", min |-> "MIN", max |-> "MAX", avg |-> "AVG"][x.fn],
                              field[x.expr].type)
    IN  field[e]

\* The references to_field looks up: only those that give the field its name or type.
FieldReferences(e) ==
    LET looked_up[x \in LogicalExprs] ==
          CASE x.op \in {"col", "index"} -> {x}
            [] x.op \in Maths \cup {"mod"} -> looked_up[x.l]
            [] x.op \in {"lit", "interval", "not"} \cup Dates \cup Comparisons \cup Connectives -> {}
            [] x.op = "aggregate" /\ x.fn \in {"count", "count_distinct"} -> {}
            [] OTHER -> looked_up[x.expr]
    IN  looked_up[e]

-------------------------------------------------------------------------------
(* Plans. *)

Scan(source, projection) == [op |-> "scan", source |-> source, projection |-> projection]
Projection(input, exprs) == [op |-> "projection", input |-> input, exprs |-> exprs]
Selection(input, expr) == [op |-> "selection", input |-> input, expr |-> expr]
Aggregate(input, group, aggr) ==
    [op |-> "aggregate", input |-> input, group_expr |-> group, aggregate_expr |-> aggr]
Limit(input, n) == [op |-> "limit", input |-> input, limit |-> n]
Join(left, right, type, on) ==
    [op |-> "join", left |-> left, right |-> right, join_type |-> type, on |-> on]

children(p) ==
    CASE p.op = "scan" -> {}
      [] p.op = "join" -> {p.left, p.right}
      [] OTHER -> {p.input}

JoinTypes == {"inner", "left", "right"}

\* The plans whose inputs, and whose expressions, are in a set.
PlanForms(inner, exprs) ==
    [op : {"scan"}, source : DataSources, projection : Seq(STRING)]
      \cup [op : {"projection"}, input : inner, exprs : Seq(exprs)]
      \cup [op : {"selection"}, input : inner, expr : exprs]
      \cup [op : {"aggregate"}, input : inner, group_expr : Seq(exprs),
            aggregate_expr : Seq({e \in exprs : e.op = "aggregate"})]
      \cup [op : {"limit"}, input : inner, limit : Int]
      \cup [op : {"join"}, left : inner, right : inner, join_type : JoinTypes,
            on : Seq(STRING \X STRING)]

\* The plans that are nested at most n deep.
LogicalPlansWithin(n) ==
    LET within[k \in 0..MaxPlanDepth] ==
          PlanForms(IF k = 0 THEN {} ELSE within[k - 1], LogicalExprs)
    IN  within[n]

LogicalPlans == LogicalPlansWithin(MaxPlanDepth)

Nodes(p) ==
    LET within[x \in LogicalPlans] == {x} \cup UNION {within[c] : c \in children(x)}
    IN  within[p]

\* The names of keys that are called the same on both sides.
duplicate_keys(on) == {on[i][1] : i \in {j \in DOMAIN on : on[j][1] = on[j][2]}}

Without(schema, names) == Among(schema, {f \in ToSet(schema) : f.name \notin names})

Join_schema(type, left, right, on) ==
    IF type = "right" THEN Without(left, duplicate_keys(on)) \o right
    ELSE left \o Without(right, duplicate_keys(on))

\* The expressions that name the output columns of a projection or an aggregate.
OutputExprs(p) == IF p.op = "projection" THEN p.exprs ELSE p.group_expr \o p.aggregate_expr

schema(p) ==
    LET derived[x \in LogicalPlans] ==
          CASE x.op = "scan" ->
                 IF x.projection = <<>> THEN source_schema(x.source)
                 ELSE select(source_schema(x.source), x.projection)
            [] x.op \in {"projection", "aggregate"} ->
                 LET exprs == OutputExprs(x)
                 IN  [i \in DOMAIN exprs |-> to_field(exprs[i], derived[x.input])]
            [] x.op = "join" -> Join_schema(x.join_type, derived[x.left], derived[x.right], x.on)
            [] OTHER -> derived[x.input]
    IN  derived[p]

\* The expressions a node evaluates against its input.
ExpressionsOf(p) ==
    CASE p.op = "projection" -> ToSet(p.exprs)
      [] p.op = "selection" -> {p.expr}
      [] p.op = "aggregate" ->
           ToSet(p.group_expr) \cup {p.aggregate_expr[i].expr : i \in DOMAIN p.aggregate_expr}
      [] OTHER -> {}

\* The references schema() looks up: those that name or type an output column.
SchemaReferences(p) ==
    IF p.op \in {"projection", "aggregate"}
    THEN UNION {FieldReferences(e) : e \in ToSet(OutputExprs(p))} ELSE {}

\* Does schema() return?
HasSchema(p) ==
    LET has[x \in LogicalPlans] ==
          /\ \A c \in children(x) : has[c]
          /\ \A ref \in SchemaReferences(x) : Resolved(ref, schema(x.input))
          /\ x.op = "scan" =>
               ToSet(x.projection) \subseteq ToSet(Names(source_schema(x.source)))
    IN  has[p]

KeysResolve(p) ==
    p.op = "join" => \A i \in DOMAIN p.on :
        position(schema(p.left), p.on[i][1]) # 0 /\ position(schema(p.right), p.on[i][2]) # 0

\* Every name and index of the plan refers to a column.
WellFormed(p) ==
    \A n \in Nodes(p) :
        /\ HasSchema(n)
        /\ KeysResolve(n)
        /\ \A e \in ExpressionsOf(n) : \A ref \in References(e) : Resolved(ref, schema(n.input))
===============================================================================
