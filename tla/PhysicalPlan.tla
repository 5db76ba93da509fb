----------------------------- MODULE PhysicalPlan -----------------------------
(***************************************************************************)
(* QueryPlanner, which lowers a logical plan to physical operators: names  *)
(* of columns become positions, and what has no physical form panics.      *)
(***************************************************************************)
EXTENDS LogicalPlan

-------------------------------------------------------------------------------
(* QueryPlanner. *)

create_physical_expr(e, s) ==
    LET physical[x \in LogicalExprs] ==
          CASE x.op = "col" -> Column(position(s, x.name))
            [] x.op = "index" -> Column(x.i)
            [] x.op = "lit" -> Literal(x.value)
            [] x.op = "interval" -> Interval(x.days)
            [] x.op = "alias" -> physical[x.expr]
            [] x.op = "cast" -> CastTo(physical[x.expr], x.type)
            [] x.op \in BinaryOps -> Binary(x.op, physical[x.l], physical[x.r])
    IN  physical[e]

\* Operators without a physical expression.
Unplannable == {"not", "mod", "aggregate"}

\* Mutant: a column name is only looked up when a batch is evaluated.
Lowerable_Late(p) ==
    \A n \in Nodes(p) :
        /\ HasSchema(n)
        /\ KeysResolve(n)
        /\ n.op = "aggregate" => \A a \in ToSet(n.aggregate_expr) : a.fn # "count_distinct"
        /\ \A e \in ExpressionsOf(n) : Operators(e) \cap Unplannable = {}

\* create_physical_expr and create_aggregate_expr return.
Lowerable(p) ==
    \A n \in Nodes(p) :
        /\ HasSchema(n)
        /\ KeysResolve(n)
        /\ n.op = "aggregate" => \A a \in ToSet(n.aggregate_expr) : a.fn # "count_distinct"
        /\ \A e \in ExpressionsOf(n) :
             /\ Operators(e) \cap Unplannable = {}
             /\ \A ref \in References(e) : ref.op = "col" => Resolved(ref, schema(n.input))

\* A negative limit becomes a huge one.
as_usize(n) == n % (2 * Half)

create_physical_exprs(exprs, s) == [i \in DOMAIN exprs |-> create_physical_expr(exprs[i], s)]

create_physical_plan(p) ==
    LET lowered[x \in LogicalPlans] ==
          LET input == lowered[x.input]
          IN  CASE x.op = "scan" -> [op |-> "scan", source |-> x.source, projection |-> x.projection]
                [] x.op = "selection" ->
                     [op |-> "selection", input |-> input,
                      expr |-> create_physical_expr(x.expr, schema(x.input))]
                [] x.op = "projection" ->
                     [op |-> "projection", input |-> input, schema |-> schema(x),
                      exprs |-> create_physical_exprs(x.exprs, schema(x.input))]
                [] x.op = "aggregate" ->
                     [op |-> "aggregate", input |-> input, schema |-> schema(x),
                      types |-> Types(schema(x)), mode |-> "complete",
                      group |-> create_physical_exprs(x.group_expr, schema(x.input)),
                      aggregate |-> [i \in DOMAIN x.aggregate_expr |->
                          [fn |-> x.aggregate_expr[i].fn,
                           input |-> create_physical_expr(x.aggregate_expr[i].expr, schema(x.input))]]]
                [] x.op = "limit" ->
                     [op |-> "limit", input |-> input, limit |-> as_usize(x.limit)]
                [] x.op = "join" ->
                     LET right == schema(x.right)
                     IN  [op |-> "join", left |-> lowered[x.left], right |-> lowered[x.right],
                          join_type |-> x.join_type,
                          left_keys |-> [i \in DOMAIN x.on |-> position(schema(x.left), x.on[i][1])],
                          right_keys |-> [i \in DOMAIN x.on |-> position(right, x.on[i][2])],
                          schema |-> schema(x),
                          right_columns_to_exclude |->
                              {i \in DOMAIN right : right[i].name \in duplicate_keys(x.on)}]
    IN  lowered[p]

-------------------------------------------------------------------------------
(* Physical plans as trees. *)

Inputs(x) ==
    CASE x.op \in {"scan", "shuffle_reader"} -> {}
      [] x.op = "join" -> {x.left, x.right}
      [] x.op \in {"selection", "projection", "aggregate", "limit", "shuffle_writer"} -> {x.input}

\* The operators of a physical plan: a logical plan's, and the second aggregate, the
\* writer and the reader that distribution adds.
Parts(x) ==
    LET within[n \in 0..(MaxPlanDepth + 3)] ==
            IF n = 0 THEN {x}
            ELSE LET outer == within[n - 1]
                 IN  outer \cup UNION {Inputs(y) : y \in outer}
    IN  within[MaxPlanDepth + 3]

-------------------------------------------------------------------------------
(* The schema an operator declares, and the types of the columns its batches   *)
(* have.  They differ for a scan without a projection, which declares no       *)
(* columns and reads them all, and for a Parquet scan whose projection is not  *)
(* in the file's order.                                                        *)

exec_schema(x) ==
    LET declared[y \in Parts(x)] ==
          CASE y.op = "scan" -> select(source_schema(y.source), y.projection)
            [] y.op \in {"selection", "limit"} -> declared[y.input]
            [] y.op \in {"projection", "aggregate", "join", "shuffle_reader"} -> y.schema
    IN  declared[x]

batch_types(x) ==
    LET types[y \in Parts(x)] ==
          CASE y.op = "scan" ->
                 Types(select(source_schema(y.source), ScannedColumns(y.source, y.projection)))
            [] y.op \in {"selection", "limit"} -> types[y.input]
            [] y.op \in {"projection", "aggregate", "join", "shuffle_reader"} -> Types(y.schema)
    IN  types[x]
===============================================================================
