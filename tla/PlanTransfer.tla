----------------------------- MODULE PlanTransfer -----------------------------
(***************************************************************************)
(* Plans on the wire: a client::Context sends a logical plan to the Flight *)
(* server, a DistributedContext the physical plans of a query's stages to  *)
(* its executors.  Each is serialized to protobuf nodes and built anew on  *)
(* the other side.                                                         *)
(*                                                                         *)
(* transfer_... is what the deserializer builds from what the serializer   *)
(* wrote: what a node has no field for is lost.  A serializer or           *)
(* deserializer that panics is a predicate of its own (CanSerialize...,    *)
(* CanDeserialize...), and the operator beside it is used where it holds.  *)
(***************************************************************************)
EXTENDS PhysicalPlan

-------------------------------------------------------------------------------
(* Logical expressions: columns, literals, comparisons, AND and OR. *)

CanSerializeExpr(e) == Operators(e) \subseteq {"col", "lit"} \cup Comparisons \cup Connectives

\* Mutant: gteq is taken for gt.
FromWireOp_NoGtEq(op) ==
    CASE op = "multiply" -> "mult" [] op = "divide" -> "div" [] op = "gteq" -> "gt"
      [] op \notin {"multiply", "divide", "gteq"} -> op

\* The operators as deserialized: two have other names on the wire.
FromWireOp(op) ==
    CASE op = "multiply" -> "mult" [] op = "divide" -> "div"
      [] op \notin {"multiply", "divide"} -> op

transfer_logical_expr(e) ==
    LET built[x \in LogicalExprs] ==
          IF x.op \in Comparisons \cup Connectives
          THEN binary(FromWireOp(x.op), built[x.l], built[x.r])
          ELSE IF x.op = "col" THEN col(x.name) ELSE lit(x.value)
    IN  built[e]

transfer_logical_exprs(exprs) == [i \in DOMAIN exprs |-> transfer_logical_expr(exprs[i])]

-------------------------------------------------------------------------------
(* Logical plans.  A join is serialized, but no deserializer reads it. *)

CanSerializePlan(p) ==
    \A n \in Nodes(p) :
        /\ n.op = "scan" => n.source.kind \in {"csv", "parquet"}
        /\ \A e \in ExpressionsOf(n) : CanSerializeExpr(e)

CanDeserializePlan(p) == \A n \in Nodes(p) : n.op # "join"

ServerBatchSize == 1024

\* A CSV scan loses its declared schema and its batch size; a limit is a u32 on the wire.
transfer_logical_plan(p) ==
    LET source(s) == IF s.kind = "csv"
                     THEN CsvDataSource(s.file, <<>>, s.has_headers, ServerBatchSize)
                     ELSE ParquetDataSource(s.file)
        built[x \in LogicalPlans] ==
          LET input == built[x.input]
          IN  CASE x.op = "scan" -> Scan(source(x.source), x.projection)
                [] x.op = "selection" -> Selection(input, transfer_logical_expr(x.expr))
                [] x.op = "projection" -> Projection(input, transfer_logical_exprs(x.exprs))
                [] x.op = "limit" -> Limit(input, Wrap(x.limit % (2 * Half)))
                [] x.op = "aggregate" ->
                     Aggregate(input, transfer_logical_exprs(x.group_expr),
                               [i \in DOMAIN x.aggregate_expr |->
                                  aggregate_expr(x.aggregate_expr[i].fn,
                                                 transfer_logical_expr(x.aggregate_expr[i].expr))])
    IN  built[p]

-------------------------------------------------------------------------------
(* DistributedPlanner::plan: an aggregate at the root becomes two stages, any  *)
(* other plan is one.  Job, partitions and locations are DistributedQuery's.   *)

ShuffleWriter(input, partition_expr) ==
    [op |-> "shuffle_writer", input |-> input, partition_expr |-> partition_expr]
ShuffleReader(schema_) == [op |-> "shuffle_reader", schema |-> schema_]

\* Mutant: the final stage accumulates instead of merging.
plan_stages_NoFinal(x) ==
    IF x.op = "aggregate"
    THEN <<ShuffleWriter([x EXCEPT !.mode = "partial"], x.group),
           [x EXCEPT !.input = ShuffleReader(x.schema)]>>
    ELSE <<x>>

plan_stages(x) ==
    IF x.op = "aggregate"
    THEN <<ShuffleWriter([x EXCEPT !.mode = "partial"], x.group),
           [x EXCEPT !.input = ShuffleReader(x.schema), !.mode = "final"]>>
    ELSE <<x>>

-------------------------------------------------------------------------------
(* Physical plans. *)

\* The reader of the last stage gets the locations of what the first one wrote.
update_shuffle_locations(stage, written) == [stage EXCEPT !.input = @ @@ [written |-> written]]

ProtoTypes == {"bool", "i32", "i64", "u32", "f64", "utf8", "date32"}

CanSerializePhysicalExpr(e) ==
    \A x \in Terms(e) :
        /\ x.kind # "interval"
        /\ x.kind = "cast" => x.type \in ProtoTypes
        /\ x.kind = "binary" => x.op \notin Dates

\* The names that operators have on the wire.
op_name(op) ==
    CASE op = "mult" -> "multiply" [] op = "div" -> "divide" [] op \notin {"mult", "div"} -> op

transfer_physical_expr(e) ==
    LET built[x \in Terms(e)] ==
          CASE x.kind = "column" -> Column(x.index)
            [] x.kind = "literal" -> Literal(x.value)
            [] x.kind = "cast" -> CastTo(built[x.expr], x.type)
            [] x.kind = "binary" -> Binary(FromWireOp(op_name(x.op)), built[x.l], built[x.r])
    IN  built[e]

transfer_physical_exprs(exprs) == [i \in DOMAIN exprs |-> transfer_physical_expr(exprs[i])]

\* The expressions and the schema that the node of an operator holds.
SentExpressions(x) ==
    CASE x.op = "selection" -> {x.expr}
      [] x.op = "projection" -> ToSet(x.exprs)
      [] x.op = "aggregate" -> ToSet(x.group) \cup {a.input : a \in ToSet(x.aggregate)}
      [] x.op = "shuffle_writer" -> ToSet(x.partition_expr)
      [] OTHER -> {}

\* Limits, joins, tables in memory, intervals and dates with intervals panic.
CanSerializePhysicalPlan(x) ==
    \A y \in Parts(x) :
        /\ y.op \notin {"limit", "join"}
        /\ y.op = "scan" => y.source.kind \in {"csv", "parquet"}
        /\ y.op \in {"shuffle_reader", "projection", "aggregate"} =>
             ToSet(Types(y.schema)) \subseteq ProtoTypes
        /\ \A e \in SentExpressions(y) : CanSerializePhysicalExpr(e)

\* A scan sends the schema of its file, not that of its projection, and a CSV file is
\* always read with a header line.
transfer_physical_plan(x) ==
    LET source(s) == IF s.kind = "csv"
                     THEN CsvDataSource(s.file, source_schema(s), TRUE, ServerBatchSize)
                     ELSE ParquetDataSource(s.file)
        built[y \in Parts(x)] ==
          CASE y.op = "scan" ->
                 [op |-> "scan", source |-> source(y.source), projection |-> y.projection]
            [] y.op = "projection" ->
                 [op |-> "projection", input |-> built[y.input], schema |-> y.schema,
                  exprs |-> transfer_physical_exprs(y.exprs)]
            [] y.op = "selection" ->
                 [op |-> "selection", input |-> built[y.input],
                  expr |-> transfer_physical_expr(y.expr)]
            [] y.op = "aggregate" ->
                 [op |-> "aggregate", input |-> built[y.input], schema |-> y.schema,
                  types |-> Types(y.schema), mode |-> y.mode,
                  group |-> transfer_physical_exprs(y.group),
                  aggregate |-> [i \in DOMAIN y.aggregate |->
                      [fn |-> y.aggregate[i].fn,
                       input |-> transfer_physical_expr(y.aggregate[i].input)]]]
            [] y.op = "shuffle_writer" ->
                 ShuffleWriter(built[y.input], transfer_physical_exprs(y.partition_expr))
            [] y.op = "shuffle_reader" -> ShuffleReader(y.schema)
    IN  built[x]
===============================================================================
