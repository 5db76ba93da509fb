---------------------------- MODULE QueryPipeline ----------------------------
(***************************************************************************)
(* A query from the DataFrame that builds it to the rows it returns, in    *)
(* the three contexts that execute one: ExecutionContext optimizes the     *)
(* plan, lowers it to a physical plan and drains that plan's iterator;     *)
(* client::Context sends the plan to a Flight server, which does the same; *)
(* DistributedContext splits the physical plan into stages and sends those *)
(* to executors.  Nothing is checked while a DataFrame is built; an        *)
(* invalid query panics in a later phase.                                  *)
(*                                                                         *)
(* A panic on the blocking thread of a do_get ends the result stream like  *)
(* a normal end (module FlightStream): the client's call returns Ok, with  *)
(* the batches sent before.  On a Flight server optimizer, planner and     *)
(* operators run there; of a query in stages, the last stage does.         *)
(***************************************************************************)
EXTENDS Optimizer, PhysicalExec, PlanTransfer

\* No scan of the plan has a projection: DataFrames leave that to the optimizer.
ScansEverything(p) == \A n \in Nodes(p) : n.op = "scan" => n.projection = <<>>

SourcesOf(p) == {n.source : n \in {m \in Nodes(p) : m.op = "scan"}}

\* The names of the source's columns are among those that the optimizer sorts.
Sortable(source) == ToSet(Names(source_schema(source))) \subseteq ToSet(Alphabet)

CONSTANTS
    Databases,      \* the contents of the files: batches of rows
    Sources,        \* the data sources a DataFrame may start from
    Projections,    \* arguments of DataFrame::project
    Predicates,     \* of filter
    Aggregates,     \* of aggregate: pairs of group and aggregate expressions
    Limits,         \* of limit
    Joins,          \* of join: triples of a plan, a join type and keys
    MaxOps,         \* bound on the DataFrame operations of a query
    MaxRemoteOps    \* bound on those of a query for a server or executors

ASSUME QueryAssumption ==
    /\ MaxOps \in 0..MaxPlanDepth
    /\ Sources \subseteq DataSources
    /\ Projections \subseteq Seq(LogicalExprs)
    /\ Predicates \subseteq LogicalExprs
    /\ Aggregates \subseteq Seq(LogicalExprs) \X Seq(AggregateExprs)
    /\ Limits \subseteq Int
    /\ Joins \subseteq LogicalPlansWithin(MaxPlanDepth - MaxOps) \X JoinTypes \X Seq(STRING \X STRING)
    /\ \A j \in Joins : ScansEverything(j[1])
    /\ \A source \in Sources \cup UNION {SourcesOf(j[1]) : j \in Joins} : Sortable(source)

VARIABLES
    db,             \* the files
    plan,           \* the logical plan of the DataFrame
    ops,            \* how many operations built it
    phase,          \* see Phases
    context,        \* where it is executed, "none" while it is built
    received,       \* the plan that is optimized: what the server received
    optimized,      \* the plan after push-down
    physical,       \* the physical plan
    tasks,          \* the stages, as the executors received them
    output,         \* the batches the query returned
    swallowed       \* a panic ended the batches early, and nobody was told

vars == <<db, plan, ops, phase, context, received, optimized, physical, tasks, output, swallowed>>

Phases == {"building", "received", "optimized", "planned", "sent", "done", "panicked"}

\* Stands for a plan that does not exist yet.
NoPlan == [op |-> "none"]

TypeOK ==
    /\ db \in Databases
    /\ plan \in LogicalPlans
    /\ ops \in 0..MaxOps
    /\ phase \in Phases
    /\ context \in {"none", "local", "flight", "distributed"}
    /\ (phase = "building") = (context = "none")
    /\ phase \in {"optimized", "planned", "sent"} => optimized # NoPlan
    /\ phase \in {"planned", "sent"} => physical # NoPlan
    /\ phase = "done" /\ physical = NoPlan => swallowed
    /\ tasks # <<>> => context = "distributed"
    /\ swallowed \in BOOLEAN
    /\ swallowed => phase = "done" /\ context \in {"flight", "distributed"}
    /\ output # <<>> => phase = "done" /\ physical # NoPlan
    /\ \A i \in DOMAIN output : \A j \in DOMAIN output[i] :
         Len(output[i][j]) = Len(batch_types(physical))

Init ==
    /\ db \in Databases
    /\ plan \in {Scan(source, <<>>) : source \in Sources}
    /\ ops = 0
    /\ phase = "building"
    /\ context = "none"
    /\ received = NoPlan
    /\ optimized = NoPlan
    /\ physical = NoPlan
    /\ tasks = <<>>
    /\ output = <<>>
    /\ swallowed = FALSE

-------------------------------------------------------------------------------
(* DataFrame. *)

Extend(new) ==
    /\ phase = "building"
    /\ ops < MaxOps
    /\ plan' = new
    /\ ops' = ops + 1
    /\ UNCHANGED <<db, phase, context, received, optimized, physical, tasks, output,
                   swallowed>>

Project == \E expr \in Projections : Extend(Projection(plan, expr))
Filter == \E expr \in Predicates : Extend(Selection(plan, expr))
DoAggregate == \E a \in Aggregates : Extend(Aggregate(plan, a[1], a[2]))
DoLimit == \E n \in Limits : Extend(Limit(plan, n))
DoJoin == \E j \in Joins : Extend(Join(plan, j[1], j[2], j[3]))

-------------------------------------------------------------------------------
(* Execution. *)

\* A panic that the caller sees.
ReachesCaller == phase' = "panicked" /\ UNCHANGED <<output, swallowed>>

\* It ends the stream of a do_get, whose client returns what was sent.
EndsStream(sent) == phase' = "done" /\ output' = sent /\ swallowed' = TRUE

\* Before the first batch, on the thread where the context optimizes and plans.
PlanningPanics == IF context = "flight" THEN EndsStream(<<>>) ELSE ReachesCaller

\* ExecutionContext::execute and DistributedContext::execute get the plan as it is.
ExecuteHere ==
    /\ phase = "building"
    /\ \E c \in {"local", "distributed"} :
         /\ c = "distributed" => ops <= MaxRemoteOps
         /\ context' = c
    /\ phase' = "received"
    /\ received' = plan
    /\ UNCHANGED <<db, plan, ops, optimized, physical, tasks, output, swallowed>>

\* client::Context::execute, and the server's do_get up to its blocking thread: a panic
\* here fails the call.
ExecuteOnServer ==
    /\ phase = "building"
    /\ ops <= MaxRemoteOps
    /\ context' = "flight"
    /\ IF CanSerializePlan(plan) /\ CanDeserializePlan(plan)
       THEN /\ phase' = "received"
            /\ received' = transfer_logical_plan(plan)
       ELSE phase' = "panicked" /\ UNCHANGED received
    /\ UNCHANGED <<db, plan, ops, optimized, physical, tasks, output, swallowed>>

Optimize ==
    /\ phase = "received"
    /\ \E result \in {optimize(received)} :
         IF result.panic
         THEN PlanningPanics /\ UNCHANGED optimized
         ELSE phase' = "optimized" /\ optimized' = result.plan /\ UNCHANGED <<output, swallowed>>
    /\ UNCHANGED <<db, plan, ops, context, received, physical, tasks>>

CreatePhysicalPlan ==
    /\ phase = "optimized"
    /\ IF Lowerable(optimized)
       THEN /\ phase' = "planned" /\ physical' = create_physical_plan(optimized)
            /\ UNCHANGED <<output, swallowed>>
       ELSE PlanningPanics /\ UNCHANGED physical
    /\ UNCHANGED <<db, plan, ops, context, received, optimized, tasks>>

\* DistributedPlanner::plan, and each stage serialized for an executor and rebuilt there.
SendTasks ==
    /\ phase = "planned"
    /\ context = "distributed"
    /\ LET stages == plan_stages(physical)
       IN  IF \A i \in DOMAIN stages : CanSerializePhysicalPlan(stages[i])
           THEN /\ phase' = "sent"
                /\ tasks' = [i \in DOMAIN stages |-> transfer_physical_plan(stages[i])]
           ELSE phase' = "panicked" /\ UNCHANGED tasks
    /\ UNCHANGED <<db, plan, ops, context, received, optimized, physical, output, swallowed>>

\* The caller, or the client of a do_get, drains the plan's iterator.
Drain(x) ==
    \E stream \in Executions(x, db) :
        IF stream.panic
        THEN IF context = "local" THEN ReachesCaller ELSE EndsStream(stream.batches)
        ELSE phase' = "done" /\ output' = stream.batches /\ UNCHANGED swallowed

\* The first of two stages runs in a do_action, whose panic is an error of the call.
Execute ==
    /\ phase = IF context = "distributed" THEN "sent" ELSE "planned"
    /\ IF Len(tasks) = 2
       THEN \E written \in Executions(tasks[1], db) :
              IF written.panic THEN ReachesCaller ELSE Drain(update_shuffle_locations(tasks[2], written))
       ELSE Drain(IF context = "distributed" THEN tasks[1] ELSE physical)
    /\ UNCHANGED <<db, plan, ops, context, received, optimized, physical, tasks>>

\* The rows have been returned, or the query has failed.
Finished == phase \in {"done", "panicked"} /\ UNCHANGED vars

Next ==
    \/ Project \/ Filter \/ DoAggregate \/ DoLimit \/ DoJoin
    \/ ExecuteHere \/ ExecuteOnServer
    \/ Optimize \/ CreatePhysicalPlan \/ SendTasks \/ Execute
    \/ Finished

Spec == Init /\ [][Next]_vars

-------------------------------------------------------------------------------
(* Which queries return rows. *)

\* The query names its output columns: a projection or an aggregate, perhaps
\* filtered or limited.
NamesItsColumns(p) ==
    LET names[x \in LogicalPlans] ==
          \/ x.op \in {"projection", "aggregate"}
          \/ x.op \in {"selection", "limit"} /\ names[x.input]
    IN  names[p]

\* Indices only refer to columns that push-down leaves where they are.
StableIndices(p) ==
    \A n \in Nodes(p) : \A e \in ExpressionsOf(n) : \A ref \in References(e) :
        ref.op = "index" => NamesItsColumns(n.input)

\* Every file is read as it was written: only the local context keeps a CSV source's
\* declaration that there is no header line, and only a Flight query its lack of a schema.
ReadAsWritten(p) ==
    \A source \in SourcesOf(p) :
        /\ source.kind = "csv" =>
             /\ source.has_headers = (source.file \in HeaderLines)
             /\ context = "distributed" => source.has_headers
             /\ context = "flight" => source.schema = <<>>
        /\ source.kind = "parquet" =>
             LET names == Names(source_schema(source))
             IN  names = SelectSeq(Alphabet, LAMBDA n : n \in ToSet(names))

Supported(p) ==
    \A n \in Nodes(p) :
        /\ n.op = "aggregate" => \A a \in ToSet(n.aggregate_expr) : a.fn # "count_distinct"
        /\ \A e \in ExpressionsOf(n) : Operators(e) \cap {"not", "mod", "aggregate"} = {}

\* A Flight query's CSV sources have no declared schema, which the wire loses.
KeepsSchemas(p) ==
    context = "flight" => \A source \in SourcesOf(p) : source.kind = "csv" => source.schema = <<>>

\* push_down, the wire and create_physical_plan, the other way round: a query all of whose
\* names and indices are columns of the input they are written for is planned, once it is
\* where it runs: neither the caller nor do_get's blocking thread panics before that.  No
\* column is narrowed away that an expression, a join key or a schema above needs, also
\* where both sides of a join add to one set of names.
ValidIsPlanned ==
    phase \in {"panicked", "done"} /\ received # NoPlan /\ physical = NoPlan
      => ~ /\ WellFormed(plan) /\ Supported(plan)
           /\ StableIndices(plan) /\ KeepsSchemas(plan)

\* push_down and create_physical_expr: a query that names a column its input does
\* not have, or uses an unsupported operator, never returns rows, also when some
\* other table of the query has a column of that name.  From a Flight server, which
\* swallows its panic, it gets Ok without a batch; elsewhere it does not return.
OnlyWellFormedAnswered ==
    phase = "done" /\ (context = "flight" => output # <<>>)
        /\ StableIndices(plan) /\ ReadAsWritten(plan)
      => WellFormed(plan) /\ Supported(plan)
===============================================================================
