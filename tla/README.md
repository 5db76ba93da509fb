# Verification of rquery

TLA+ models of rquery, a SQL query engine on Apache Arrow with a distributed
mode over Arrow Flight, model-checked with TLC and, where marked, proved with
TLAPS.  Paths are relative to `src/`.

## 1. The system

| Component | State it keeps | Operations | Talks to |
|---|---|---|---|
| Contexts: `ExecutionContext`, `ParallelContext`, `DistributedContext`, `client::Context` | table registry | `register*`, `sql`, `execute` | everything below, in sequence |
| SQL front end (`sql`) | token position | tokenize, Pratt `parse`, `create_data_frame` | logical plan |
| Data sources (`datasource`) | a file name or batches, perhaps a declared schema | `schema`, `scan(projection)` | files |
| Plan serialization (`protobuf`) | none | logical plans to a Flight server, physical plans to executors, and back | contexts, Flight server |
| Logical plan, optimizer, query planner | none (trees) | projection pushdown, lowering to physical operators | physical plan |
| Physical operators (`physical-plan`) | per-execution hash tables | `execute(ctx)` returning an iterator of batches | their input, data sources |
| Accumulators | running aggregate | `accumulate`, `merge`, `final_value`, `intermediate_value` | hash aggregate |
| Parallel context | buckets, partial batches | deal, partial aggregate on rayon threads, final aggregate | hash aggregate |
| Scheduler, distributed planner | job uuid, `locations_by_stage` | plan stages, run tasks round robin, run the final task | executor client |
| Executor client, Flight client | one gRPC channel per executor | `execute_task` (`do_action`), `execute_final_task` (`do_get`) | Flight server |
| Flight server | executor identity, shuffle directory | `do_action("execute_task")`, `do_get` | shuffle writer and reader |
| Shuffle storage | files `{base}/{job}/{stage}/partition_{p}.arrow` | `write_partition`, `read_partition` | file system, shared by the jobs and servers of a host |

Where it is hard:

* **`do_get`** is a pipeline of four parties (blocking thread, bounded channel,
  encoder, client), each of which may stop, panic or vanish while the others run.
* **Distributed jobs** run concurrently on executors that share directories and,
  as `flight_server` hard-codes its id, identities; files are truncated and
  rewritten by every task of a stage; servers crash and restart.
* **Two-phase aggregation** evaluates the same expressions twice, over two
  different row layouts, with partial states that overflow, are null or do not
  fit into a column.
* **Positions and names**: push-down narrows and re-orders columns after the query was
  written and before names become positions; schemas are derived three times over
  (logical plan, operators, batches) and have to agree.
* **Three places to run**: locally, on a Flight server and in stages on executors the
  same query is rebuilt from what the wire carries, which is less than what was sent.
* **SQL** nests by precedence alone, filters above the SELECT list rather than below it,
  and refers to the columns of an aggregate by number.
* **Failures are panics**, and who sees one depends on the thread it happens in: one on the
  blocking thread of a `do_get` ends the client's stream like a normal end, so that a failed
  query looks like one with fewer rows, or none.

`PROJECT.json` lists these hazards with their lines and the properties for each.

What makes the parts correct: a result stream delivers the plan's batches in
order and completely or says otherwise; no thread or caller waits for ever; a
final task never meets a missing, truncated or foreign file; stages run in
order; splitting an aggregation does not change its answer; the optimized and
lowered query returns what the `DataFrame` asked for, wherever it runs; a statement
is parsed as it is written, and its rows are those its clauses mean.

## 2. Modules

| Module | Models | Uses |
|---|---|---|
| `ResultStream` | what `Client::do_get` promises, abstractly | |
| `FlightStream` | `do_get` from client to blocking thread and back | refines `ResultStream` |
| `FlightStreamProofs` | TLAPS proofs about it | `FlightStream` |
| `DistributedQuery` | planner, scheduler, executor client, `do_action`, shuffle files, final task, crashes | refines `QueryJobs` |
| `QueryJobs` | what `Scheduler::execute` promises its callers, abstractly | |
| `DistributedQueryProofs` | TLAPS proofs about the files and the stages | `DistributedQuery` |
| `DistributedAnswerProofs` | TLAPS proofs about the answers and the promise | `DistributedQueryProofs` |
| `Expressions` | scalars, vectors and physical expressions: comparison, AND and OR, arithmetic, casts, dates | |
| `HashAggregate` | `HashAggregateExec` and the accumulators, as operators | `Expressions` |
| `ParallelAggregate` | `ParallelContext::execute_parallel_aggregate` | `HashAggregate` |
| `Reductions` | lemmas, proved with TLAPS: reducing sequences in a commutative monoid, loops as recursive functions | |
| `AggregateProofs` | TLAPS proofs about the accumulators | `ParallelAggregate`, `Reductions` |
| `ExecuteProofs` | TLAPS proofs about `HashAggregateExec::execute` in its three modes | `AggregateProofs` |
| `ParallelAggregateProofs` | TLAPS proofs about dealing, workers, merging and the answers | `ExecuteProofs` |
| `DataSource` | schemas; CSV, Parquet and in-memory sources | `Expressions` |
| `LogicalPlan` | logical plans and expressions, `schema`, `to_field` | `DataSource` |
| `Optimizer` | `ProjectionPushDownRule` | `LogicalPlan` |
| `PhysicalPlan` | `QueryPlanner`, the schemas of physical operators | `LogicalPlan` |
| `PhysicalExec` | `execute` of scan, selection, projection, limit, aggregate and join, and of stages | `PhysicalPlan`, `HashAggregate` |
| `PlanTransfer` | the split into stages, serialization and deserialization of plans | `PhysicalPlan` |
| `QueryPipeline` | a `DataFrame` from its first operation to its rows, in three contexts | `Optimizer`, `PhysicalExec`, `PlanTransfer` |
| `QueryAnswers` | what a query means, and that the pipeline returns that | `QueryPipeline` |
| `QueryPipelineProofs` | TLAPS proofs about schemas, push-down, the wire and the phases of a query | `QueryPipeline`, `Reductions` |
| `SqlTokenizer`, `SqlParser`, `SqlPlanner` | the SQL front end, as operators | each the one before |
| `SqlText` | how a statement is written: the reference for the parser | `SqlParser` |
| `SqlQuery` | registration of tables, `sql`, and then the phases of `QueryPipeline` | `QueryAnswers`, `SqlPlanner`, `SqlText` |
| `MC*` | values of the constants for TLC | the module they are named after |

Operators called `X_Something` and introduced by a comment "Mutant" are variants
of `X` with one plausible mistake.  No specification uses them; each shows that a
property notices the mistake.

### FlightStream

`request` is what the ticket decodes to.  `task` wins over `query`; an
undecodable ticket, neither payload or a payload whose deserialization panics
end in an error status (`Refuse`), everything else in a channel and a blocking
thread (`Spawn`).  The thread's loop is `Pull`, `Send`, `SendFails`, `PlanEnds`;
`PlanPanics` unwinds it at any point of the iterator.  `Encode` turns the batch
at the head of the channel into messages, `Transmit` hands one to gRPC.
`EndOfStream` is the end of the receiver's stream, which gRPC reports as OK
however the thread ended: the `JoinHandle` is dropped, so nobody learns of a
panic.  `DropStream`, `ConnectionLost` and `Abandon` are tonic and the outside
world.  `Receive`, `ReturnOk` and `ReturnErr` are the loop of `Client::do_get`.

Batches are their numbers.  Data messages are numbered over the whole result and
the schema message is 0, so loss, duplication and reordering are visible as
gaps.  `Ends[k]` is the number of data messages of the first k batches; a batch
may need none or several.

### DistributedQuery

A job is one `Scheduler::execute`.  `phase`, `stage`, `task`, `locations` and
`locationsByStage` are its local variables, `handler` the RPC it waits for (a
scheduler makes one at a time), `files` the shuffle directories of all servers.
Rows are abstracted to their group: a partial aggregate emits one row per group,
and `answer` counts how often each was merged.  Writing a partition is two steps,
`CreateFile` (which truncates) and `FinishFile`, so other jobs and crashes fall
between them.  `ServerId` and `ShuffleDir` say which servers share an identity
or a directory.  A final task over shuffle files is an aggregate, which sends its one batch
after the last file is read; that of a plain plan sends batch after batch (`SendBatch`), and
`SourcePanics` may come before any of them.  A panic in the final task ends its stream like a
normal end (`Swallow`, the behaviour that `FlightStream` derives in detail): an aggregate
then has no answer, and a plain plan the batches sent so far (`Remains`).

`QueryJobs` says what a caller may rely on although directories, identities and
servers are shared: a job ends once, either with a panic or with an answer that it
could also get with no other job and no crash (`Alone`), and that answer stays.  For a plain
plan these are all parts of its batches, since its source may panic at any moment.

### HashAggregate and ParallelAggregate

Scalars carry a type, so that `scalar_add`, `cmp_scalar` and `append_value` panic
on the values on which the code panics; integers are in `-Half..(Half - 1)` and wrap.
The rows of a group go into its accumulators in input order (`Accumulated`); the output
is a set because a `HashMap` determines its order.  `Dealt` and `PartialBatches` are the
loops that fill the buckets and collect the results.  Workers are independent actors; a
worker's panic is rethrown after the others have finished, as rayon does.

`GroupBy` is the reference: GROUP BY stated on the whole input at once, without
accumulators, batches or workers.  COUNT is the number of the group's rows with a value
(`Members`), SUM their total (`TotalOf`), wrapped once at the end, AVG that total by
their number, MIN and MAX a value that no other is better than.  `Aligned` plans are those
whose expressions name the same columns in the aggregate's output as in its input, whose
functions take the types of their arguments, and whose output types are those the planner
derives; others are run too, and their answers are `parallel_unaligned`.  Input columns
have any type but double (`ColumnTypes`): the sum of doubles depends on its order, so that
a split legitimately changes it.

### Expressions and DataSource

A vector is a sequence of scalars with the type its `data_type` declares, and
expressions are evaluated on the rows of a batch as the code does it: both sides, their
coercion (`f64` for numbers of two types), then row by row.  A double is an exact fraction
`[n, d]`, so that casts, division and AVG are visible; rounding and NaN are not.
Integers wrap at `Half`.  An expression that panics evaluates to `PanicVector`, and takes
the batch with it.  `evaluate` is a recursive function on the expression's `Terms`, which
go as deep as `MaxExprDepth`.

A file has batches of rows.  A CSV source makes batches of its own size of them, takes
the first line for a header if told so, and parses fields as its declared schema; without
one it infers the file's.  A Parquet source returns the projected columns in the order of
the file, the others in that of the projection.

### LogicalPlan to QueryAnswers

One behaviour is one query: `Project`, `Filter`, `DoAggregate`, `DoLimit` and
`DoJoin` are the methods of `DataFrame` and build `plan`.  It then runs in one of three
contexts.  `ExecuteHere` is `execute` of a local or a distributed context,
`ExecuteOnServer` that of `client::Context`: the plan is serialized, and what the server
deserializes is `received`.  `Optimize` and `CreatePhysicalPlan` follow in all three;
`SendTasks` splits a distributed query's physical plan into stages and sends each through
the wire; `Execute` drains the plan, or the stages.  Each step may panic, and nothing
is checked before.  Who learns of it depends on the thread.  `ReachesCaller` is a panic of the
caller's own thread, of a `do_get` before it spawns one, or of a `do_action`, whose client
panics.  `EndsStream` is one on the blocking thread of a `do_get`: the call returns Ok with the
batches sent before, and the ghost variable `swallowed` remembers the panic.  A Flight server
optimizes, plans and runs a query there (`PlanningPanics`, `Drain`), an executor the last stage
of a distributed one (`Drain`).  Panics are predicates beside the operators: `Extractable` and
`HasSchema` for the optimizer, `Lowerable` for the planner, `CanSerialize...` for the wire,
and in a *stream*, which stands for a lazy iterator of batches as its consumer sees it,
the flag `panic`.

Expressions and plans are trees.  `LogicalExprsWithin` and `LogicalPlansWithin` are those of a
given depth, the functions on them are recursive functions on the set of all up to
`MaxExprDepth` and `MaxPlanDepth`, and `Literals` are the values that expressions contain:
the program bounds none of the three, and a theorem for every value of the constants is one about
every query.

`push_down` returns the plan and the set of names, because the Rust code passes
one mutable set into both sides of a join.  `Executions` is a set of streams:
`HashMap` order decides the order of the rows of an aggregate and of the
unmatched rows of a right join, and a right join executes its left input a second
time.  The schema that an operator declares (`exec_schema`) and the columns of its
batches (`batch_types`) are kept apart: they differ for a scan with an empty
projection and for Parquet.

What the wire loses is in `PlanTransfer`: a Flight query's CSV sources lose their declared
schema, an executor's lose the declaration that there is no header line, both their batch
size; joins, tables in memory and, for Flight, every expression other than columns,
literals, comparisons, AND and OR panic.  `update_shuffle_locations` gives a
distributed query's last stage what the first one wrote, and `Executions` runs both once,
on one executor: how often and where tasks run is `DistributedQuery`.

`QueryPipeline` ends with the two properties about which queries are planned and return at all
(`ValidIsPlanned`, `OnlyWellFormedAnswered`): an ill-formed query panics in the caller's sight,
or gets Ok without a batch from a Flight server.  `QueryAnswers` has those about what they return.  Its `Answers` is what a query means, written without batches, positions, push-down or
hash tables: the rows that its plan may return, by the names in its schema.  Where
SQL and the program differ without the repository promising either, it follows
the program: NULL join keys match each other, and a negative limit is none.

`AnswersTheQuery` compares the returned rows with one of these answers as bags.  Where a
panic was swallowed they are a part of it: rows may be missing, but none is wrong or doubled.
Where the plan names no output columns (`NamesItsColumns`, `TakesAllColumns`), that is with a
filter at the root, push-down narrows the scan to the columns of the predicate; the rows are
then compared on the columns that are returned (`ReturnedColumns`).  The property has
premises, each of which stands for a behaviour of the code:

* the query uses indices only where push-down moves nothing (`StableIndices`): an index is not
  moved with the columns;
* its right joins have keys of different names (finding 3) and no LIMIT on the left
  (`PlainRightJoins`): over an aggregate a LIMIT may keep other groups when the left
  input runs a second time, and a right row is then lost or doubled;
* the context reads files as they were written (`ReadAsWritten`): see what the wire loses;
  and the columns of a Parquet file are sorted by name (finding 4);
* an aggregate that is split into stages reads from the partial rows what it reads from
  the table (`Mergeable`), as in `ParallelAggregate`.

`NoNeedlessPanic` moreover excludes a filter or limit directly on a scan without columns
(`OverBareScan`): it declares no columns, and cutting a batch checks it against that.  Locally
that is a panic; `limit(2)` of a table through a Flight server is Ok without rows.

### SQL

A text is a sequence of runs: a word, digits, a date, a blank or another character.
`tokenize`, `parse` with `parse_prefix`, `next_precedence` and `parse_infix`, and
`create_data_frame` keep the names and the control of the code; a parser's result is an
expression and the position after it, or a panic.  In `SqlQuery`, `Register` fills the
table registry, `Tokenize`, `Parse` and `PlanStatement` are the three steps of `sql`, and
`Run` continues as `QueryPipeline` does.

The reference goes the other way: a behaviour starts with a *statement*, and `SqlText`
writes it, with all blanks or only the necessary ones, keywords in either case, and only
the parentheses that SQL's operators need.  `ParsesAsWritten` says that the parser gets
the statement back.  Other texts are written from nothing (`OtherTexts`).  What may be said of
them is less than one would like, because the parser stops after a complete statement and does
not look at what follows, and because a clause whose operand is missing at the end of the text
is taken for one that is not there: `SELECT a FROM t WHERE` and `SELECT a FROM t)` are
answered with rows.  `OnlyStatementsAnswered` says that what is answered is a statement that
the text *begins* with: written again it has the tokens of a part of the text from its first
one on, apart from redundant parentheses, which are closed there.  No token is skipped, taken
for another or left out in the middle.  `Meanings` is what it means: WHERE on the rows of the table, then
groups or the SELECT list, then HAVING and LIMIT.

`AnswersTheStatement` has as premises that the statement has no `<>` and no LIMIT beyond
an i32 (`Parsable`), no ORDER BY, no HAVING without an aggregate, which are dropped, and
no expression that the planner does not know (`Planned`), that the SELECT list gives no
other value a name that WHERE uses (`WhereSeesTable`), and that it has the group columns in
the order of GROUP BY (`GroupsInOrder`).  `SupportedNeverPanics` adds what the planner
supports and the types of operands.

## 3. Runs

| Run | Instance | What it shows |
|---|---|---|
| `flight_stream` | 8 batches (with 0, 1 and 2 data messages), channel of 4, window of 2 | all properties of `FlightStream`, liveness and refinement included |
| `distributed_query` | 2 aggregates and a plain plan, 3 executors with one id, 2 of them sharing a directory, 3 partitions, 1 crash | jobs neither disturb each other's files nor miss an input; the reader takes the third server's locations for its own and still finds the right rows, because every task wrote everything |
| `own_identities` | 2 servers with ids of their own, 3 partitions | every aggregate's answer is lost, and only for that reason; jobs end |
| `parallel_aggregate` | 5 functions, up to 3 rows, 3 batches and 3 workers, 2-bit integers, null keys and values | the parallel plan computes GROUP BY, and panics only for AVG |
| `query_pipeline` | queries of up to 3 operations (2 for a server or executors) over 4 sources and 2 databases | the rows are those the query means, or some of them after a swallowed panic; invalid queries return no rows, valid ones never panic |
| `sql_query` | 97 statements in 4 spellings, 138 other texts, 2 tables, 2 databases, 3 contexts | statements are parsed as written and answered as meant; another text is answered only as the statement it begins with |
| `distributed_exact` | one executor, two partitions | refutes: each partial row is merged once |
| `parallel_unaligned` | COUNT of a literal, two aggregates of one column, value column first | refutes: parallel equals sequential |
| `right_join` | a right join on `id = id` | refutes: the layout of a right join is that of its schema |
| `parquet_order` | a projection of a file with columns `id`, `a` | refutes: a scan returns the columns it was asked for |
| `sql_where` | `SELECT id AS a, id FROM t WHERE a = 1` | refutes: WHERE filters the rows of the table |
| `sql_not_equal` | `SELECT id FROM t WHERE id <> 1` | refutes: every operator that is planned is parsed |

**Properties.**  `FlightStream`: what arrives is a prefix of the result
(`InOrder`); Ok without a panic means all of it (`OkMeansComplete`); the decoder
never fails (`ErrOnlyFromStatus`); the plan is at most Capacity + 2 batches ahead
of the transport (`Backpressure`); Ok after a panic means exactly the batches that the thread
had handed over, those included that were still on their way (`PartialOkStopsAtPanic`); calls return (`CallReturns`); the blocking thread is released
(`ThreadReleased`); the whole implements `ResultStream` (`KeepsPromise`).
`DistributedQuery`: `StageOrder`; the files a final task opens are finished and
hold exactly its rows (`FinalInputsComplete`); nobody writes to them meanwhile
(`FilesStableWhileRead`); each group of an aggregate is merged exactly partition-count times
and each batch of a plain plan returned once, or a panic was swallowed and an aggregate's answer
is empty and a plain plan's holds no batch twice (`AnswerMultiplicity`); an aggregate's answer is lost exactly if the shuffle crosses identities
(`SwallowedExactlyIfRemote`); the whole implements `QueryJobs`
(`JobsAnswerAlone`); jobs end (`JobsEnd`).  `ParallelAggregate`:
`AlignedIsGroupBy` and `PanicsOnlyForAvg`, where *aligned* means that the
expressions name the same columns in the aggregate's output as in its input.
`QueryPipeline`: the returned rows are an answer (`AnswersTheQuery`); a query that
refers to a column that is not there, or uses an unsupported operator, never returns rows, and
does not return at all but from a Flight server (`OnlyWellFormedAnswered`); one whose columns are all there is never refused by the
optimizer or the planner, whatever push-down narrowed (`ValidIsPlanned`), and if its types
fit too it does not panic while it runs, seen or swallowed (`NoNeedlessPanic`).  `SqlQuery`: `ParsesAsWritten`,
`OnlyStatementsAnswered` (a text that is no statement is answered only if it begins with one),
the rows are those of the statement (`AnswersTheStatement`), and no projection that the planner inserts
takes away a column that another clause needs (`SupportedNeverPanics`).

**Bounds.**  Eight batches are two more than the pipeline can hold (a channel
of 4, one in `blocking_send`, one in the encoder), so every party blocks on every
other.  Three partitions leave one empty and, on two executors, make round robin wrap
around; zero stands for the number of executors.  One crash at any point meets every phase of every job; the
proofs cover any number.  Two-bit integers overflow with the sum of two values,
and three rows in three batches reach every way of splitting a group of two and
another row.  Sorting by name re-orders the columns of `t` and `u`, and both have
an `id`; the databases have rows without a partner on either side, a key with two
partners, NULL keys and values, batches that a limit cuts, an empty batch and an
empty table; three operations put every operator above and below every other with
one between them, the right side of a join is a scan or a projection, and its keys are one or
two pairs, of the same name or of different ones.  The sources are
a CSV file, one without a header line and with a declared schema, a Parquet file and a
table in memory.  Eight bits are enough for the values that occur, and a batch size of two
cuts the CSV files.  No plan or expression of these runs is deeper than `MaxPlanDepth` and
`MaxExprDepth`: 4 and 3, for SQL 6 and 3.  The SQL statements combine four SELECT lists, seven conditions (all
operators, both ways of nesting AND and OR, dates, strings, AND in lower case) and LIMIT,
and four aggregate queries with three conditions and three HAVINGs, one of which the
planner rejects; a table is named `order` and a column `date`.  The other texts are two
statements that between them have every clause, cut off after each piece, without each piece, and
with a parenthesis or comma at the end, and fourteen more: open quotes, unknown characters,
a LIMIT that is no number, keywords that are names unless `BY` follows.

**Fairness.**  Weak fairness of each party's own steps: the tokio runtime, the
blocking thread, the rayon pool and the schedulers' threads keep running, and
plan iterators are finite.  Nothing is assumed about panics, lost connections,
departing clients, crashes or restarts.  A caller that stays reads on, because
`Client::do_get` does nothing else.  `CHECK_DEADLOCK FALSE` is set where the
system stops once its calls or jobs have ended.

## 4. Findings

1. *Each task of stage 0 runs the whole input* (`distributed_exact`).  `SUM` and
   `COUNT` come out multiplied by the number of partitions.  The same duplication
   is why an aggregate survives servers on several hosts.
2. *The parallel context changes some answers* (`parallel_unaligned`).
3. *Right joins on a key of one name* (`right_join`) put values under the wrong
   columns and lose the key of unmatched rows: `Join::schema` drops the left
   duplicate, `combine_rows` the right one.
4. *Parquet files whose columns are not sorted by name* (`parquet_order`): the reader keeps
   the file's order, everything else follows the projection.
5. *An alias hides the column that WHERE names* (`sql_where`).
6. *The operator `<>` ends a statement* (`sql_not_equal`): the condition loses it and
   everything after it, without an error.

Behaviours that passing properties state or exclude: a panic on a server's blocking thread
leaves the client with Ok and the batches sent before (`PartialOkStopsAtPanic`, `swallowed`); a
remote shuffle read gives an aggregate an empty result, not an error, and only that does
(`SwallowedExactlyIfRemote`); what follows a statement is not read
(`OnlyStatementsAnswered`); filters at the root,
indices over a scan, a LIMIT directly on a scan, CSV files without a header on executors and
with a declared schema on a Flight server (the premises of section 2).

SQL queries do not meet 1: `SqlPlanner` projects on top of an aggregate, and only a root
aggregate is split into stages.  For the same reason a filter or a LIMIT of a statement is
never directly on a scan.

## 5. Proofs

**FlightStreamProofs**, for every number of batches, division into messages,
channel capacity and window (`StreamAssumption`).  `InOrder` alone is not
inductive: it says nothing of what is still on its way.  `Inv` adds that wire,
encoder and channel continue the client's sequence without a gap (`WireInv`,
`EncoderInv`, `ChannelInv`), how many messages that makes (`CountInv`, `BoundInv`)
and what the ends of the parties imply (`ProducerInv`, `EndInv`).  `Invariance`
proves it with one lemma per party; `TypeCorrect`, `Ordered`, `OkIsComplete`,
`ErrorsAreStatuses`, `PartialOkExact` and `Bounded` follow.  `PartialOkExact` (the property
`PartialOkStopsAtPanic`) and `OkIsComplete` rest on `Counted`: once the stream has ended OK, wire,
encoder and channel are empty, so that the client's messages are those of the pulled batches.  `Refinement` maps every step
to a step or a stutter of `ResultStream`.

**DistributedQueryProofs**, for any jobs, groups, hash function, number of
executors, partitions and crashes, and any assignment of identities and
directories (`ClusterAssumption`; a cluster has an executor).  The core is
`ShuffleInv`: task 0 always runs on executor 0, where the final task reads, and
writes every non-empty partition; a later task that shares the directory rewrites
a file with the same rows and is still in stage 0 while that file is truncated.
`StageInv` and `HandlerInv` tie a handler to its job's progress, `WritingInv`
says what a task in progress has written, `LocationsInv` that locations name
non-empty partitions of the job's own stage 0.  `StagesInOrder`,
`FinalTaskInputs` and `FilesStable` follow.

**DistributedAnswerProofs**, under the same assumption.  What a
final task merges is a sequence of locations, and what matters is how often each
partition is in it and which servers it names; the lemmas on `Occurrences` and `Named`
are about these.  `CountInv` says that each task of stage 0 which has returned has
reported every non-empty partition once and under its own server's identity; `ReadInv`
that for each group what has been merged and what is yet to be read add up to
`PartitionCount`, that a final task which gets to read does not cross executors,
and that a plain plan has sent each of its batches at most once;
`AnswerInv` that the answer is empty before and settled afterwards: whole, or what `Remains`
after a swallowed panic.  They need
`ShuffleInv`, because a file that is read has to hold the rows of its partition.
`AnswersMultiply` and `SwallowedIffRemote` (the properties `AnswerMultiplicity` and
`SwallowedExactlyIfRemote`) follow.  `Refinement` is `JobsAnswerAlone`: every step is one
of `QueryJobs` or a stutter, a crash one that panics the jobs it interrupts, and what a
returning job returns is in `Alone` by `AnswerInv`.

**ParallelAggregateProofs**, for any plans, inputs, column types, integer width and
worker counts (`WidthAssumption`, `ParallelAssumption`: inputs are sequences of batches of
rows of the declared columns, a plan has as many types as columns).  Three modules come
before it, each a part of the argument:

1. `Reductions`.  A loop of the code is a recursive function here.  The library's induction theorem is
   stated for an operator, which the provers cannot instantiate; `NatSetInduction` states it for a set,
   from the well-foundedness of `<`, and `LoopExists` derives that such a function exists.  With them
   come the laws of `Reduce`, the reduction of a sequence in a commutative monoid: of a
   concatenation (`ReduceConcat`), of a sequence of which one place changes
   (`ReduceUpdate`), of nested sequences (`FlattenReduces`).  A *measure* maps rows to
   monoid elements; the measure of a set of batches does not depend on who has them.
2. `AggregateProofs`.  Every aggregate function is such a monoid: addition modulo `2 * Half`
   with NULL as its unit (`SumMonoid`, from `WrapSum`: wrapping partial sums and then their sum
   is wrapping once), the better of two cells (`ExtremeMonoid`), pairs of a sum and a count.
   `accumulate` folds a row's contribution (`StepAccumulates`), `merge` that of a partial row
   (`StepMerges`), and what a Partial aggregate writes contributes what its rows did
   (`PartialOutput`), but for AVG.  The reduction of a group's rows is what the reference says
   (`AggregateReference`).
3. `ExecuteProofs`.  For an aligned plan `execute` evaluates every expression to the column
   it names and appends no value of another type, so that it panics only for a partial AVG
   with a value (`ExecutePartial`, `ExecuteComplete`, `ExecuteFinal`); `CompleteIsGroupBy`
   is the property for one worker.
4. `ParallelAggregateProofs`.  Dealing keeps the measure of the input (`DealtMeasure`); the
   partial rows of a bucket stand for its batches, for each key and aggregate
   (`PartialStands`), so that what the Final aggregate reads stands for the whole input
   (`FinishedStands`), the set of keys included (`KeyMeasure`: the keys are a reduction
   too, in the monoid of union); hence `MergeIsGroupBy`.

`AlignedIsGroupBy` speaks of ended queries only.  What a step needs is `Progress`: workers are idle
before `Distribute`; afterwards the buckets are `Dealt`, and a worker that is not idle has
the rows or the panic of `execute` on its own bucket.  `Invariant` adds that to the
properties, and `TypeCorrect`, `SplitAnswersGroupBy` (`AlignedIsGroupBy`) and
`OnlySplitAveragesPanic` (`PanicsOnlyForAvg`) follow.  `TypeCorrect` covers plans that are not
aligned.

**QueryPipelineProofs**, for plans and expressions of any depth, any files, sources and arguments of
`DataFrame` methods, in all three contexts.  `OnlyWellFormedAnswered` and `ValidIsPlanned` are about two
ends of a pipeline: what `plan` says when a later phase is through with another plan.

1. *Trees.*  A recursive definition is a `CHOOSE`, of which nothing is known unless
   such a function exists.  `LevelInduction` shows that it does, and inductions on the depth
   (`ExprInduction`, `PlanInduction`) replace those on the structure.  Each function of the model
   then has a lemma with its equation: `FieldOf`, `SchemaOf`, `PushDownOf`, `TransferPlanOf`
   and so on.
2. *Schemas.*  `SchemaTyped` and `FieldTyped` give their types; `FieldNamed` says that an
   expression's name does not depend on the types of the columns it is resolved in.
3. *Push-down* (`PushDownType`, `PushDownKept`).  It is the other way round from what one would
   expect: a scan that has been narrowed to the names the rule collected has fewer columns than
   before, and a name or an index may be resolved to another one.  `Narrowed` is what is kept.
   If the narrowed plan can be lowered, then the original one refers only to columns that are
   there, the narrowed schema's columns are among the original's, and are the same in the same
   order above a projection or an aggregate, where indices are allowed.  Joins make it hard:
   the rule collects one set of names for both sides, so that a name which only the other side
   has is requested of this one too.
4. *What push-down leaves* (`PushDownSuffices`).  The converse, for every set of requested
   names: if every name and index of a plan refers to a column that is there, push-down does not
   panic, the narrowed plan can be lowered and has those of the requested columns that the
   original one has, and no requested name is forgotten.  The
   last is what a join needs, whose right side is asked for what its left side collected.
   Each operator keeps it if its inputs do: `ScanServed`, `UnaryServed`, `JoinServed`.
5. *The wire* (`PlanReceived`).  What a server receives has the same schemas, if its sources
   declared none, so it is well formed exactly if what was sent is.
6. *Phases.*  `QueryInv` is the inductive invariant: the depth of `plan` is bounded by the operations
   that built it, `received` is `plan` or what the wire makes of it, `optimized` is what push-down
   makes of `received`, a query that is planned was `Lowerable`, and one that failed before it was
   planned was not, or push-down panicked, whether the panic was seen or swallowed; a query
that returned without a physical plan got Ok without a batch from a Flight server.  `WellFormedAnswers` and `ValidQueriesArePlanned`
   follow from 3 and from 4.

The assumptions are those of the modules: columns of a file have different names and these are
in the `Alphabet` that the rule sorts by (`FileSchemaAssumption`, `AlphabetAssumption`), as are the
columns that a source declares, and arguments have their types (`QueryAssumption`, `LiteralsAssumption`), depths are natural numbers and integers have a width
(`ExprDepthAssumption`, `PlanDepthAssumption`, `WidthAssumption`).  `MadeUpAssumption` says that
twenty-odd string literals are strings.  That is so in TLA+, but none of the provers knows it.

The inductive invariants were checked with TLC on the instances of the runs
before they were proved.

**Only model-checked.**  `CallReturns`, `ThreadReleased` and `JobsEnd`: liveness
under fairness is outside what the prover handles.  `TypeOK` of
`QueryPipeline`, whose last conjunct is about the rows that the operators return.
`AnswersTheQuery` and `NoNeedlessPanic` compare every operator's rows and panics with a meaning that is
recursive on expressions and plans (`Value`, `Answers` and `TypeOf` are RECURSIVE operators,
of which the provers have no theory).  All of `SqlQuery`: texts and SQL expressions are sequences and
trees on which the parser and its model recurse, by position and with mutual recursion.  The
evaluation of expressions other than columns, which aligned plans do not have, is checked by the runs of
these modules.

## 6. Not modelled

Columnar layout, the bytes of file formats and of protobuf, HTTP/2 framing, logging and
formatting; float rounding and NaN; `f32` and the integer widths that follow the template
of a modelled one; SQRT and LOG, which no planner creates, `LiteralFloat` and
`ScalarFunction`, which the planner rejects; keywords that no rule of the grammar uses; connection set-up; Flight methods
that answer `unimplemented`; `do_action` requests that no client of the repository
sends; `cleanup_job` and `cleanup_all`, which nothing but tests calls; the fuzzer,
benchmarks and examples.  Shuffle files of ended jobs therefore stay, in the model
as in the program.  Some things that one expects of SQL are not in the program either, and
the model follows it: `SELECT *` and unary minus panic, an aggregate over no rows returns
no row, and what follows a complete statement is ignored.

## 7. Plan

1. *Done*: result stream, distributed execution, two-phase aggregation; proofs of
   the first two.
2. *Done*: planning pipeline, from the `DataFrame` to the rows.
3. *Done*: the SQL front end, from the text to the rows.
4. *Done*: plan serialization, and the pipeline of the client and distributed contexts.
5. *Done*: scalar expressions and data sources.
6. *Done*: proofs of `SwallowedExactlyIfRemote` and `AnswerMultiplicity`, and of the
   refinement of `QueryJobs`.
7. *Done*: proofs about two-phase aggregation.
8. *Done*: `QueryPipeline` without recursive operators, and the proof of
   `OnlyWellFormedAnswered` and `ValidIsPlanned`.
9. What remains: the same for the parser and the meaning of queries; laws of the operators
   (LIMIT's budget over batches, the key table of a join).
