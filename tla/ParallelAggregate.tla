-------------------------- MODULE ParallelAggregate --------------------------
(***************************************************************************)
(* ParallelContext::execute_parallel_aggregate.  The input batches are     *)
(* dealt to the workers in turn; rayon runs a Partial aggregate over each  *)
(* non-empty bucket; a Final aggregate merges the partial results.  A      *)
(* panic of a worker is rethrown once the other workers have finished.     *)
(***************************************************************************)
EXTENDS HashAggregate

CONSTANTS Plans,        \* aggregates to run
          Inputs,       \* sequences of batches the input plan may yield
          InputTypes,   \* the types of their columns
          Parallelisms  \* worker counts

\* Columns of doubles are left out: the sum of doubles depends on its order.
ColumnTypes == {"i32", "i64", "u32", "utf8", "date32", "bool"}

\* What a column of a type may hold.
Scalars == [type : ColumnTypes \cup {"null"}, n : Int, d : {0, 1}]

Cells(type) ==
    {v \in Scalars :
       \/ v = Null
       \/ /\ v.type = type
          /\ v.d = 0 => type = "utf8"
          /\ type \in {"i32", "i64"} => v.n \in -Half..(Half - 1)}

InputRows == {row \in [1..Len(InputTypes) -> Scalars] :
                \A i \in 1..Len(InputTypes) : row[i] \in Cells(InputTypes[i])}

AggregateFunctions == {"sum", "min", "max", "count", "avg"}

ASSUME ParallelAssumption ==
    /\ Parallelisms \subseteq Nat
    /\ InputTypes \in Seq(ColumnTypes)
    /\ Inputs \subseteq Seq(Seq(InputRows))
    /\ \A p \in Plans :
         /\ p.group \in Seq(Range(p.group))
         /\ p.aggregate \in Seq(Range(p.aggregate))
         /\ \A a \in DOMAIN p.aggregate : p.aggregate[a].fn \in AggregateFunctions
         /\ p.types \in Seq(Range(p.types))
         /\ Len(p.types) = Len(p.group) + Len(p.aggregate)

VARIABLES plan, input, parallelism,
          pc,       \* start, workers, done, panicked
          bucket,   \* worker -> its batches
          worker,   \* worker -> idle, done, panicked
          partial,  \* worker -> the rows of its partial batch
          result    \* rows of the answer

vars == <<plan, input, parallelism, pc, bucket, worker, partial, result>>
query == <<plan, input, parallelism>>

Workers == 0..(parallelism - 1)

Init ==
    /\ plan \in Plans
    /\ input \in Inputs
    /\ parallelism \in Parallelisms
    /\ pc = "start"
    /\ bucket = [w \in Workers |-> <<>>]
    /\ worker = [w \in Workers |-> "idle"]
    /\ partial = [w \in Workers |-> {}]
    /\ result = {}

\* One worker (or none): no fan-out.
Direct ==
    /\ pc = "start"
    /\ parallelism <= 1
    /\ LET out == execute(plan, "complete", InputTypes, input)
       IN  /\ pc' = IF out.panic THEN "panicked" ELSE "done"
           /\ result' = out.rows
    /\ UNCHANGED <<query, bucket, worker, partial>>

\* Batch number i (from 0) goes to worker i % parallelism.
Dealt ==
    LET dealt[n \in 0..Len(input)] ==
            IF n = 0 THEN [w \in Workers |-> <<>>]
            ELSE [dealt[n - 1] EXCEPT ![(n - 1) % parallelism] = Append(@, input[n])]
    IN  dealt[Len(input)]

Distribute ==
    /\ pc = "start"
    /\ parallelism > 1
    /\ bucket' = Dealt
    /\ pc' = "workers"
    /\ UNCHANGED <<query, worker, partial, result>>

\* A pool thread runs execute_partial_aggregate over a bucket; workers share
\* nothing they write.  Empty buckets are filtered out.
RunWorker(w) ==
    /\ pc = "workers"
    /\ worker[w] = "idle"
    /\ bucket[w] # <<>>
    /\ LET out == execute(plan, "partial", InputTypes, bucket[w])
       IN  /\ worker' = [worker EXCEPT ![w] = IF out.panic THEN "panicked" ELSE "done"]
           /\ partial' = [partial EXCEPT ![w] = out.rows]
    /\ UNCHANGED <<query, pc, bucket, result>>

Joined == \A w \in Workers : bucket[w] # <<>> => worker[w] # "idle"
SomePanicked == \E w \in Workers : worker[w] = "panicked"

\* Partial batches in worker order; a worker's batch may be without rows.
PartialBatches ==
    LET collected[n \in 0..parallelism] ==
            IF n = 0 THEN <<>>
            ELSE IF bucket[n - 1] = <<>> THEN collected[n - 1]
            ELSE Append(collected[n - 1], SetToSeq(partial[n - 1]))
    IN  collected[parallelism]

\* collect() rethrows a worker's panic.
Propagate ==
    /\ pc = "workers"
    /\ Joined
    /\ SomePanicked
    /\ pc' = "panicked"
    /\ UNCHANGED <<query, bucket, worker, partial, result>>

\* execute_final_aggregate, over batches of the aggregate's own output schema;
\* without any partial batch the answer has no rows.
Merge ==
    /\ pc = "workers"
    /\ Joined
    /\ ~SomePanicked
    /\ LET out == execute(plan, "final", plan.types, PartialBatches)
       IN  /\ pc' = IF out.panic THEN "panicked" ELSE "done"
           /\ result' = out.rows
    /\ UNCHANGED <<query, bucket, worker, partial>>

\* The query has returned or panicked.
Terminated ==
    /\ pc \in {"done", "panicked"}
    /\ UNCHANGED vars

Next ==
    \/ Direct
    \/ Distribute
    \/ \E w \in Workers : RunWorker(w)
    \/ Propagate
    \/ Merge
    \/ Terminated

Spec == Init /\ [][Next]_vars

-------------------------------------------------------------------------------
(* Aligned plans, and what GROUP BY means for them, stated on the whole input  *)
(* at once: without accumulators, batches or workers.                          *)

Argument(p, a) == Len(p.group) + a

Supports(fn, type) ==
    CASE fn = "sum" -> type \in {"i32", "i64"}
      [] fn = "avg" -> type \in Integral
      [] fn \in {"min", "max"} -> type # "bool"
      [] fn = "count" -> TRUE

ResultType(fn, type) == CASE fn = "count" -> "i32" [] fn = "avg" -> "f64" [] OTHER -> type

\* The expressions mean the same on the aggregate's own output as on its input: group
\* column i is column i, and the argument of aggregate a is the column a after them.
\* Functions take the types of their arguments, and output columns have the types planned.
AlignedPlan(p) ==
    /\ Len(p.group) + Len(p.aggregate) <= Len(InputTypes)
    /\ \A i \in DOMAIN p.group : p.group[i] = Column(i) /\ p.types[i] = InputTypes[i]
    /\ \A a \in DOMAIN p.aggregate :
         /\ p.aggregate[a].input = Column(Argument(p, a))
         /\ Supports(p.aggregate[a].fn, InputTypes[Argument(p, a)])
         /\ p.types[Argument(p, a)] = ResultType(p.aggregate[a].fn, InputTypes[Argument(p, a)])

Aligned == AlignedPlan(plan)

\* The rows of group k that have a value for aggregate a, by their places.
Members(p, rows, k, a) ==
    {i \in DOMAIN rows : Key(p, rows[i]) = k /\ ~is_null(rows[i][Argument(p, a)])}

\* The exact sum of column c in the rows at some places.
TotalOf(rows, c, places) ==
    LET total[n \in 0..Len(rows)] ==
            IF n = 0 THEN 0 ELSE total[n - 1] + IF n \in places THEN rows[n][c].n ELSE 0
    IN  total[Len(rows)]

\* The least or greatest value that column c has there.
Extreme(fn, rows, c, places) ==
    CHOOSE v \in {rows[i][c] : i \in places} : \A i \in places : ~Better(fn, rows[i][c], v)

AggregateOf(fn, rows, c, places) ==
    CASE fn = "count" -> Scalar("i32", Cardinality(places))
      [] fn # "count" /\ places = {} -> Null
      [] fn = "sum" /\ places # {} -> Scalar(InputTypes[c], Wrap(TotalOf(rows, c, places)))
      [] fn \in {"min", "max"} /\ places # {} -> Extreme(fn, rows, c, places)
      [] fn = "avg" /\ places # {} -> Double(TotalOf(rows, c, places), Cardinality(places))

GroupOf(p, rows, k) ==
    k \o [a \in DOMAIN p.aggregate |->
            AggregateOf(p.aggregate[a].fn, rows, Argument(p, a), Members(p, rows, k, a))]

GroupBy(p, rows) == {GroupOf(p, rows, k) : k \in {Key(p, rows[i]) : i \in DOMAIN rows}}

UsesAvg == \E i \in DOMAIN plan.aggregate : plan.aggregate[i].fn = "avg"

-------------------------------------------------------------------------------
(* Properties. *)

TypeOK ==
    /\ parallelism \in Parallelisms
    /\ pc \in {"start", "workers", "done", "panicked"}
    /\ DOMAIN bucket = Workers
    /\ worker \in [Workers -> {"idle", "done", "panicked"}]
    /\ DOMAIN partial = Workers
    /\ \A row \in result : Len(row) = Len(plan.types)

\* Splitting the batches over any number of workers and merging the partial
\* results gives the rows of GROUP BY: nulls, all-null groups, wrapping sums,
\* batches without rows and fewer batches than workers included.
AlignedIsGroupBy == pc = "done" /\ Aligned => result = GroupBy(plan, FlattenSeq(input))

\* Such a query panics only for AVG, whose partial state fits no column, and
\* only if it is split.
PanicsOnlyForAvg == pc = "panicked" /\ Aligned => UsesAvg /\ parallelism > 1

\* Documented, and refuted by the code: the parallel context computes what the
\* sequential one does.
MatchesSequential ==
    pc = "done" => result = execute(plan, "complete", InputTypes, input).rows
===============================================================================
