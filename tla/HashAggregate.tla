---------------------------- MODULE HashAggregate ----------------------------
(***************************************************************************)
(* HashAggregateExec and its accumulators, in the three modes Complete,    *)
(* Partial and Final, as operators.                                        *)
(*                                                                         *)
(* Rust panics are the value Panic, which every operation passes on.  Rows *)
(* are sequences of scalars, batches sequences of rows.  Column indices    *)
(* start at 1.                                                             *)
(***************************************************************************)
EXTENDS Expressions

-------------------------------------------------------------------------------
(* Accumulators.  The state of SUM, MIN and MAX is a scalar, that of COUNT a    *)
(* number, that of AVG both a sum and a count; one record serves them all.      *)

create_accumulator == [value |-> Null, sum |-> Double(0, 1), count |-> 0]

\* Mutant: checked addition.
scalar_add_Checked(x, y) ==
    IF x.type = y.type /\ Wrap(x.n + y.n) = x.n + y.n THEN Scalar(x.type, x.n + y.n) ELSE Panic

scalar_add(x, y) ==
    IF x.type # y.type \/ x.type \notin {"i32", "i64", "f64"} THEN Panic
    ELSE IF x.type = "f64" THEN double_math("add", x, y)
    ELSE Scalar(x.type, Wrap(x.n + y.n))

Better(fn, x, y) == IF fn = "min" THEN Less(x, y) ELSE Less(y, x)

\* cmp_scalar panics on booleans and on values of different types.
KeepBetter(fn, old, v) ==
    IF is_null(old) THEN v
    ELSE IF old.type # v.type \/ v.type = "bool" THEN Panic
    ELSE IF Better(fn, v, old) THEN v ELSE old

\* A group whose accumulator has panicked takes the query with it.
accumulate(fn, acc, v) ==
    IF is_null(v) \/ acc.value = Panic THEN acc
    ELSE CASE fn = "sum" -> [acc EXCEPT !.value = IF is_null(@) THEN v ELSE scalar_add(@, v)]
           [] fn \in {"min", "max"} -> [acc EXCEPT !.value = KeepBetter(fn, @, v)]
           [] fn = "count" -> [acc EXCEPT !.count = @ + 1]
           [] fn = "avg" /\ v.type \notin Numeric -> [acc EXCEPT !.value = Panic]
           [] fn = "avg" /\ v.type \in Numeric ->
                [value |-> acc.value, sum |-> double_math("add", acc.sum, to_f64(v)), count |-> acc.count + 1]

\* Mutant: the default merge, for COUNT too.
merge_Accumulates(fn, acc, v) == accumulate(fn, acc, v)

\* SUM, MIN and MAX merge by accumulating; COUNT adds; AVG only takes AvgState,
\* which no batch can carry.
merge(fn, acc, v) ==
    IF is_null(v) \/ acc.value = Panic THEN acc
    ELSE CASE fn \in {"sum", "min", "max"} -> accumulate(fn, acc, v)
           [] fn = "count" /\ v.type \in {"utf8", "bool"} -> [acc EXCEPT !.value = Panic]
           [] fn = "count" /\ v.type \notin {"utf8", "bool"} -> [acc EXCEPT !.count = @ + to_i64(v)]
           [] fn = "avg" -> [acc EXCEPT !.value = Panic]

final_value(fn, acc) ==
    CASE acc.value = Panic -> Panic
      [] acc.value # Panic /\ fn = "count" -> Scalar("i32", acc.count)
      [] acc.value # Panic /\ fn = "avg" ->
           IF acc.count = 0 THEN Null ELSE double_math("div", acc.sum, Double(acc.count, 1))
      [] acc.value # Panic /\ fn \in {"sum", "min", "max"} -> acc.value

\* What a Partial aggregate writes: the final value, but for an AVG that has
\* seen a value, whose AvgState does not fit into a column.
intermediate_value(fn, acc) ==
    IF fn = "avg" /\ acc.count > 0 THEN Panic ELSE final_value(fn, acc)

-------------------------------------------------------------------------------
(* HashAggregateExec::execute.  A plan is a record of                         *)
(*   group     - the group expressions,                                       *)
(*   aggregate - records of a function and its input expression,              *)
(*   types     - the types of the output schema.                              *)

\* The evaluated expressions of the rows of a batch: the group key, then the arguments.
Evaluated(plan, types, batch) ==
    LET exprs == plan.group \o [i \in DOMAIN plan.aggregate |-> plan.aggregate[i].input]
        by_row(columns) ==
            IF \E i \in DOMAIN columns : columns[i] = PanicVector
            THEN [panic |-> TRUE, rows |-> <<>>]
            ELSE [panic |-> FALSE,
                  rows |-> [r \in DOMAIN batch |-> [i \in DOMAIN columns |-> columns[i].values[r]]]]
    IN  by_row([i \in DOMAIN exprs |-> evaluate(exprs[i], types, batch)])

Key(plan, row) == SubSeq(row, 1, Len(plan.group))

Step(mode, fn, acc, v) == IF mode = "final" THEN merge(fn, acc, v) ELSE accumulate(fn, acc, v)

\* The accumulator of aggregate number a in the map's entry for a key, after all rows.
Accumulated(plan, mode, a, key, rows) ==
    LET acc[n \in 0..Len(rows)] ==
            IF n = 0 THEN create_accumulator
            ELSE IF Key(plan, rows[n]) # key THEN acc[n - 1]
            ELSE Step(mode, plan.aggregate[a].fn, acc[n - 1], rows[n][Len(plan.group) + a])
    IN  acc[Len(rows)]

Output(mode, fn, acc) ==
    IF mode = "partial" THEN intermediate_value(fn, acc) ELSE final_value(fn, acc)

\* Mutant: the group columns are left out.
OutputRow_NoKey(plan, mode, key, rows) ==
    [a \in DOMAIN plan.aggregate |->
       Output(mode, plan.aggregate[a].fn, Accumulated(plan, mode, a, key, rows))]

OutputRow(plan, mode, key, rows) ==
    key \o [a \in DOMAIN plan.aggregate |->
              Output(mode, plan.aggregate[a].fn, Accumulated(plan, mode, a, key, rows))]

\* ArrowVectorBuilder::append_value panics on a value of another type.
Appendable(types, row) == \A i \in DOMAIN row : is_null(row[i]) \/ row[i].type = types[i]

\* One output row per group key, in the HashMap's order: a set.
execute(plan, mode, types, batches) ==
    LET groups(rows) ==
            {OutputRow(plan, mode, k, rows) : k \in {Key(plan, rows[i]) : i \in DOMAIN rows}}
        built(out) == IF \E row \in out : ~Appendable(plan.types, row)
                      THEN [panic |-> TRUE, rows |-> {}] ELSE [panic |-> FALSE, rows |-> out]
        aggregated(evaluated) ==
            IF \E b \in DOMAIN batches : evaluated[b].panic THEN [panic |-> TRUE, rows |-> {}]
            ELSE built(groups(FlattenSeq([b \in DOMAIN batches |-> evaluated[b].rows])))
    IN  aggregated([b \in DOMAIN batches |-> Evaluated(plan, types, batches[b])])
===============================================================================
