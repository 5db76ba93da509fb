------------------------- MODULE MCParallelAggregate -------------------------
(***************************************************************************)
(* Bounded instances of ParallelAggregate: a key and a value column, up to *)
(* three batches and three rows, sums that overflow the integers.          *)
(***************************************************************************)
EXTENDS ParallelAggregate

MCInputTypes == <<"utf8", "i64">>

\* One key with a null and two values whose sums overflow, and the null key.
Key1 == Scalar("utf8", 1)
Rows == {<<Key1, Null>>, <<Key1, Scalar("i64", -2)>>, <<Key1, Scalar("i64", 1)>>,
         <<Null, Scalar("i64", 1)>>}

Batches == {<<>>} \cup {<<r>> : r \in Rows} \cup {<<q, r>> : q, r \in Rows}
AllInputs == UNION {[1..n -> Batches] : n \in 0..3}
MCInputs == {bs \in AllInputs : Len(FlattenSeq(bs)) <= 3}

Aggregate(fn, expr) == [fn |-> fn, input |-> expr]
GroupByKey(fn, expr) ==
    [group |-> <<Column(1)>>, aggregate |-> <<Aggregate(fn, expr)>>,
     types |-> <<"utf8", ResultType(fn, "i64")>>]

\* SELECT key, fn(value) ... GROUP BY key, and a COUNT without GROUP BY.
AlignedPlans ==
    {GroupByKey(fn, Column(2)) : fn \in {"sum", "min", "max", "count", "avg"}}
      \cup {[group |-> <<>>, aggregate |-> <<Aggregate("count", Column(1))>>, types |-> <<"i32">>]}

\* COUNT of a literal, two aggregates of one column, and the column order that
\* sorting the scan's projection by name can produce.
OtherPlans ==
    { GroupByKey("count", Literal(Scalar("i64", 1))),
      [group |-> <<Column(1)>>,
       aggregate |-> <<Aggregate("sum", Column(2)), Aggregate("max", Column(2))>>,
       types |-> <<"utf8", "i64", "i64">>],
      [group |-> <<Column(2)>>, aggregate |-> <<Aggregate("max", Column(1))>>,
       types |-> <<"i64", "utf8">>] }
===============================================================================
