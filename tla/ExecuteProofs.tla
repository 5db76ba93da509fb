------------------------------ MODULE ExecuteProofs ------------------------------
(***************************************************************************)
(* What HashAggregateExec computes for an aligned plan, in each mode: one  *)
(* row per group key, whose cells are the outputs of the reductions of the *)
(* group's rows.                                                           *)
(***************************************************************************)
EXTENDS AggregateProofs

-------------------------------------------------------------------------------
(* Evaluating columns. *)

\* A column reference has no operands.
LEMMA TermsColumn ==
  ASSUME NEW i
  PROVE  Terms(Column(i)) = {Column(i)}
<1> DEFINE e == Column(i)
           E(f) == [n \in 0..MaxExprDepth |->
                      IF n = 0 THEN {e} ELSE LET outer == f[n - 1]
                                             IN  outer \cup UNION {Operands(x) : x \in outer}]
           f == CHOOSE f : f = E(f)
           h == [n \in 0..MaxExprDepth |-> {e}]
<1>1. Operands(e) = {}
  BY DEF Operands, Column
<1>2. UNION {Operands(x) : x \in {e}} = {}
  <2>1. \A x \in {e} : Operands(x) = {}
    BY <1>1
  <2> HIDE DEF e
  <2> QED
    BY <2>1
<1> HIDE DEF e
<1>3. h = E(h)
  <2>1. ASSUME NEW n \in 0..MaxExprDepth PROVE h[n] = E(h)[n]
    <3>1. CASE n = 0
      BY <3>1
    <3>2. CASE n # 0
      <4>1. n - 1 \in 0..MaxExprDepth /\ h[n - 1] = {e}
        BY <3>2, ExprDepthAssumption
      <4> HIDE DEF h
      <4>2. E(h)[n] = h[n - 1] \cup UNION {Operands(x) : x \in h[n - 1]}
        BY <3>2
      <4> QED
        BY <1>2, <4>1, <4>2 DEF h
    <3> QED
      BY <3>1, <3>2
  <2> QED
    BY <2>1
<1>4. f = E(f)
  <2> HIDE DEF E, h
  <2> QED
    BY <1>3
<1>5. Terms(e) = f[MaxExprDepth]
  BY DEF Terms
<1> HIDE DEF f, h
<1> DEFINE D == {n \in Nat : n <= MaxExprDepth => f[n] = {e}}
<1>6. 0 \in D
  BY <1>4, ExprDepthAssumption
<1>7. ASSUME NEW n \in Nat, n \in D PROVE n + 1 \in D
  <2> SUFFICES ASSUME n + 1 <= MaxExprDepth PROVE f[n + 1] = {e}
    OBVIOUS
  <2>1. n + 1 \in 0..MaxExprDepth /\ n + 1 # 0 /\ (n + 1) - 1 = n /\ f[n] = {e}
    BY <1>7, ExprDepthAssumption
  <2>2. f[n + 1] = f[(n + 1) - 1] \cup UNION {Operands(x) : x \in f[(n + 1) - 1]}
    BY <1>4, <2>1
  <2> QED
    BY <1>2, <2>1, <2>2
<1>8. Nat \subseteq D
  <2> HIDE DEF D
  <2> QED
    BY <1>6, <1>7, NatSetInduction
<1> QED
  BY <1>5, <1>8, ExprDepthAssumption DEF e

\* It evaluates to the cells of its column.
LEMMA EvaluateColumn ==
  ASSUME NEW types, NEW c \in DOMAIN types, NEW rows
  PROVE  evaluate(Column(c), types, rows) = Vector(types[c], [i \in DOMAIN rows |-> rows[i][c]])
<1> DEFINE e == Column(c)
           result_ == Vector(types[c], [i \in DOMAIN rows |-> rows[i][c]])
           E(vec) ==
             [x \in Terms(e) |->
                CASE x.kind = "cast" ->
                       LET v == vec[x.expr]
                       IN  IF v = PanicVector THEN v
                           ELSE Built(x.type, [i \in DOMAIN rows |-> cast_value(v.values[i], x.type)])
                  [] x.kind = "column" ->
                       IF x.index \notin DOMAIN types THEN PanicVector
                       ELSE Vector(types[x.index], [i \in DOMAIN rows |-> rows[i][x.index]])
                  [] x.kind \in {"literal", "interval"} ->
                       Vector(x.value.type, [i \in DOMAIN rows |-> x.value])
                  [] OTHER ->
                       LET l == vec[x.l]
                           r == vec[x.r]
                       IN  CASE PanicVector \in {l, r} -> PanicVector
                             [] PanicVector \notin {l, r} /\ x.op \in Comparisons \cup Connectives ->
                                  evaluate_boolean(x.op, l, r)
                             [] PanicVector \notin {l, r} /\ x.op \in Maths -> evaluate_math(x.op, l, r)
                             [] PanicVector \notin {l, r} /\ x.op \in Dates ->
                                  Built("date32", [i \in DOMAIN rows |->
                                                     date_interval(x.op, l.values[i], r.values[i])])]
           vector == CHOOSE v : v = E(v)
<1>1. evaluate(e, types, rows) = vector[e]
  BY DEF evaluate
<1>2. ASSUME NEW v, NEW x \in Terms(e), x = e PROVE E(v)[x] = result_
  <2>1. x.kind = "column" /\ x.index = c
    BY <1>2 DEF Column
  <2> HIDE DEF e
  <2> QED
    BY <2>1
<1>3. Terms(e) = {e}
  BY TermsColumn
<1> HIDE DEF e, result_
<1>4. \E v : v = E(v)
  <2> DEFINE w == [x \in {e} |-> result_]
  <2>1. \A v : E(v) = w
    BY <1>2, <1>3
  <2> HIDE DEF E, w
  <2> QED
    BY <2>1
<1>5. vector = E(vector)
  <2> HIDE DEF E
  <2> QED
    BY <1>4
<1>6. vector[e] = result_
  <2> HIDE DEF vector, E
  <2> QED
    BY <1>2, <1>3, <1>5
<1> QED
  BY <1>1, <1>6 DEF e, result_

-------------------------------------------------------------------------------
(* Aligned plans. *)

\* The parts of a plan: how many group columns, which aggregates, all columns.
Groups(p) == Len(p.group)
Aggregates(p) == 1..Len(p.aggregate)
Columns(p) == 1..(Len(p.group) + Len(p.aggregate))
\* The function of an aggregate, and the type of its argument.
Fn(p, a) == p.aggregate[a].fn
ArgumentType(p, a) == InputTypes[Argument(p, a)]

\* The plans that are aligned.
AlignedPlans == {p \in Plans : AlignedPlan(p)}

\* What the assumption on plans and alignment say of an aligned plan.
LEMMA PlanFacts ==
  ASSUME NEW p \in AlignedPlans
  PROVE  /\ Groups(p) \in Nat /\ Len(p.aggregate) \in Nat
         /\ DOMAIN p.group = 1..Groups(p) /\ DOMAIN p.aggregate = Aggregates(p)
         /\ DOMAIN p.types = Columns(p)
         /\ Columns(p) \subseteq 1..Len(InputTypes)
         /\ \A i \in 1..Len(InputTypes) : InputTypes[i] \in ColumnTypes
         /\ \A i \in 1..Groups(p) :
              i \in Columns(p) /\ p.group[i] = Column(i) /\ p.types[i] = InputTypes[i]
         /\ \A a \in Aggregates(p) :
              /\ Argument(p, a) \in Columns(p) /\ Argument(p, a) = Groups(p) + a
              /\ p.aggregate[a].input = Column(Argument(p, a))
              /\ Takes(Fn(p, a), ArgumentType(p, a))
              /\ p.types[Argument(p, a)] = ResultType(Fn(p, a), ArgumentType(p, a))
<1>1. /\ p.group \in Seq(Range(p.group)) /\ p.aggregate \in Seq(Range(p.aggregate))
      /\ p.types \in Seq(Range(p.types)) /\ Len(p.types) = Len(p.group) + Len(p.aggregate)
      /\ \A a \in DOMAIN p.aggregate : p.aggregate[a].fn \in AggregateFunctions
      /\ InputTypes \in Seq(ColumnTypes)
  BY ParallelAssumption DEF AlignedPlans
<1>2. /\ Len(p.group) + Len(p.aggregate) <= Len(InputTypes)
      /\ \A i \in DOMAIN p.group : p.group[i] = Column(i) /\ p.types[i] = InputTypes[i]
      /\ \A a \in DOMAIN p.aggregate :
           /\ p.aggregate[a].input = Column(Argument(p, a))
           /\ Supports(p.aggregate[a].fn, InputTypes[Argument(p, a)])
           /\ p.types[Argument(p, a)] = ResultType(p.aggregate[a].fn, InputTypes[Argument(p, a)])
  BY DEF AlignedPlans, AlignedPlan
<1>3. /\ Groups(p) \in Nat /\ Len(p.aggregate) \in Nat /\ Len(InputTypes) \in Nat
      /\ DOMAIN p.group = 1..Groups(p) /\ DOMAIN p.aggregate = Aggregates(p)
      /\ DOMAIN p.types = Columns(p)
      /\ \A i \in 1..Len(InputTypes) : InputTypes[i] \in ColumnTypes
  <2>1. \A S : \A s \in Seq(S) : Len(s) \in Nat /\ DOMAIN s = 1..Len(s) /\ \A i \in 1..Len(s) : s[i] \in S
    OBVIOUS
  <2>2. Groups(p) \in Nat /\ DOMAIN p.group = 1..Groups(p)
    BY <1>1, <2>1 DEF Groups
  <2>3. Len(p.aggregate) \in Nat /\ DOMAIN p.aggregate = Aggregates(p)
    BY <1>1, <2>1 DEF Aggregates
  <2>4. DOMAIN p.types = Columns(p)
    <3>1. DOMAIN p.types = 1..Len(p.types)
      BY <1>1, <2>1
    <3> QED
      BY <1>1, <3>1 DEF Columns
  <2>5. Len(InputTypes) \in Nat /\ \A i \in 1..Len(InputTypes) : InputTypes[i] \in ColumnTypes
    BY <1>1, <2>1
  <2> QED
    BY <2>2, <2>3, <2>4, <2>5
<1> DEFINE g == Len(p.group)
           n == Len(p.aggregate)
<1>7. g \in Nat /\ n \in Nat /\ Columns(p) = 1..(g + n) /\ Groups(p) = g /\ Aggregates(p) = 1..n
  BY <1>3 DEF Columns, Groups, Aggregates
<1>4. Columns(p) \subseteq 1..Len(InputTypes)
  <2>1. g + n <= Len(InputTypes)
    BY <1>2
  <2> HIDE DEF g, n
  <2> QED
    BY <1>3, <1>7, <2>1
<1>5. ASSUME NEW i \in 1..Groups(p)
      PROVE  i \in Columns(p) /\ p.group[i] = Column(i) /\ p.types[i] = InputTypes[i]
  <2>1. i \in Columns(p)
    <3> HIDE DEF g, n
    <3> QED
      BY <1>7
  <2> QED
    BY <1>2, <1>3, <2>1
<1>6. ASSUME NEW a \in Aggregates(p)
      PROVE  /\ Argument(p, a) \in Columns(p) /\ Argument(p, a) = Groups(p) + a
             /\ p.aggregate[a].input = Column(Argument(p, a))
             /\ Takes(Fn(p, a), ArgumentType(p, a))
             /\ p.types[Argument(p, a)] = ResultType(Fn(p, a), ArgumentType(p, a))
  <2>1. Argument(p, a) \in Columns(p) /\ Argument(p, a) = Groups(p) + a
    <3>1. Argument(p, a) = g + a
      BY DEF Argument
    <3> HIDE DEF g, n
    <3> QED
      BY <1>7, <3>1
  <2>2. /\ p.aggregate[a].input = Column(Argument(p, a))
        /\ Supports(p.aggregate[a].fn, InputTypes[Argument(p, a)])
        /\ p.types[Argument(p, a)] = ResultType(p.aggregate[a].fn, InputTypes[Argument(p, a)])
    BY <1>2, <1>3
  <2> QED
    BY <1>1, <1>3, <1>4, <2>1, <2>2 DEF Takes, Fn, ArgumentType
<1> QED
  BY <1>3, <1>4, <1>5, <1>6

\* A row cut to the columns of the plan.
Narrow(p, row) == [i \in Columns(p) |-> row[i]]

\* An aligned plan evaluates its columns without a panic: they are cut from the rows.
LEMMA EvaluatedColumns ==
  ASSUME NEW p \in AlignedPlans, NEW types \in {InputTypes, p.types}, NEW batch
  PROVE  Evaluated(p, types, batch) = [panic |-> FALSE, rows |-> [r \in DOMAIN batch |-> Narrow(p, batch[r])]]
<1> DEFINE exprs == p.group \o [i \in DOMAIN p.aggregate |-> p.aggregate[i].input]
           columns == [i \in DOMAIN exprs |-> evaluate(exprs[i], types, batch)]
<1>1. ASSUME NEW i \in Columns(p) PROVE i \in DOMAIN types /\ types[i] # "panic"
  <2>1. InputTypes[i] \in ColumnTypes
    BY PlanFacts
  <2>2. i \in DOMAIN p.types /\ i \in DOMAIN InputTypes
    BY PlanFacts, ParallelAssumption
  <2>3. p.types[i] # "panic"
    <3>1. CASE i \in 1..Groups(p)
      BY <2>1, <3>1, PlanFacts DEF ColumnTypes
    <3>2. CASE i \notin 1..Groups(p)
      <4>1. i - Groups(p) \in Aggregates(p) /\ Argument(p, i - Groups(p)) = i
        <5> DEFINE g == Len(p.group)
                   n == Len(p.aggregate)
        <5>1. /\ g \in Nat /\ n \in Nat /\ Columns(p) = 1..(g + n) /\ Groups(p) = g
              /\ Aggregates(p) = 1..n /\ \A a : Argument(p, a) = g + a
          BY PlanFacts DEF Columns, Aggregates, Groups, Argument
        <5> HIDE DEF g, n
        <5> QED
          BY <3>2, <5>1
      <4>2. p.types[i] = ResultType(Fn(p, i - Groups(p)), ArgumentType(p, i - Groups(p)))
        BY <4>1, PlanFacts
      <4>3. ArgumentType(p, i - Groups(p)) \in ColumnTypes
        BY <2>1, <4>1 DEF ArgumentType
      <4> QED
        BY <4>2, <4>3 DEF ResultType, ColumnTypes
    <3> QED
      BY <3>1, <3>2
  <2> QED
    BY <2>1, <2>2, <2>3 DEF ColumnTypes
<1>2. DOMAIN exprs = Columns(p) /\ \A i \in Columns(p) : exprs[i] = Column(i)
  <2> DEFINE inputs == [i \in DOMAIN p.aggregate |-> p.aggregate[i].input]
             s == p.group
  <2>1. /\ inputs \in Seq({Column(i) : i \in Columns(p)}) /\ Len(inputs) = Len(p.aggregate)
        /\ \A a \in Aggregates(p) : inputs[a] = Column(Groups(p) + a)
    <3>1. \A a \in Aggregates(p) : p.aggregate[a].input \in {Column(i) : i \in Columns(p)}
      BY PlanFacts
    <3>2. DOMAIN p.aggregate = 1..Len(p.aggregate) /\ Len(p.aggregate) \in Nat
      BY PlanFacts DEF Aggregates
    <3>3. \A a \in Aggregates(p) : p.aggregate[a].input = Column(Groups(p) + a)
      BY PlanFacts
    <3> QED
      BY <3>1, <3>2, <3>3 DEF Aggregates
  <2>2. s \in Seq({Column(i) : i \in Columns(p)}) /\ Len(s) = Groups(p)
    <3>1. p.group \in Seq(Range(p.group))
      BY ParallelAssumption DEF AlignedPlans
    <3>2. \A i \in 1..Len(p.group) : p.group[i] \in {Column(j) : j \in Columns(p)}
      BY PlanFacts DEF Groups
    <3> QED
      BY <3>1, <3>2 DEF Groups
  <2>3. \A i \in 1..Groups(p) : s[i] = Column(i)
    BY PlanFacts
  <2>4. Groups(p) \in Nat /\ Len(p.aggregate) \in Nat /\ Columns(p) = 1..(Groups(p) + Len(p.aggregate))
    BY PlanFacts DEF Columns, Groups
  <2> HIDE DEF s, inputs
  <2>5. DOMAIN (s \o inputs) = Columns(p)
    BY <2>1, <2>2, <2>4
  <2>6. ASSUME NEW i \in Columns(p) PROVE (s \o inputs)[i] = Column(i)
    <3>1. CASE i \in 1..Groups(p)
      BY <2>1, <2>2, <2>3, <2>4, <3>1
    <3>2. CASE i \notin 1..Groups(p)
      <4>1. i - Groups(p) \in Aggregates(p) /\ Groups(p) + (i - Groups(p)) = i
        BY <2>4, <3>2 DEF Aggregates
      <4>2. (s \o inputs)[i] = inputs[i - Groups(p)]
        BY <2>1, <2>2, <2>4, <3>2
      <4> QED
        BY <2>1, <4>1, <4>2
    <3> QED
      BY <3>1, <3>2
  <2> QED
    BY <2>5, <2>6 DEF s, inputs
<1> HIDE DEF exprs
<1>3. \A i \in Columns(p) : columns[i] = Vector(types[i], [r \in DOMAIN batch |-> batch[r][i]])
  <2>1. ASSUME NEW i \in Columns(p)
        PROVE  columns[i] = Vector(types[i], [r \in DOMAIN batch |-> batch[r][i]])
    <3>1. i \in DOMAIN types
      BY <1>1
    <3>2. evaluate(Column(i), types, batch) = Vector(types[i], [r \in DOMAIN batch |-> batch[r][i]])
      BY <3>1, EvaluateColumn
    <3> QED
      BY <1>2, <3>2
  <2> QED
    BY <2>1
<1>4. DOMAIN columns = Columns(p)
  BY <1>2
<1>5. \A i \in Columns(p) : columns[i] # PanicVector
  <2>1. PanicVector.type = "panic" /\ \A t, values : Vector(t, values).type = t
    BY DEF Vector, PanicVector
  <2> HIDE DEF columns
  <2>2. ASSUME NEW i \in Columns(p) PROVE columns[i].type # "panic"
    <3>1. columns[i] = Vector(types[i], [r \in DOMAIN batch |-> batch[r][i]])
      BY <1>3
    <3>2. columns[i].type = types[i]
      BY <2>1, <3>1
    <3> QED
      BY <1>1, <3>2
  <2> QED
    BY <2>1, <2>2
<1>6. Evaluated(p, types, batch) =
        [panic |-> FALSE,
         rows |-> [r \in DOMAIN batch |-> [i \in DOMAIN columns |-> columns[i].values[r]]]]
  <2>1. ~ \E i \in DOMAIN columns : columns[i] = PanicVector
    BY <1>4, <1>5
  <2> HIDE DEF columns
  <2>2. Evaluated(p, types, batch) =
          IF \E i \in DOMAIN columns : columns[i] = PanicVector
          THEN [panic |-> TRUE, rows |-> <<>>]
          ELSE [panic |-> FALSE,
                rows |-> [r \in DOMAIN batch |-> [i \in DOMAIN columns |-> columns[i].values[r]]]]
    BY DEF Evaluated, columns, exprs
  <2> QED
    BY <2>1, <2>2
<1>7. ASSUME NEW r \in DOMAIN batch
      PROVE  [i \in DOMAIN columns |-> columns[i].values[r]] = Narrow(p, batch[r])
  <2>1. \A t, values : Vector(t, values).values = values
    BY DEF Vector
  <2> HIDE DEF columns
  <2>2. \A i \in Columns(p) : columns[i].values[r] = batch[r][i]
    <3>1. ASSUME NEW i \in Columns(p) PROVE columns[i].values[r] = batch[r][i]
      <4>1. columns[i].values = [s \in DOMAIN batch |-> batch[s][i]]
        BY <1>3, <2>1
      <4> QED
        BY <4>1
    <3> QED
      BY <3>1
  <2> QED
    BY <1>4, <2>2 DEF Narrow
<1> HIDE DEF columns
<1> QED
  BY <1>6, <1>7

-------------------------------------------------------------------------------
(* The rows an aligned plan reads, and their keys. *)

\* Rows with a cell for every column of the plan.
Rows(p) == {row \in Seq(Scalars) : Len(p.group) + Len(p.aggregate) <= Len(row)}

\* Cutting a row to the columns of the plan leaves its key and its arguments.
LEMMA RowFacts ==
  ASSUME NEW p \in AlignedPlans, NEW row \in Rows(p)
  PROVE  /\ Len(Key(p, row)) = Groups(p)
         /\ Key(p, row) \in Seq(Scalars)
         /\ Key(p, row) = [i \in 1..Groups(p) |-> row[i]]
         /\ Narrow(p, row) \in Rows(p)
         /\ Key(p, Narrow(p, row)) = Key(p, row)
         /\ \A a \in Aggregates(p) : Narrow(p, row)[Argument(p, a)] = row[Argument(p, a)]
         /\ \A i \in Columns(p) : row[i] \in Scalars
<1> DEFINE g == Len(p.group)
           n == Len(p.aggregate)
           narrow == Narrow(p, row)
<1>1. g \in Nat /\ n \in Nat /\ Columns(p) = 1..(g + n) /\ Groups(p) = g
  BY PlanFacts DEF Columns, Groups
<1>2. row \in Seq(Scalars) /\ g + n <= Len(row)
  BY DEF Rows
<1>3. \A a \in Aggregates(p) : Argument(p, a) \in Columns(p)
  BY PlanFacts
<1>4. narrow = [i \in Columns(p) |-> row[i]]
  BY DEF Narrow
<1>5. \A r : Key(p, r) = SubSeq(r, 1, g)
  BY DEF Key
<1>6. Rows(p) = {r \in Seq(Scalars) : g + n <= Len(r)}
  BY DEF Rows
<1> HIDE DEF g, n, narrow
<1>7. narrow \in Seq(Scalars) /\ Len(narrow) = g + n /\ \A i \in 1..(g + n) : narrow[i] = row[i]
  BY <1>1, <1>2, <1>4
<1>8. \A r \in Seq(Scalars) : g <= Len(r) =>
         SubSeq(r, 1, g) \in Seq(Scalars) /\ Len(SubSeq(r, 1, g)) = g
         /\ SubSeq(r, 1, g) = [i \in 1..g |-> r[i]]
  <2>1. ASSUME NEW r \in Seq(Scalars), g <= Len(r)
        PROVE  SubSeq(r, 1, g) \in Seq(Scalars) /\ Len(SubSeq(r, 1, g)) = g
               /\ SubSeq(r, 1, g) = [i \in 1..g |-> r[i]]
    BY <1>1, <2>1
  <2> QED
    BY <2>1
<1>9. g <= Len(row) /\ g <= Len(narrow)
  BY <1>1, <1>2, <1>7
<1>10. [i \in 1..g |-> narrow[i]] = [i \in 1..g |-> row[i]]
  BY <1>1, <1>7
<1>11. \A i \in Columns(p) : row[i] \in Scalars
  BY <1>1, <1>2
<1>12. narrow \in Rows(p)
  BY <1>1, <1>6, <1>7
<1>13. Key(p, row) = [i \in 1..g |-> row[i]] /\ Len(Key(p, row)) = g /\ Key(p, row) \in Seq(Scalars)
  BY <1>2, <1>5, <1>8, <1>9
<1>14. Key(p, narrow) = [i \in 1..g |-> narrow[i]]
  BY <1>5, <1>7, <1>8, <1>9
<1>15. \A a \in Aggregates(p) : narrow[Argument(p, a)] = row[Argument(p, a)]
  BY <1>1, <1>3, <1>7
<1> QED
  BY <1>1, <1>10, <1>11, <1>12, <1>13, <1>14, <1>15 DEF narrow

\* Rows of the input have cells of the types of the columns.
LEMMA InputRowFacts ==
  ASSUME NEW p \in AlignedPlans, NEW row \in InputRows
  PROVE  /\ row \in Rows(p)
         /\ \A i \in 1..Groups(p) : row[i] \in Cells(InputTypes[i])
         /\ \A a \in Aggregates(p) : row[Argument(p, a)] \in Cells(ArgumentType(p, a))
<1>1. row \in [1..Len(InputTypes) -> Scalars] /\ \A i \in 1..Len(InputTypes) : row[i] \in Cells(InputTypes[i])
  BY DEF InputRows
<1>2. Len(InputTypes) \in Nat /\ Len(p.group) + Len(p.aggregate) <= Len(InputTypes)
  <2>1. Len(p.group) + Len(p.aggregate) <= Len(InputTypes)
    BY DEF AlignedPlans, AlignedPlan
  <2>2. InputTypes \in Seq(ColumnTypes)
    BY ParallelAssumption
  <2>3. Len(InputTypes) \in Nat
    BY <2>2
  <2> QED
    BY <2>1, <2>3
<1>3. row \in Seq(Scalars) /\ Len(row) = Len(InputTypes)
  BY <1>1, <1>2
<1>4. Columns(p) \subseteq 1..Len(InputTypes) /\ \A i \in 1..Groups(p) : i \in Columns(p)
  BY PlanFacts
<1>5. \A a \in Aggregates(p) : Argument(p, a) \in Columns(p)
  BY PlanFacts
<1> QED
  BY <1>1, <1>2, <1>3, <1>4, <1>5 DEF Rows, ArgumentType

\* The keys of a sequence of rows.
KeysOf(p, rows) == {Key(p, rows[i]) : i \in DOMAIN rows}

\* What the columns of all batches evaluate to.
LEMMA EvaluatedBatches ==
  ASSUME NEW p \in AlignedPlans, NEW types \in {InputTypes, p.types}, NEW batches \in Seq(Seq(Rows(p)))
  PROVE  LET evaluated == [b \in DOMAIN batches |-> Evaluated(p, types, batches[b])]
             flat == FlattenSeq(batches)
         IN  /\ \A b \in DOMAIN batches : ~evaluated[b].panic
             /\ flat \in Seq(Rows(p))
             /\ FlattenSeq([b \in DOMAIN batches |-> evaluated[b].rows]) = [i \in 1..Len(flat) |-> Narrow(p, flat[i])]
<1> DEFINE evaluated == [b \in DOMAIN batches |-> Evaluated(p, types, batches[b])]
           flat == FlattenSeq(batches)
           g == [row \in Rows(p) |-> Narrow(p, row)]
<1>1. flat \in Seq(Rows(p))
  BY FlattenType
<1>2. Maps(g, Rows(p), Rows(p))
  BY RowFacts DEF Maps
<1>3. DOMAIN batches = 1..Len(batches) /\ \A b \in DOMAIN batches : batches[b] \in Seq(Rows(p))
  OBVIOUS
<1>4. \A row \in Rows(p) : g[row] = Narrow(p, row)
  OBVIOUS
<1>5. ASSUME NEW rows \in Seq(Rows(p)) PROVE Image(g, rows) = [r \in DOMAIN rows |-> Narrow(p, rows[r])]
  <2> HIDE DEF g
  <2>1. DOMAIN rows = 1..Len(rows) /\ \A r \in 1..Len(rows) : rows[r] \in Rows(p)
    OBVIOUS
  <2> QED
    BY <1>4, <2>1 DEF Image
<1> HIDE DEF g
<1>6. ASSUME NEW b \in DOMAIN batches
      PROVE  ~evaluated[b].panic /\ evaluated[b].rows = Image(g, batches[b])
  <2>1. evaluated[b] = [panic |-> FALSE, rows |-> [r \in DOMAIN batches[b] |-> Narrow(p, batches[b][r])]]
    BY EvaluatedColumns
  <2> HIDE DEF evaluated
  <2>2. evaluated[b].rows = [r \in DOMAIN batches[b] |-> Narrow(p, batches[b][r])]
    BY <2>1
  <2>3. Image(g, batches[b]) = [r \in DOMAIN batches[b] |-> Narrow(p, batches[b][r])]
    BY <1>3, <1>5
  <2> QED
    BY <2>1, <2>2, <2>3
<1>7. FlattenSeq([b \in 1..Len(batches) |-> Image(g, batches[b])]) = Image(g, flat)
  BY <1>2, FlattenImage
<1>8. [b \in DOMAIN batches |-> evaluated[b].rows] = [b \in 1..Len(batches) |-> Image(g, batches[b])]
  <2> HIDE DEF evaluated
  <2> QED
    BY <1>3, <1>6
<1>9. Image(g, flat) = [i \in 1..Len(flat) |-> Narrow(p, flat[i])]
  <2> HIDE DEF flat
  <2>1. DOMAIN flat = 1..Len(flat)
    BY <1>1
  <2> QED
    BY <1>1, <1>5, <2>1
<1> HIDE DEF flat
<1>10. FlattenSeq([b \in DOMAIN batches |-> evaluated[b].rows]) = [i \in 1..Len(flat) |-> Narrow(p, flat[i])]
  BY <1>7, <1>8, <1>9 DEF flat
<1> HIDE DEF evaluated
<1>11. \A b \in DOMAIN batches : ~evaluated[b].panic
  BY <1>6
<1> QED
  BY <1>1, <1>10, <1>11 DEF evaluated, flat

-------------------------------------------------------------------------------
(* The accumulators of a group after all rows. *)

\* s holds what each row adds to the group: the unit, unless the row has the key.
Adds(p, mode, a, key, rows, S, op, e, s) ==
    \A n \in 1..Len(s) :
       IF Key(p, rows[n]) = key
       THEN \A m \in S : Step(mode, Fn(p, a), StateOf(Fn(p, a), m), rows[n][Len(p.group) + a])
                          = StateOf(Fn(p, a), op[m][s[n]])
       ELSE s[n] = e

\* The loop over the rows reduces what they add.
LEMMA AccumulatedReduces ==
  ASSUME NEW p, NEW mode, NEW a, NEW key, NEW rows, NEW S, NEW op, NEW e, Monoid(S, op, e),
         NEW s \in Seq(S), Len(rows) = Len(s), create_accumulator = StateOf(Fn(p, a), e),
         Adds(p, mode, a, key, rows, S, op, e, s)
  PROVE  Accumulated(p, mode, a, key, rows) = StateOf(Fn(p, a), Reduce(op, e, s))
<1> DEFINE N == Len(s)
           fn == Fn(p, a)
           r == Reductions(op, e, s)
           next(n, acc) == IF Key(p, rows[n]) # key THEN acc
                           ELSE Step(mode, fn, acc, rows[n][Len(p.group) + a])
           E(f) == [n \in 0..Len(rows) |-> IF n = 0 THEN create_accumulator ELSE next(n, f[n - 1])]
           f == CHOOSE f : f = E(f)
           h == [n \in 0..N |-> StateOf(fn, r[n])]
<1>1. Accumulated(p, mode, a, key, rows) = f[Len(rows)]
  BY DEF Accumulated, Fn
<1>2. N \in Nat /\ Len(rows) = N /\ e \in S /\ op \in [S -> [S -> S]]
  BY DEF Monoid
<1>3. r \in [0..N -> S] /\ Reduces(r, op, e, s, N)
  BY <1>2, ReductionsLoop
<1> HIDE DEF r
<1>4. r[0] = e /\ \A n \in 1..N : r[n] = op[r[n - 1]][s[n]]
  BY <1>3 DEF Reduces
<1>5. ASSUME NEW n \in 1..N PROVE next(n, StateOf(fn, r[n - 1])) = StateOf(fn, r[n])
  <2>1. n - 1 \in 0..N /\ r[n - 1] \in S /\ s[n] \in S
    <3>1. n - 1 \in 0..N
      BY <1>2
    <3> QED
      BY <1>3, <3>1
  <2>2. CASE Key(p, rows[n]) = key
    <3>1. \A m \in S : Step(mode, fn, StateOf(fn, m), rows[n][Len(p.group) + a]) = StateOf(fn, op[m][s[n]])
      BY <2>2 DEF Adds
    <3>2. Step(mode, fn, StateOf(fn, r[n - 1]), rows[n][Len(p.group) + a]) = StateOf(fn, op[r[n - 1]][s[n]])
      BY <2>1, <3>1
    <3> QED
      BY <1>4, <2>2, <3>2
  <2>3. CASE Key(p, rows[n]) # key
    <3>1. s[n] = e
      BY <2>3 DEF Adds
    <3>2. op[r[n - 1]][e] = r[n - 1]
      BY <2>1, MonoidUnit
    <3>3. r[n] = r[n - 1]
      BY <1>4, <3>1, <3>2
    <3> QED
      BY <2>3, <3>3
  <2> QED
    BY <2>2, <2>3
<1> HIDE DEF next, fn
<1>6. h = E(h)
  <2>1. ASSUME NEW n \in 0..N PROVE h[n] = E(h)[n]
    <3>1. CASE n = 0
      BY <1>2, <1>4, <3>1 DEF fn
    <3>2. CASE n # 0
      <4>1. n \in 1..N /\ n - 1 \in 0..N
        BY <1>2, <3>2
      <4>2. h[n] = StateOf(fn, r[n]) /\ h[n - 1] = StateOf(fn, r[n - 1])
        BY <4>1
      <4>3. E(h)[n] = next(n, h[n - 1])
        <5> HIDE DEF h
        <5> QED
          BY <1>2, <3>2
      <4> QED
        BY <1>5, <4>1, <4>2, <4>3
    <3> QED
      BY <3>1, <3>2
  <2> QED
    BY <1>2, <2>1
<1>7. f = E(f)
  <2> HIDE DEF E, h
  <2> QED
    BY <1>6
<1> DEFINE D == {n \in Nat : n <= N => f[n] = h[n]}
<1> HIDE DEF f
<1>8. 0 \in D
  <2>1. 0 \in 0..Len(rows)
    BY <1>2
  <2>2. f[0] = create_accumulator /\ E(h)[0] = create_accumulator
    <3> HIDE DEF h
    <3> QED
      BY <1>7, <2>1
  <2> HIDE DEF E, h
  <2> QED
    BY <1>6, <2>2
<1>9. ASSUME NEW n \in Nat, n \in D PROVE n + 1 \in D
  <2> SUFFICES ASSUME n + 1 <= N PROVE f[n + 1] = h[n + 1]
    OBVIOUS
  <2> HIDE DEF h
  <2>1. n + 1 \in 0..Len(rows) /\ n + 1 # 0 /\ (n + 1) - 1 = n /\ f[n] = h[n]
    BY <1>2, <1>9
  <2>2. f[n + 1] = next(n + 1, f[n])
    BY <1>7, <2>1
  <2>3. E(h)[n + 1] = next(n + 1, h[n])
    BY <2>1
  <2> HIDE DEF E
  <2> QED
    BY <1>6, <2>1, <2>2, <2>3
<1>10. Nat \subseteq D
  <2> HIDE DEF D
  <2> QED
    BY <1>8, <1>9, NatSetInduction
<1>11. f[N] = StateOf(fn, r[N])
  <2>1. f[N] = h[N]
    <3> HIDE DEF h
    <3>1. N \in D
      BY <1>2, <1>10
    <3> QED
      BY <1>2, <3>1
  <2>2. N \in 0..N
    BY <1>2
  <2> QED
    BY <2>1, <2>2
<1> QED
  BY <1>1, <1>2, <1>11 DEF Reduce, r, fn

\* What an input row, and a row of a partial result, adds to aggregate a of group k.
Contributed(p, a, k) ==
    [row \in InputRows |->
       IF Key(p, row) = k THEN Contribution(Fn(p, a), row[Argument(p, a)]) ELSE Unit(Fn(p, a))]

\* Keys of a group, and rows that a Partial aggregate can write.
GroupKeys(p) ==
    {k \in Seq(Scalars) : Len(k) = Groups(p) /\ \A i \in 1..Groups(p) : k[i] \in Cells(InputTypes[i])}

PartialRows(p) ==
    {row \in Rows(p) :
       /\ Key(p, row) \in GroupKeys(p)
       /\ \A a \in Aggregates(p) : row[Argument(p, a)] \in PartialCells(Fn(p, a), ArgumentType(p, a))}

\* What a partial row says of aggregate a of group k.
Carried(p, a, k) ==
    [row \in PartialRows(p) |->
       IF Key(p, row) = k THEN Unwritten(Fn(p, a), row[Argument(p, a)]) ELSE Unit(Fn(p, a))]

\* The summary of aggregate a, when g says what each row adds to it.
Summary(p, a, g, rows) == Measure(Combine(Fn(p, a), ArgumentType(p, a)), Unit(Fn(p, a)), g, rows)

\* Its summaries are a commutative monoid.
AggregateMonoid(p, a) ==
    Monoid(Carrier(Fn(p, a), ArgumentType(p, a)), Combine(Fn(p, a), ArgumentType(p, a)), Unit(Fn(p, a)))

\* What a partial cell stands for is a summary.
LEMMA UnwrittenType ==
  ASSUME NEW fn, NEW T, Takes(fn, T), NEW c \in PartialCells(fn, T)
  PROVE  Unwritten(fn, c) \in Carrier(fn, T)
<1>1. fn \in {"sum", "min", "max", "count", "avg"}
  BY DEF Takes, AggregateFunctions
<1> QED
  BY <1>1 DEF Unwritten, Carrier, PartialCells, Unit, Scalar

\* The maps from rows to summaries, and the monoid they go to.
LEMMA SummaryTypes ==
  ASSUME NEW p \in AlignedPlans, NEW a \in Aggregates(p), NEW k
  PROVE  /\ Takes(Fn(p, a), ArgumentType(p, a))
         /\ AggregateMonoid(p, a)
         /\ Maps(Contributed(p, a, k), InputRows, Carrier(Fn(p, a), ArgumentType(p, a)))
         /\ Maps(Carried(p, a, k), PartialRows(p), Carrier(Fn(p, a), ArgumentType(p, a)))
<1> DEFINE fn == Fn(p, a)
           T == ArgumentType(p, a)
           S == Carrier(fn, T)
<1>1. Takes(fn, T)
  BY PlanFacts
<1>2. Monoid(S, Combine(fn, T), Unit(fn))
  BY <1>1, FunctionMonoid
<1>3. Unit(fn) \in S
  BY <1>2 DEF Monoid
<1>4. ASSUME NEW row \in InputRows PROVE Contribution(fn, row[Argument(p, a)]) \in S
  <2>1. row[Argument(p, a)] \in Cells(T)
    BY InputRowFacts
  <2> HIDE DEF fn, T
  <2> QED
    BY <1>1, <2>1, ContributionType
<1>5. ASSUME NEW row \in PartialRows(p) PROVE Unwritten(fn, row[Argument(p, a)]) \in S
  <2>1. row[Argument(p, a)] \in PartialCells(fn, T)
    BY DEF PartialRows
  <2> HIDE DEF fn, T
  <2> QED
    BY <1>1, <2>1, UnwrittenType
<1> HIDE DEF S
<1>6. Maps(Contributed(p, a, k), InputRows, S)
  BY <1>3, <1>4 DEF Maps, Contributed
<1>7. Maps(Carried(p, a, k), PartialRows(p), S)
  BY <1>3, <1>5 DEF Maps, Carried
<1> QED
  BY <1>1, <1>2, <1>6, <1>7 DEF AggregateMonoid, S

\* Before a merge, a group accumulates the cells of its rows.
LEMMA ContributedAccumulates ==
  ASSUME NEW p \in AlignedPlans, NEW a \in Aggregates(p), NEW k, NEW mode \in {"partial", "complete"},
         NEW rows \in Seq(InputRows)
  PROVE  Accumulated(p, mode, a, k, [i \in 1..Len(rows) |-> Narrow(p, rows[i])])
           = StateOf(Fn(p, a), Summary(p, a, Contributed(p, a, k), rows))
<1> DEFINE fn == Fn(p, a)
           T == ArgumentType(p, a)
           S == Carrier(fn, T)
           op == Combine(fn, T)
           e == Unit(fn)
           g == Contributed(p, a, k)
           s == Image(g, rows)
           narrow == [i \in 1..Len(rows) |-> Narrow(p, rows[i])]
<1>1. Takes(fn, T) /\ Monoid(S, op, e) /\ Maps(g, InputRows, S)
  BY SummaryTypes DEF AggregateMonoid
<1>2. \A i \in 1..Len(rows) : rows[i] \in InputRows /\ rows[i] \in Rows(p)
  BY InputRowFacts DEF PartialRows
<1>3. Argument(p, a) = Len(p.group) + a
  BY DEF Argument
<1>4. s \in Seq(S) /\ Len(s) = Len(rows) /\ \A i \in 1..Len(rows) : s[i] = g[rows[i]]
  <2> HIDE DEF g, S
  <2> QED
    BY <1>1, ImageType
<1>5. ASSUME NEW n \in 1..Len(rows)
      PROVE  Key(p, narrow[n]) = Key(p, rows[n]) /\ narrow[n][Len(p.group) + a] = rows[n][Argument(p, a)]
  <2>1. narrow[n] = Narrow(p, rows[n]) /\ rows[n] \in Rows(p)
    BY <1>2
  <2> QED
    BY <1>3, <2>1, RowFacts
<1>6. \A row \in InputRows : g[row] = IF Key(p, row) = k THEN Contribution(fn, row[Argument(p, a)]) ELSE e
  BY DEF Contributed
<1>7. Len(narrow) = Len(rows)
  OBVIOUS
<1> HIDE DEF fn, T, S, op, e, g, s, narrow
<1>8. ASSUME NEW n \in 1..Len(s), Key(p, narrow[n]) = k, NEW m \in S
      PROVE  Step(mode, fn, StateOf(fn, m), narrow[n][Len(p.group) + a]) = StateOf(fn, op[m][s[n]])
  <2> DEFINE v == rows[n][Argument(p, a)]
  <2>1. n \in 1..Len(rows) /\ rows[n] \in InputRows
    BY <1>2, <1>4
  <2>2. v \in Cells(T)
    BY <2>1, InputRowFacts DEF T
  <2>3. s[n] = Contribution(fn, v)
    BY <1>4, <1>5, <1>6, <1>8, <2>1
  <2>4. Step(mode, fn, StateOf(fn, m), v) = accumulate(fn, StateOf(fn, m), v)
    BY DEF Step
  <2> HIDE DEF v
  <2>5. accumulate(fn, StateOf(fn, m), v) = StateOf(fn, op[m][Contribution(fn, v)])
    BY <1>1, <2>2, StepAccumulates DEF S, op
  <2> QED
    BY <1>5, <2>1, <2>3, <2>4, <2>5 DEF v
<1>9. ASSUME NEW n \in 1..Len(s), Key(p, narrow[n]) # k PROVE s[n] = e
  BY <1>2, <1>4, <1>5, <1>6, <1>9
<1>10. Adds(p, mode, a, k, narrow, S, op, e, s)
  BY <1>8, <1>9 DEF Adds, fn
<1>11. create_accumulator = StateOf(fn, e)
  BY <1>1, EmptyState DEF Takes, e
<1>12. Accumulated(p, mode, a, k, narrow) = StateOf(fn, Reduce(op, e, s))
  BY <1>1, <1>4, <1>7, <1>10, <1>11, AccumulatedReduces DEF fn
<1> QED
  BY <1>12 DEF Summary, Measure, fn, T, op, e, g, s, narrow

\* A merge combines what the partial rows carry.
LEMMA CarriedAccumulates ==
  ASSUME NEW p \in AlignedPlans, NEW a \in Aggregates(p), NEW k,
         NEW rows \in Seq(PartialRows(p))
  PROVE  Accumulated(p, "final", a, k, [i \in 1..Len(rows) |-> Narrow(p, rows[i])])
           = StateOf(Fn(p, a), Summary(p, a, Carried(p, a, k), rows))
<1> DEFINE fn == Fn(p, a)
           T == ArgumentType(p, a)
           S == Carrier(fn, T)
           op == Combine(fn, T)
           e == Unit(fn)
           g == Carried(p, a, k)
           s == Image(g, rows)
           narrow == [i \in 1..Len(rows) |-> Narrow(p, rows[i])]
<1>1. Takes(fn, T) /\ Monoid(S, op, e) /\ Maps(g, PartialRows(p), S)
  BY SummaryTypes DEF AggregateMonoid
<1>2. \A i \in 1..Len(rows) : rows[i] \in PartialRows(p) /\ rows[i] \in Rows(p)
  BY InputRowFacts DEF PartialRows
<1>3. Argument(p, a) = Len(p.group) + a
  BY DEF Argument
<1>4. s \in Seq(S) /\ Len(s) = Len(rows) /\ \A i \in 1..Len(rows) : s[i] = g[rows[i]]
  <2> HIDE DEF g, S
  <2> QED
    BY <1>1, ImageType
<1>5. ASSUME NEW n \in 1..Len(rows)
      PROVE  Key(p, narrow[n]) = Key(p, rows[n]) /\ narrow[n][Len(p.group) + a] = rows[n][Argument(p, a)]
  <2>1. narrow[n] = Narrow(p, rows[n]) /\ rows[n] \in Rows(p)
    BY <1>2
  <2> QED
    BY <1>3, <2>1, RowFacts
<1>6. \A row \in PartialRows(p) : g[row] = IF Key(p, row) = k THEN Unwritten(fn, row[Argument(p, a)]) ELSE e
  BY DEF Carried
<1>7. Len(narrow) = Len(rows)
  OBVIOUS
<1> HIDE DEF fn, T, S, op, e, g, s, narrow
<1>8. ASSUME NEW n \in 1..Len(s), Key(p, narrow[n]) = k, NEW m \in S
      PROVE  Step("final", fn, StateOf(fn, m), narrow[n][Len(p.group) + a]) = StateOf(fn, op[m][s[n]])
  <2> DEFINE v == rows[n][Argument(p, a)]
  <2>1. n \in 1..Len(rows) /\ rows[n] \in PartialRows(p)
    BY <1>2, <1>4
  <2>2. v \in PartialCells(fn, T)
    BY <2>1 DEF PartialRows, fn, T
  <2>3. s[n] = Unwritten(fn, v)
    BY <1>4, <1>5, <1>6, <1>8, <2>1
  <2>4. Step("final", fn, StateOf(fn, m), v) = merge(fn, StateOf(fn, m), v)
    BY DEF Step
  <2> HIDE DEF v
  <2>5. merge(fn, StateOf(fn, m), v) = StateOf(fn, op[m][Unwritten(fn, v)])
    BY <1>1, <2>2, StepMerges DEF S, op
  <2> QED
    BY <1>5, <2>1, <2>3, <2>4, <2>5 DEF v
<1>9. ASSUME NEW n \in 1..Len(s), Key(p, narrow[n]) # k PROVE s[n] = e
  BY <1>2, <1>4, <1>5, <1>6, <1>9
<1>10. Adds(p, "final", a, k, narrow, S, op, e, s)
  BY <1>8, <1>9 DEF Adds, fn
<1>11. create_accumulator = StateOf(fn, e)
  BY <1>1, EmptyState DEF Takes, e
<1>12. Accumulated(p, "final", a, k, narrow) = StateOf(fn, Reduce(op, e, s))
  BY <1>1, <1>4, <1>7, <1>10, <1>11, AccumulatedReduces DEF fn
<1> QED
  BY <1>12 DEF Summary, Measure, fn, T, op, e, g, s, narrow

-------------------------------------------------------------------------------
(* Output rows. *)

\* A summary for every aggregate.
IsSummary(p, m) == \A a \in Aggregates(p) : m[a] \in Carrier(Fn(p, a), ArgumentType(p, a))

\* The row of group k whose aggregates have these summaries.
Outputs(p, mode, m) == [a \in Aggregates(p) |-> Output(mode, Fn(p, a), StateOf(Fn(p, a), m[a]))]
\* The key and then the cells of the aggregates.
RowOf(p, mode, k, m) == k \o Outputs(p, mode, m)

\* The row is a key and then the cells of the aggregates.
Laid(p, k, cells, row) ==
    /\ Len(row) = Len(p.group) + Len(p.aggregate)
    /\ DOMAIN row = Columns(p)
    /\ \A i \in 1..Groups(p) : row[i] = k[i]
    /\ \A a \in Aggregates(p) : row[Argument(p, a)] = cells[a]
    /\ (\A a \in Aggregates(p) : cells[a] \in Scalars) => row \in Seq(Scalars)

\* An output row is laid out like that.
LEMMA RowOfColumns ==
  ASSUME NEW p \in AlignedPlans, NEW mode, NEW k \in GroupKeys(p), NEW m
  PROVE  Laid(p, k, Outputs(p, mode, m), RowOf(p, mode, k, m))
<1> DEFINE g == Len(p.group)
           n == Len(p.aggregate)
           cells == Outputs(p, mode, m)
           T == Scalars \cup {cells[a] : a \in Aggregates(p)}
           row == RowOf(p, mode, k, m)
<1>1. /\ g \in Nat /\ n \in Nat /\ Columns(p) = 1..(g + n) /\ Groups(p) = g /\ Aggregates(p) = 1..n
      /\ \A a : Argument(p, a) = g + a
  BY PlanFacts DEF Columns, Groups, Aggregates, Argument
<1>2. k \in Seq(Scalars) /\ Len(k) = g
  BY <1>1 DEF GroupKeys
<1>3. row = k \o cells
  BY DEF RowOf
<1>4. cells = [a \in 1..n |-> cells[a]]
  BY <1>1 DEF Outputs
<1> HIDE DEF g, n, row, cells
<1>5. cells \in Seq(T) /\ Len(cells) = n
  <2>1. \A a \in 1..n : cells[a] \in T
    BY <1>1
  <2> HIDE DEF T
  <2> QED
    BY <1>1, <1>4, <2>1
<1>6. k \in Seq(T)
  BY <1>2
<1> HIDE DEF T
<1>7. /\ k \o cells \in Seq(T) /\ Len(k \o cells) = g + n
      /\ \A i \in 1..(g + n) : (k \o cells)[i] = IF i <= g THEN k[i] ELSE cells[i - g]
  BY <1>2, <1>5, <1>6, ConcatProperties
<1>8. Len(row) = g + n /\ DOMAIN row = 1..(g + n)
  BY <1>1, <1>3, <1>7
<1>9. \A i \in 1..g : row[i] = k[i]
  BY <1>1, <1>3, <1>7
<1>10. ASSUME NEW a \in 1..n PROVE row[g + a] = cells[a]
  <2>1. g + a \in 1..(g + n) /\ (g + a) - g = a /\ ~(g + a <= g)
    BY <1>1
  <2> QED
    BY <1>3, <1>7, <2>1
<1>11. (\A a \in 1..n : cells[a] \in Scalars) => row \in Seq(Scalars)
  <2> SUFFICES ASSUME \A a \in 1..n : cells[a] \in Scalars PROVE row \in Seq(Scalars)
    OBVIOUS
  <2>1. cells \in Seq(Scalars)
    BY <1>1, <1>4
  <2> QED
    BY <1>2, <1>3, <2>1
<1> QED
  BY <1>1, <1>8, <1>9, <1>10, <1>11 DEF Laid, g, n, cells, row

\* A column of an output row holds a part of the key or an aggregate.
LEMMA ColumnKinds ==
  ASSUME NEW p \in AlignedPlans, NEW i \in Columns(p), i \notin 1..Groups(p)
  PROVE  \E a \in Aggregates(p) : i = Argument(p, a)
<1> DEFINE g == Len(p.group)
           n == Len(p.aggregate)
<1>1. /\ g \in Nat /\ n \in Nat /\ Columns(p) = 1..(g + n) /\ Groups(p) = g /\ Aggregates(p) = 1..n
      /\ \A a : Argument(p, a) = g + a
  BY PlanFacts DEF Columns, Groups, Aggregates, Argument
<1> HIDE DEF g, n
<1>2. i - g \in 1..n /\ i = g + (i - g)
  BY <1>1
<1> QED
  BY <1>1, <1>2

\* Keys fit the columns planned for them.
LEMMA KeyAppendable ==
  ASSUME NEW p \in AlignedPlans, NEW k \in GroupKeys(p), NEW i \in 1..Groups(p)
  PROVE  (is_null(k[i]) \/ k[i].type = p.types[i]) /\ k[i] \in Scalars
<1>1. k[i] \in Cells(InputTypes[i]) /\ InputTypes[i] \in ColumnTypes /\ p.types[i] = InputTypes[i]
  <2>1. i \in Columns(p) /\ Columns(p) \subseteq 1..Len(InputTypes)
    BY PlanFacts
  <2> QED
    BY <2>1, PlanFacts DEF GroupKeys
<1>2. k[i] # Null => k[i].type = InputTypes[i]
  BY <1>1, CellProperties
<1>3. is_null(Null)
  BY <1>1, NullCell
<1> QED
  BY <1>1, <1>2, <1>3 DEF Cells

\* An answer always fits its columns.
LEMMA AnswerAppendable ==
  ASSUME NEW p \in AlignedPlans, NEW mode \in {"complete", "final"}, NEW k \in GroupKeys(p), NEW m, IsSummary(p, m)
  PROVE  Appendable(p.types, RowOf(p, mode, k, m))
<1> DEFINE row == RowOf(p, mode, k, m)
<1>1. /\ DOMAIN row = Columns(p)
      /\ \A i \in 1..Groups(p) : row[i] = k[i]
      /\ \A a \in Aggregates(p) : row[Argument(p, a)] = Outputs(p, mode, m)[a]
  <2>1. Laid(p, k, Outputs(p, mode, m), row)
    BY RowOfColumns
  <2> HIDE DEF row
  <2> QED
    BY <2>1 DEF Laid
<1> HIDE DEF row
<1>2. ASSUME NEW i \in 1..Groups(p) PROVE is_null(row[i]) \/ row[i].type = p.types[i]
  BY <1>1, KeyAppendable
<1>3. ASSUME NEW a \in Aggregates(p)
      PROVE  is_null(row[Argument(p, a)]) \/ row[Argument(p, a)].type = p.types[Argument(p, a)]
  <2>1. Takes(Fn(p, a), ArgumentType(p, a)) /\ m[a] \in Carrier(Fn(p, a), ArgumentType(p, a))
    BY PlanFacts DEF IsSummary
  <2>2. p.types[Argument(p, a)] = ResultType(Fn(p, a), ArgumentType(p, a))
    BY PlanFacts
  <2> DEFINE out == Output(mode, Fn(p, a), StateOf(Fn(p, a), m[a]))
  <2>3. is_null(out) \/ out.type = ResultType(Fn(p, a), ArgumentType(p, a))
    BY <2>1, FinalOutput
  <2>4. Outputs(p, mode, m)[a] = out
    BY DEF Outputs
  <2> QED
    BY <1>1, <2>2, <2>3, <2>4
<1>4. ASSUME NEW i \in Columns(p) PROVE is_null(row[i]) \/ row[i].type = p.types[i]
  BY <1>2, <1>3, ColumnKinds
<1> QED
  BY <1>1, <1>4 DEF Appendable, row

\* A partial row that fits its columns carries its key and its summaries; one that
\* does not has an average.
LEMMA PartialAppendable ==
  ASSUME NEW p \in AlignedPlans, NEW k \in GroupKeys(p), NEW m, IsSummary(p, m)
  PROVE  LET row == RowOf(p, "partial", k, m)
         IN  IF Appendable(p.types, row)
             THEN /\ row \in PartialRows(p) /\ Key(p, row) = k
                  /\ \A a \in Aggregates(p) : Carried(p, a, k)[row] = m[a]
             ELSE \E a \in Aggregates(p) : Fn(p, a) = "avg"
<1> DEFINE row == RowOf(p, "partial", k, m)
           out(a) == Output("partial", Fn(p, a), StateOf(Fn(p, a), m[a]))
<1>0. \A a \in Aggregates(p) : Outputs(p, "partial", m)[a] = out(a)
  BY DEF Outputs
<1> HIDE DEF out
<1>1. /\ Len(row) = Len(p.group) + Len(p.aggregate) /\ DOMAIN row = Columns(p)
      /\ \A i \in 1..Groups(p) : row[i] = k[i]
      /\ \A a \in Aggregates(p) : row[Argument(p, a)] = out(a)
      /\ (\A a \in Aggregates(p) : out(a) \in Scalars) => row \in Seq(Scalars)
  <2>1. Laid(p, k, Outputs(p, "partial", m), row)
    BY RowOfColumns
  <2> HIDE DEF row
  <2> QED
    BY <1>0, <2>1 DEF Laid
<1> HIDE DEF row
<1>2. ASSUME NEW a \in Aggregates(p)
      PROVE  /\ Argument(p, a) \in Columns(p)
             /\ \/ out(a) = Panic /\ Fn(p, a) = "avg"
                \/ out(a) \in PartialCells(Fn(p, a), ArgumentType(p, a)) /\ Unwritten(Fn(p, a), out(a)) = m[a]
  <2>1. Takes(Fn(p, a), ArgumentType(p, a)) /\ m[a] \in Carrier(Fn(p, a), ArgumentType(p, a))
    BY PlanFacts DEF IsSummary
  <2>2. \/ out(a) = Panic /\ Fn(p, a) = "avg"
        \/ out(a) \in PartialCells(Fn(p, a), ArgumentType(p, a)) /\ Unwritten(Fn(p, a), out(a)) = m[a]
    BY <2>1, PartialOutput DEF out
  <2>3. Argument(p, a) \in Columns(p)
    BY PlanFacts
  <2> QED
    BY <2>2, <2>3
<1>3. CASE \E a \in Aggregates(p) : out(a) = Panic
  <2>1. PICK a \in Aggregates(p) : out(a) = Panic
    BY <1>3
  <2>2. Fn(p, a) = "avg"
    <3>1. Fn(p, a) = "avg" \/ (out(a) \in PartialCells(Fn(p, a), ArgumentType(p, a)))
      BY <1>2
    <3>2. Takes(Fn(p, a), ArgumentType(p, a))
      BY PlanFacts
    <3>3. Fn(p, a) \in {"sum", "min", "max"} => out(a) \notin Cells(ArgumentType(p, a))
      BY <2>1, <3>2, NoPanic DEF Takes
    <3>4. out(a) \notin {Scalar("i32", n) : n \in Nat}
      <4>1. Panic.type = "panic" /\ \A n : Scalar("i32", n).type = "i32"
        BY DEF Panic, Scalar
      <4> QED
        BY <2>1, <4>1
    <3> QED
      BY <3>1, <3>2, <3>3, <3>4 DEF PartialCells, Takes, AggregateFunctions
  <2>3. p.types[Argument(p, a)] = "f64"
    BY <2>2, PlanFacts DEF ResultType
  <2>4. ~Appendable(p.types, row)
    <3>1. row[Argument(p, a)] = Panic /\ Argument(p, a) \in DOMAIN row
      BY <1>1, <1>2, <2>1
    <3>2. ~is_null(Panic) /\ Panic.type # "f64"
      BY DEF Panic, Scalar, is_null
    <3> QED
      BY <2>3, <3>1, <3>2 DEF Appendable
  <2> QED
    BY <2>2, <2>4 DEF row
<1>4. CASE \A a \in Aggregates(p) : out(a) # Panic
  <2>1. \A a \in Aggregates(p) :
          /\ out(a) \in PartialCells(Fn(p, a), ArgumentType(p, a)) /\ Unwritten(Fn(p, a), out(a)) = m[a]
          /\ Argument(p, a) \in Columns(p)
    BY <1>2, <1>4
  <2>2. ASSUME NEW a \in Aggregates(p)
        PROVE  out(a) \in Scalars /\ (is_null(out(a)) \/ out(a).type = p.types[Argument(p, a)])
    <3>1. /\ Takes(Fn(p, a), ArgumentType(p, a))
          /\ p.types[Argument(p, a)] = ResultType(Fn(p, a), ArgumentType(p, a))
      BY PlanFacts
    <3>2. Fn(p, a) \in {"sum", "min", "max", "count", "avg"} /\ ArgumentType(p, a) \in ColumnTypes
      BY <3>1 DEF Takes, AggregateFunctions
    <3>3. CASE Fn(p, a) \in {"sum", "min", "max"}
      <4>1. out(a) \in Cells(ArgumentType(p, a))
        BY <2>1, <3>3 DEF PartialCells
      <4>2. p.types[Argument(p, a)] = ArgumentType(p, a)
        BY <3>1, <3>3 DEF ResultType
      <4>3. out(a) # Null => out(a).type = ArgumentType(p, a)
        BY <3>2, <4>1, CellProperties
      <4>4. is_null(Null)
        BY <3>2, NullCell
      <4> QED
        BY <4>1, <4>2, <4>3, <4>4 DEF Cells
    <3>4. CASE Fn(p, a) = "count"
      <4>1. PICK n \in Nat : out(a) = Scalar("i32", n)
        BY <2>1, <3>4 DEF PartialCells
      <4>2. p.types[Argument(p, a)] = "i32"
        BY <3>1, <3>4 DEF ResultType
      <4> QED
        BY <4>1, <4>2 DEF Scalar, Scalars, ColumnTypes
    <3>5. CASE Fn(p, a) = "avg"
      <4>1. out(a) = Null
        BY <2>1, <3>5 DEF PartialCells
      <4>2. is_null(Null) /\ Null \in Cells(ArgumentType(p, a))
        BY <3>2, NullCell
      <4> QED
        BY <4>1, <4>2 DEF Cells
    <3> QED
      BY <3>2, <3>3, <3>4, <3>5
  <2>3. row \in Seq(Scalars)
    BY <1>1, <2>2
  <2>4. row \in Rows(p)
    <3>1. Len(p.group) + Len(p.aggregate) <= Len(row)
      <4>1. Len(p.group) \in Nat /\ Len(p.aggregate) \in Nat
        BY PlanFacts DEF Groups
      <4> QED
        BY <1>1, <4>1
    <3> QED
      BY <2>3, <3>1 DEF Rows
  <2>5. Key(p, row) = k
    <3>1. Key(p, row) = [i \in 1..Groups(p) |-> row[i]]
      BY <2>4, RowFacts
    <3>2. k = [i \in 1..Groups(p) |-> k[i]]
      BY PlanFacts DEF GroupKeys
    <3> QED
      BY <1>1, <3>1, <3>2
  <2>6. row \in PartialRows(p)
    BY <1>1, <2>1, <2>4, <2>5 DEF PartialRows
  <2>7. \A a \in Aggregates(p) : Carried(p, a, k)[row] = m[a]
    BY <1>1, <2>1, <2>5, <2>6 DEF Carried
  <2>8. Appendable(p.types, row)
    <3>1. ASSUME NEW i \in Columns(p) PROVE is_null(row[i]) \/ row[i].type = p.types[i]
      <4>1. CASE i \in 1..Groups(p)
        BY <1>1, <4>1, KeyAppendable
      <4>2. CASE i \notin 1..Groups(p)
        <5>1. PICK a \in Aggregates(p) : i = Argument(p, a)
          BY <4>2, ColumnKinds
        <5> QED
          BY <1>1, <2>2, <5>1
      <4> QED
        BY <4>1, <4>2
    <3> QED
      BY <1>1, <3>1 DEF Appendable
  <2> QED
    BY <2>5, <2>6, <2>7, <2>8 DEF row
<1> QED
  BY <1>3, <1>4

-------------------------------------------------------------------------------
(* HashAggregateExec::execute. *)

\* The summaries of group k from rows of the input, and from partial rows.
Summaries(p, k, rows) == [a \in Aggregates(p) |-> Summary(p, a, Contributed(p, a, k), rows)]
CarriedSummaries(p, k, rows) == [a \in Aggregates(p) |-> Summary(p, a, Carried(p, a, k), rows)]

\* One row for every key, if they all fit.
Answer(p, mode, rows) ==
    LET narrow == [i \in 1..Len(rows) |-> Narrow(p, rows[i])]
        out == {OutputRow(p, mode, k, narrow) : k \in KeysOf(p, rows)}
    IN  IF \E row \in out : ~Appendable(p.types, row)
        THEN [panic |-> TRUE, rows |-> {}] ELSE [panic |-> FALSE, rows |-> out]

\* For an aligned plan only the rows of the answer can panic.
LEMMA ExecuteRows ==
  ASSUME NEW p \in AlignedPlans, NEW mode, NEW types \in {InputTypes, p.types},
         NEW batches \in Seq(Seq(Rows(p)))
  PROVE  execute(p, mode, types, batches) = Answer(p, mode, FlattenSeq(batches))
<1> DEFINE flat == FlattenSeq(batches)
           narrow == [i \in 1..Len(flat) |-> Narrow(p, flat[i])]
           evaluated == [b \in DOMAIN batches |-> Evaluated(p, types, batches[b])]
           rows == FlattenSeq([b \in DOMAIN batches |-> evaluated[b].rows])
           groups(r) == {OutputRow(p, mode, k, r) : k \in {Key(p, r[i]) : i \in DOMAIN r}}
           built(out) == IF \E row \in out : ~Appendable(p.types, row)
                         THEN [panic |-> TRUE, rows |-> {}] ELSE [panic |-> FALSE, rows |-> out]
<1>1. /\ \A b \in DOMAIN batches : ~evaluated[b].panic
      /\ flat \in Seq(Rows(p))
      /\ rows = narrow
  BY EvaluatedBatches
<1>2. execute(p, mode, types, batches) =
        IF \E b \in DOMAIN batches : evaluated[b].panic THEN [panic |-> TRUE, rows |-> {}]
        ELSE built(groups(rows))
  BY DEF execute
<1> HIDE DEF evaluated
<1>3. execute(p, mode, types, batches) = built(groups(narrow))
  <2> HIDE DEF built, groups, narrow, rows
  <2> QED
    BY <1>1, <1>2
<1>4. {Key(p, narrow[i]) : i \in DOMAIN narrow} = KeysOf(p, flat)
  <2> HIDE DEF flat
  <2>1. DOMAIN narrow = 1..Len(flat) /\ DOMAIN flat = 1..Len(flat)
    BY <1>1
  <2>2. \A i \in 1..Len(flat) : Key(p, narrow[i]) = Key(p, flat[i])
    <3>1. ASSUME NEW i \in 1..Len(flat) PROVE Key(p, narrow[i]) = Key(p, flat[i])
      <4>1. narrow[i] = Narrow(p, flat[i]) /\ flat[i] \in Rows(p)
        BY <1>1
      <4> QED
        BY <4>1, RowFacts
    <3> QED
      BY <3>1
  <2> HIDE DEF narrow
  <2> QED
    BY <2>1, <2>2 DEF KeysOf
<1> HIDE DEF narrow
<1>5. groups(narrow) = {OutputRow(p, mode, k, narrow) : k \in KeysOf(p, flat)}
  BY <1>4
<1> HIDE DEF groups
<1> QED
  BY <1>3, <1>5 DEF Answer, narrow

\* The keys of input rows and of partial rows.
LEMMA KeyTypes ==
  ASSUME NEW p \in AlignedPlans
  PROVE  /\ \A rows \in Seq(InputRows) : KeysOf(p, rows) \subseteq GroupKeys(p)
         /\ \A rows \in Seq(PartialRows(p)) : KeysOf(p, rows) \subseteq GroupKeys(p)
         /\ InputRows \subseteq Rows(p) /\ PartialRows(p) \subseteq Rows(p)
<1>1. ASSUME NEW row \in InputRows PROVE Key(p, row) \in GroupKeys(p) /\ row \in Rows(p)
  <2>1. row \in Rows(p) /\ \A i \in 1..Groups(p) : row[i] \in Cells(InputTypes[i])
    BY InputRowFacts
  <2>2. /\ Len(Key(p, row)) = Groups(p) /\ Key(p, row) \in Seq(Scalars)
        /\ Key(p, row) = [i \in 1..Groups(p) |-> row[i]]
    BY <2>1, RowFacts
  <2> QED
    BY <2>1, <2>2 DEF GroupKeys
<1>2. \A row \in PartialRows(p) : Key(p, row) \in GroupKeys(p) /\ row \in Rows(p)
  BY DEF PartialRows
<1>3. ASSUME NEW R, \A row \in R : Key(p, row) \in GroupKeys(p), NEW rows \in Seq(R)
      PROVE  KeysOf(p, rows) \subseteq GroupKeys(p)
  <2>1. \A i \in DOMAIN rows : rows[i] \in R
    OBVIOUS
  <2> QED
    BY <1>3, <2>1 DEF KeysOf
<1> QED
  BY <1>1, <1>2, <1>3

\* The rows of a group are summarised before a merge, and merged after it.
LEMMA OutputRows ==
  ASSUME NEW p \in AlignedPlans, NEW k
  PROVE  /\ \A mode \in {"partial", "complete"} : \A rows \in Seq(InputRows) :
              /\ OutputRow(p, mode, k, [i \in 1..Len(rows) |-> Narrow(p, rows[i])])
                   = RowOf(p, mode, k, Summaries(p, k, rows))
              /\ IsSummary(p, Summaries(p, k, rows))
         /\ \A rows \in Seq(PartialRows(p)) :
              /\ OutputRow(p, "final", k, [i \in 1..Len(rows) |-> Narrow(p, rows[i])])
                   = RowOf(p, "final", k, CarriedSummaries(p, k, rows))
              /\ IsSummary(p, CarriedSummaries(p, k, rows))
<1>1. DOMAIN p.aggregate = Aggregates(p)
  BY PlanFacts
<1>2. ASSUME NEW mode \in {"partial", "complete"}, NEW rows \in Seq(InputRows)
      PROVE  /\ OutputRow(p, mode, k, [i \in 1..Len(rows) |-> Narrow(p, rows[i])])
                  = RowOf(p, mode, k, Summaries(p, k, rows))
             /\ IsSummary(p, Summaries(p, k, rows))
  <2> DEFINE narrow == [i \in 1..Len(rows) |-> Narrow(p, rows[i])]
             m == Summaries(p, k, rows)
  <2>1. ASSUME NEW a \in Aggregates(p)
        PROVE  /\ Accumulated(p, mode, a, k, narrow) = StateOf(Fn(p, a), m[a])
               /\ m[a] \in Carrier(Fn(p, a), ArgumentType(p, a))
    <3>1. m[a] = Summary(p, a, Contributed(p, a, k), rows)
      BY DEF Summaries
    <3>2. Accumulated(p, mode, a, k, narrow) = StateOf(Fn(p, a), Summary(p, a, Contributed(p, a, k), rows))
      BY ContributedAccumulates
    <3>3. Summary(p, a, Contributed(p, a, k), rows) \in Carrier(Fn(p, a), ArgumentType(p, a))
      BY SummaryTypes, MeasureType DEF Summary, AggregateMonoid
    <3> QED
      BY <3>1, <3>2, <3>3
  <2> HIDE DEF narrow, m
  <2>2. OutputRow(p, mode, k, narrow) = RowOf(p, mode, k, m)
    BY <1>1, <2>1 DEF OutputRow, RowOf, Outputs, Fn
  <2> QED
    BY <2>1, <2>2 DEF IsSummary, narrow, m
<1>3. ASSUME NEW rows \in Seq(PartialRows(p))
      PROVE  /\ OutputRow(p, "final", k, [i \in 1..Len(rows) |-> Narrow(p, rows[i])])
                  = RowOf(p, "final", k, CarriedSummaries(p, k, rows))
             /\ IsSummary(p, CarriedSummaries(p, k, rows))
  <2> DEFINE narrow == [i \in 1..Len(rows) |-> Narrow(p, rows[i])]
             m == CarriedSummaries(p, k, rows)
  <2>1. ASSUME NEW a \in Aggregates(p)
        PROVE  /\ Accumulated(p, "final", a, k, narrow) = StateOf(Fn(p, a), m[a])
               /\ m[a] \in Carrier(Fn(p, a), ArgumentType(p, a))
    <3>1. m[a] = Summary(p, a, Carried(p, a, k), rows)
      BY DEF CarriedSummaries
    <3>2. Accumulated(p, "final", a, k, narrow) = StateOf(Fn(p, a), Summary(p, a, Carried(p, a, k), rows))
      BY CarriedAccumulates
    <3>3. Summary(p, a, Carried(p, a, k), rows) \in Carrier(Fn(p, a), ArgumentType(p, a))
      BY SummaryTypes, MeasureType DEF Summary, AggregateMonoid
    <3> QED
      BY <3>1, <3>2, <3>3
  <2> HIDE DEF narrow, m
  <2>2. OutputRow(p, "final", k, narrow) = RowOf(p, "final", k, m)
    BY <1>1, <2>1 DEF OutputRow, RowOf, Outputs, Fn
  <2> QED
    BY <2>1, <2>2 DEF IsSummary, narrow, m
<1> QED
  BY <1>2, <1>3

\* A partial row that stands for group k.
Carries(p, k, m, row) ==
    /\ row \in PartialRows(p)
    /\ Key(p, row) = k
    /\ \A a \in Aggregates(p) : Carried(p, a, k)[row] = m[a]

\* Batches of rows of a set are batches of rows of a larger one.
LEMMA NestedSequences ==
  ASSUME NEW A, NEW B, A \subseteq B, NEW bs \in Seq(Seq(A))
  PROVE  bs \in Seq(Seq(B))
<1>1. Seq(A) \subseteq Seq(B)
  OBVIOUS
<1> QED
  BY <1>1

\* A Partial aggregate writes a row for every group of its input, or panics on an AVG.
LEMMA ExecutePartial ==
  ASSUME NEW p \in AlignedPlans, NEW batches \in Seq(Seq(InputRows)), NEW flat, flat = FlattenSeq(batches),
         NEW out, out = execute(p, "partial", InputTypes, batches)
  PROVE  /\ out.panic => \E a \in Aggregates(p) : Fn(p, a) = "avg"
         /\ ~out.panic =>
              /\ out.rows = {RowOf(p, "partial", k, Summaries(p, k, flat)) : k \in KeysOf(p, flat)}
              /\ \A k \in KeysOf(p, flat) :
                   Carries(p, k, Summaries(p, k, flat), RowOf(p, "partial", k, Summaries(p, k, flat)))
<1> DEFINE narrow == [i \in 1..Len(flat) |-> Narrow(p, flat[i])]
           row(k) == RowOf(p, "partial", k, Summaries(p, k, flat))
           K == KeysOf(p, flat)
<1>1. flat \in Seq(InputRows)
  BY FlattenType
<1>2. K \subseteq GroupKeys(p)
  BY <1>1, KeyTypes
<1>3. ASSUME NEW k \in K PROVE OutputRow(p, "partial", k, narrow) = row(k) /\ IsSummary(p, Summaries(p, k, flat))
  BY <1>1, OutputRows
<1>4. out = IF \E r \in {OutputRow(p, "partial", k, narrow) : k \in K} : ~Appendable(p.types, r)
            THEN [panic |-> TRUE, rows |-> {}]
            ELSE [panic |-> FALSE, rows |-> {OutputRow(p, "partial", k, narrow) : k \in K}]
  <2>1. batches \in Seq(Seq(Rows(p)))
    BY KeyTypes, NestedSequences
  <2>2. out = Answer(p, "partial", FlattenSeq(batches))
    BY <2>1, ExecuteRows
  <2> QED
    BY <2>2 DEF Answer
<1>5. ASSUME NEW k \in K
      PROVE  IF Appendable(p.types, row(k)) THEN Carries(p, k, Summaries(p, k, flat), row(k))
             ELSE \E a \in Aggregates(p) : Fn(p, a) = "avg"
  <2> DEFINE m == Summaries(p, k, flat)
  <2>1. k \in GroupKeys(p) /\ IsSummary(p, m)
    BY <1>2, <1>3
  <2> HIDE DEF m
  <2>2. IF Appendable(p.types, RowOf(p, "partial", k, m))
        THEN /\ RowOf(p, "partial", k, m) \in PartialRows(p) /\ Key(p, RowOf(p, "partial", k, m)) = k
             /\ \A a \in Aggregates(p) : Carried(p, a, k)[RowOf(p, "partial", k, m)] = m[a]
        ELSE \E a \in Aggregates(p) : Fn(p, a) = "avg"
    BY <2>1, PartialAppendable
  <2> QED
    BY <2>2 DEF Carries, m
<1> HIDE DEF narrow, row, K
<1>6. {OutputRow(p, "partial", k, narrow) : k \in K} = {row(k) : k \in K}
  BY <1>3
<1>7. CASE \E k \in K : ~Appendable(p.types, row(k))
  <2>1. out = [panic |-> TRUE, rows |-> {}]
    BY <1>4, <1>6, <1>7
  <2> QED
    BY <1>5, <1>7, <2>1
<1>8. CASE \A k \in K : Appendable(p.types, row(k))
  <2>1. out = [panic |-> FALSE, rows |-> {row(k) : k \in K}]
    BY <1>4, <1>6, <1>8
  <2> QED
    BY <1>5, <1>8, <2>1 DEF row, K
<1> QED
  BY <1>7, <1>8

\* A Complete aggregate answers with a row for every group.
LEMMA ExecuteComplete ==
  ASSUME NEW p \in AlignedPlans, NEW batches \in Seq(Seq(InputRows)), NEW flat, flat = FlattenSeq(batches)
  PROVE  execute(p, "complete", InputTypes, batches)
           = [panic |-> FALSE,
              rows |-> {RowOf(p, "complete", k, Summaries(p, k, flat)) : k \in KeysOf(p, flat)}]
<1> DEFINE narrow == [i \in 1..Len(flat) |-> Narrow(p, flat[i])]
           row(k) == RowOf(p, "complete", k, Summaries(p, k, flat))
           K == KeysOf(p, flat)
           out == execute(p, "complete", InputTypes, batches)
<1>1. flat \in Seq(InputRows)
  BY FlattenType
<1>2. K \subseteq GroupKeys(p)
  BY <1>1, KeyTypes
<1>3. ASSUME NEW k \in K PROVE OutputRow(p, "complete", k, narrow) = row(k) /\ IsSummary(p, Summaries(p, k, flat))
  BY <1>1, OutputRows
<1>4. out = IF \E r \in {OutputRow(p, "complete", k, narrow) : k \in K} : ~Appendable(p.types, r)
            THEN [panic |-> TRUE, rows |-> {}]
            ELSE [panic |-> FALSE, rows |-> {OutputRow(p, "complete", k, narrow) : k \in K}]
  <2>1. batches \in Seq(Seq(Rows(p)))
    BY KeyTypes, NestedSequences
  <2>2. out = Answer(p, "complete", FlattenSeq(batches))
    BY <2>1, ExecuteRows
  <2> HIDE DEF out
  <2> QED
    BY <2>2 DEF Answer
<1>5. ASSUME NEW k \in K PROVE Appendable(p.types, row(k))
  BY <1>2, <1>3, AnswerAppendable
<1> HIDE DEF narrow, row, K, out
<1>6. {OutputRow(p, "complete", k, narrow) : k \in K} = {row(k) : k \in K}
  BY <1>3
<1>7. out = [panic |-> FALSE, rows |-> {row(k) : k \in K}]
  BY <1>4, <1>5, <1>6
<1> QED
  BY <1>7 DEF row, K, out

\* A Final aggregate answers with a row for every key of the partial rows.
LEMMA ExecuteFinal ==
  ASSUME NEW p \in AlignedPlans, NEW batches \in Seq(Seq(PartialRows(p))), NEW flat, flat = FlattenSeq(batches)
  PROVE  execute(p, "final", p.types, batches)
           = [panic |-> FALSE,
              rows |-> {RowOf(p, "final", k, CarriedSummaries(p, k, flat)) : k \in KeysOf(p, flat)}]
<1> DEFINE narrow == [i \in 1..Len(flat) |-> Narrow(p, flat[i])]
           row(k) == RowOf(p, "final", k, CarriedSummaries(p, k, flat))
           K == KeysOf(p, flat)
           out == execute(p, "final", p.types, batches)
<1>1. flat \in Seq(PartialRows(p))
  BY FlattenType
<1>2. K \subseteq GroupKeys(p)
  BY <1>1, KeyTypes
<1>3. ASSUME NEW k \in K
      PROVE  OutputRow(p, "final", k, narrow) = row(k) /\ IsSummary(p, CarriedSummaries(p, k, flat))
  BY <1>1, OutputRows
<1>4. out = IF \E r \in {OutputRow(p, "final", k, narrow) : k \in K} : ~Appendable(p.types, r)
            THEN [panic |-> TRUE, rows |-> {}]
            ELSE [panic |-> FALSE, rows |-> {OutputRow(p, "final", k, narrow) : k \in K}]
  <2>1. batches \in Seq(Seq(Rows(p)))
    BY KeyTypes, NestedSequences
  <2>2. out = Answer(p, "final", FlattenSeq(batches))
    BY <2>1, ExecuteRows
  <2> HIDE DEF out
  <2> QED
    BY <2>2 DEF Answer
<1>5. ASSUME NEW k \in K PROVE Appendable(p.types, row(k))
  BY <1>2, <1>3, AnswerAppendable
<1> HIDE DEF narrow, row, K, out
<1>6. {OutputRow(p, "final", k, narrow) : k \in K} = {row(k) : k \in K}
  BY <1>3
<1>7. out = [panic |-> FALSE, rows |-> {row(k) : k \in K}]
  BY <1>4, <1>5, <1>6
<1> QED
  BY <1>7 DEF row, K, out
-------------------------------------------------------------------------------
(* The rows of an answer are those of GROUP BY. *)

\* What the rows of group k contribute to an aggregate comes from the rows that have a value.
LEMMA MemberContributions ==
  ASSUME NEW p \in AlignedPlans, NEW a \in Aggregates(p), NEW k, NEW rows \in Seq(InputRows)
  PROVE  /\ Image(Contributed(p, a, k), rows)
              = Contributions(Fn(p, a), rows, Argument(p, a), Members(p, rows, k, a))
         /\ HasValues(rows, Argument(p, a), Members(p, rows, k, a), ArgumentType(p, a))
<1> DEFINE g == Contributed(p, a, k)
           c == Argument(p, a)
           fn == Fn(p, a)
           places == Members(p, rows, k, a)
<1>1. DOMAIN rows = 1..Len(rows) /\ \A i \in 1..Len(rows) : rows[i] \in InputRows
  OBVIOUS
<1>2. \A row \in InputRows : row[c] \in Cells(ArgumentType(p, a))
  BY InputRowFacts
<1>3. places = {i \in 1..Len(rows) : Key(p, rows[i]) = k /\ ~is_null(rows[i][c])}
  BY <1>1 DEF Members
<1>4. \A row \in InputRows : g[row] = IF Key(p, row) = k THEN Contribution(fn, row[c]) ELSE Unit(fn)
  BY DEF Contributed
<1> HIDE DEF g, c, fn, places
<1>5. ASSUME NEW i \in 1..Len(rows)
      PROVE  g[rows[i]] = IF i \in places THEN Contribution(fn, rows[i][c]) ELSE Unit(fn)
  <2>1. is_null(rows[i][c]) => Contribution(fn, rows[i][c]) = Unit(fn)
    BY DEF Contribution
  <2>2. g[rows[i]] = IF Key(p, rows[i]) = k THEN Contribution(fn, rows[i][c]) ELSE Unit(fn)
    BY <1>1, <1>4
  <2> QED
    BY <1>3, <2>1, <2>2
<1>6. Image(g, rows) = Contributions(fn, rows, c, places)
  BY <1>5 DEF Image, Contributions
<1>7. HasValues(rows, c, places, ArgumentType(p, a))
  <2>1. is_null(Null)
    BY DEF is_null, Null, Scalar
  <2> QED
    BY <1>1, <1>2, <1>3, <2>1 DEF HasValues
<1> QED
  BY <1>6, <1>7 DEF g, c, fn, places

\* The row that the summaries of a group give is the one of GROUP BY.
LEMMA GroupRow ==
  ASSUME NEW p \in AlignedPlans, NEW mode \in {"complete", "final"}, NEW k, NEW rows \in Seq(InputRows)
  PROVE  RowOf(p, mode, k, Summaries(p, k, rows)) = GroupOf(p, rows, k)
<1>1. DOMAIN p.aggregate = Aggregates(p)
  BY PlanFacts
<1>2. ASSUME NEW a \in Aggregates(p)
      PROVE  Outputs(p, mode, Summaries(p, k, rows))[a]
               = AggregateOf(p.aggregate[a].fn, rows, Argument(p, a), Members(p, rows, k, a))
  <2> DEFINE fn == Fn(p, a)
             c == Argument(p, a)
             places == Members(p, rows, k, a)
             s == Contributions(fn, rows, c, places)
  <2>1. Image(Contributed(p, a, k), rows) = s /\ HasValues(rows, c, places, InputTypes[c])
    BY MemberContributions DEF ArgumentType
  <2>2. c \in 1..Len(InputTypes) /\ Takes(fn, InputTypes[c]) /\ Len(rows) \in Nat
    BY PlanFacts DEF ArgumentType
  <2>3. Summaries(p, k, rows)[a] = Reduce(Combine(fn, InputTypes[c]), Unit(fn), s)
    <3> HIDE DEF fn, s
    <3>1. Summaries(p, k, rows)[a] = Summary(p, a, Contributed(p, a, k), rows)
      BY DEF Summaries
    <3> QED
      BY <2>1, <3>1 DEF Summary, Measure, fn, ArgumentType
  <2>4. Outputs(p, mode, Summaries(p, k, rows))[a] = Output(mode, fn, StateOf(fn, Summaries(p, k, rows)[a]))
    BY DEF Outputs
  <2> HIDE DEF fn, c, places
  <2>5. Output(mode, fn, StateOf(fn, Reduce(Combine(fn, InputTypes[c]), Unit(fn), s)))
          = AggregateOf(fn, rows, c, places)
    BY <2>1, <2>2, AggregateReference
  <2> QED
    BY <2>3, <2>4, <2>5 DEF fn, c, places, Fn
<1>3. Outputs(p, mode, Summaries(p, k, rows))
        = [a \in DOMAIN p.aggregate |->
             AggregateOf(p.aggregate[a].fn, rows, Argument(p, a), Members(p, rows, k, a))]
  <2>1. Outputs(p, mode, Summaries(p, k, rows))
          = [a \in Aggregates(p) |-> Outputs(p, mode, Summaries(p, k, rows))[a]]
    BY DEF Outputs
  <2> QED
    BY <1>1, <1>2, <2>1
<1> QED
  BY <1>3 DEF RowOf, GroupOf

\* Without workers the answer of an aligned plan is GROUP BY.
LEMMA CompleteIsGroupBy ==
  ASSUME NEW p \in AlignedPlans, NEW batches \in Seq(Seq(InputRows))
  PROVE  execute(p, "complete", InputTypes, batches)
           = [panic |-> FALSE, rows |-> GroupBy(p, FlattenSeq(batches))]
<1> DEFINE flat == FlattenSeq(batches)
           K == KeysOf(p, flat)
<1>1. flat \in Seq(InputRows)
  BY FlattenType
<1>2. execute(p, "complete", InputTypes, batches)
        = [panic |-> FALSE, rows |-> {RowOf(p, "complete", k, Summaries(p, k, flat)) : k \in K}]
  BY ExecuteComplete
<1> HIDE DEF flat
<1>3. \A k \in K : RowOf(p, "complete", k, Summaries(p, k, flat)) = GroupOf(p, flat, k)
  BY <1>1, GroupRow
<1>4. GroupBy(p, flat) = {GroupOf(p, flat, k) : k \in K}
  BY DEF GroupBy, KeysOf
<1> HIDE DEF K
<1>5. {RowOf(p, "complete", k, Summaries(p, k, flat)) : k \in K} = {GroupOf(p, flat, k) : k \in K}
  BY <1>3
<1> QED
  BY <1>2, <1>4, <1>5 DEF flat
===============================================================================
