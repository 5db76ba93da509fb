-------------------------- MODULE QueryPipelineProofs --------------------------
(***************************************************************************)
(* A query that returns rows is well formed and supported, and a valid     *)
(* query is not refused while it is planned, for every file,               *)
(* every DataFrame and each of the three contexts.                         *)
(*                                                                         *)
(* The operators on plans and expressions are recursive functions over     *)
(* trees of bounded depth.  The first part shows, for each, that the       *)
(* function exists, so that it obeys its equation; what follows is by      *)
(* induction on the depth.                                                 *)
(***************************************************************************)
EXTENDS QueryPipeline, Reductions

-------------------------------------------------------------------------------
(* Levels of trees. *)

\* Induction on levels: what holds of level 0, and of a level if of the one below it,
\* holds of every level.
LEMMA LevelInduction ==
  ASSUME NEW N \in Nat, NEW S, 0 \in S, \A n \in 1..N : n - 1 \in S => n \in S
  PROVE  0..N \subseteq S
<1> DEFINE T == {n \in Nat : n <= N => n \in S}
<1>1. 0 \in T
  OBVIOUS
<1>2. ASSUME NEW n \in Nat, n \in T PROVE n + 1 \in T
  <2>1. SUFFICES ASSUME n + 1 <= N PROVE n + 1 \in S
    OBVIOUS
  <2>2. n + 1 \in 1..N /\ (n + 1) - 1 = n /\ n \in S
    BY <1>2, <2>1
  <2> QED
    BY <2>2
<1>3. Nat \subseteq T
  <2> HIDE DEF T
  <2> QED
    BY <1>1, <1>2, NatSetInduction
<1> QED
  BY <1>3

\* A level holds the expressions whose operands are in the level below.
LEMMA ExprLevels ==
  \A n \in 0..MaxExprDepth :
    LogicalExprsWithin(n) = ExprForms(IF n = 0 THEN {} ELSE LogicalExprsWithin(n - 1))
<1> DEFINE E(f) == [k \in 0..MaxExprDepth |-> ExprForms(IF k = 0 THEN {} ELSE f[k - 1])]
           f == CHOOSE f : f = E(f)
<1>1. \A g : \A k \in 0..MaxExprDepth : E(g)[k] = ExprForms(IF k = 0 THEN {} ELSE g[k - 1])
  OBVIOUS
<1>2. \A g : DOMAIN E(g) = 0..MaxExprDepth /\ E(g) = [k \in 0..MaxExprDepth |-> E(g)[k]]
  OBVIOUS
<1>3. \A n : LogicalExprsWithin(n) = f[n]
  BY DEF LogicalExprsWithin
<1> HIDE DEF E
<1> DEFINE S == {n \in 0..MaxExprDepth :
                   \E g : \A k \in 0..n : g[k] = ExprForms(IF k = 0 THEN {} ELSE g[k - 1])}
<1>4. 0 \in S
  <2> DEFINE g == [k \in {0} |-> ExprForms({})]
  <2>1. \A k \in 0..0 : g[k] = ExprForms(IF k = 0 THEN {} ELSE g[k - 1])
    OBVIOUS
  <2> HIDE DEF g
  <2> QED
    BY <2>1, ExprDepthAssumption
<1>5. ASSUME NEW n \in 1..MaxExprDepth, n - 1 \in S PROVE n \in S
  <2>1. PICK g : \A k \in 0..(n - 1) : g[k] = ExprForms(IF k = 0 THEN {} ELSE g[k - 1])
    BY <1>5
  <2> DEFINE h == [k \in 0..n |-> ExprForms(IF k = 0 THEN {} ELSE g[k - 1])]
  <2>2. \A k \in 0..n : h[k] = ExprForms(IF k = 0 THEN {} ELSE g[k - 1])
    OBVIOUS
  <2> HIDE DEF h
  <2>3. \A k \in 0..(n - 1) : h[k] = g[k]
    BY <2>1, <2>2, ExprDepthAssumption
  <2>4. ASSUME NEW k \in 0..n PROVE h[k] = ExprForms(IF k = 0 THEN {} ELSE h[k - 1])
    <3>1. CASE k = 0
      BY <2>2, <3>1
    <3>2. CASE k # 0
      <4>1. k - 1 \in 0..(n - 1)
        BY <3>2, ExprDepthAssumption
      <4> QED
        BY <2>2, <2>3, <3>2, <4>1
    <3> QED
      BY <3>1, <3>2
  <2> QED
    BY <2>4, ExprDepthAssumption
<1>6. MaxExprDepth \in S
  <2> HIDE DEF S
  <2> QED
    BY <1>4, <1>5, LevelInduction, ExprDepthAssumption
<1>7. PICK g : \A k \in 0..MaxExprDepth : g[k] = ExprForms(IF k = 0 THEN {} ELSE g[k - 1])
  BY <1>6
<1> DEFINE h == [k \in 0..MaxExprDepth |-> g[k]]
<1>8. h = E(h)
  <2>1. ASSUME NEW k \in 0..MaxExprDepth PROVE h[k] = E(h)[k]
    <3>1. (k # 0) => k - 1 \in 0..MaxExprDepth
      BY ExprDepthAssumption
    <3>2. (k # 0) => h[k - 1] = g[k - 1]
      BY <3>1
    <3> QED
      BY <1>1, <1>7, <3>2
  <2>2. h = [k \in 0..MaxExprDepth |-> h[k]]
    OBVIOUS
  <2> HIDE DEF h
  <2> QED
    BY <1>2, <2>1, <2>2
<1>9. f = E(f)
  <2> HIDE DEF h
  <2> QED
    BY <1>8
<1> HIDE DEF f
<1>10. \A k \in 0..MaxExprDepth : f[k] = ExprForms(IF k = 0 THEN {} ELSE f[k - 1])
  BY <1>1, <1>9
<1> QED
  BY <1>3, <1>10

\* A level holds the plans whose inputs are in the level below.
LEMMA PlanLevels ==
  \A n \in 0..MaxPlanDepth :
    LogicalPlansWithin(n) = PlanForms(IF n = 0 THEN {} ELSE LogicalPlansWithin(n - 1), LogicalExprs)
<1> DEFINE E(f) == [k \in 0..MaxPlanDepth |->
                      PlanForms(IF k = 0 THEN {} ELSE f[k - 1], LogicalExprs)]
           f == CHOOSE f : f = E(f)
<1>1. \A g : \A k \in 0..MaxPlanDepth : E(g)[k] = PlanForms(IF k = 0 THEN {} ELSE g[k - 1], LogicalExprs)
  OBVIOUS
<1>2. \A g : DOMAIN E(g) = 0..MaxPlanDepth /\ E(g) = [k \in 0..MaxPlanDepth |-> E(g)[k]]
  OBVIOUS
<1>3. \A n : LogicalPlansWithin(n) = f[n]
  BY DEF LogicalPlansWithin
<1> HIDE DEF E
<1> DEFINE S == {n \in 0..MaxPlanDepth :
                   \E g : \A k \in 0..n : g[k] = PlanForms(IF k = 0 THEN {} ELSE g[k - 1], LogicalExprs)}
<1>4. 0 \in S
  <2> DEFINE g == [k \in {0} |-> PlanForms({}, LogicalExprs)]
  <2>1. \A k \in 0..0 : g[k] = PlanForms(IF k = 0 THEN {} ELSE g[k - 1], LogicalExprs)
    OBVIOUS
  <2> HIDE DEF g
  <2> QED
    BY <2>1, PlanDepthAssumption
<1>5. ASSUME NEW n \in 1..MaxPlanDepth, n - 1 \in S PROVE n \in S
  <2>1. PICK g : \A k \in 0..(n - 1) : g[k] = PlanForms(IF k = 0 THEN {} ELSE g[k - 1], LogicalExprs)
    BY <1>5
  <2> DEFINE h == [k \in 0..n |-> PlanForms(IF k = 0 THEN {} ELSE g[k - 1], LogicalExprs)]
  <2>2. \A k \in 0..n : h[k] = PlanForms(IF k = 0 THEN {} ELSE g[k - 1], LogicalExprs)
    OBVIOUS
  <2> HIDE DEF h
  <2>3. \A k \in 0..(n - 1) : h[k] = g[k]
    BY <2>1, <2>2, PlanDepthAssumption
  <2>4. ASSUME NEW k \in 0..n PROVE h[k] = PlanForms(IF k = 0 THEN {} ELSE h[k - 1], LogicalExprs)
    <3>1. CASE k = 0
      BY <2>2, <3>1
    <3>2. CASE k # 0
      <4>1. k - 1 \in 0..(n - 1)
        BY <3>2, PlanDepthAssumption
      <4> QED
        BY <2>2, <2>3, <3>2, <4>1
    <3> QED
      BY <3>1, <3>2
  <2> QED
    BY <2>4, PlanDepthAssumption
<1>6. MaxPlanDepth \in S
  <2> HIDE DEF S
  <2> QED
    BY <1>4, <1>5, LevelInduction, PlanDepthAssumption
<1>7. PICK g : \A k \in 0..MaxPlanDepth : g[k] = PlanForms(IF k = 0 THEN {} ELSE g[k - 1], LogicalExprs)
  BY <1>6
<1> DEFINE h == [k \in 0..MaxPlanDepth |-> g[k]]
<1>8. h = E(h)
  <2>1. ASSUME NEW k \in 0..MaxPlanDepth PROVE h[k] = E(h)[k]
    <3>1. (k # 0) => k - 1 \in 0..MaxPlanDepth
      BY PlanDepthAssumption
    <3>2. (k # 0) => h[k - 1] = g[k - 1]
      BY <3>1
    <3> QED
      BY <1>1, <1>7, <3>2
  <2>2. h = [k \in 0..MaxPlanDepth |-> h[k]]
    OBVIOUS
  <2> HIDE DEF h
  <2> QED
    BY <1>2, <2>1, <2>2
<1>9. f = E(f)
  <2> HIDE DEF h
  <2> QED
    BY <1>8
<1> HIDE DEF f
<1>10. \A k \in 0..MaxPlanDepth : f[k] = PlanForms(IF k = 0 THEN {} ELSE f[k - 1], LogicalExprs)
  BY <1>1, <1>9
<1> QED
  BY <1>3, <1>10

ExprOps == {"col", "index", "lit", "interval"} \cup UnaryOps \cup BinaryOps

\* The parts of an expression whose operands are in a set.
ExprShape(x, inner) ==
    /\ x.op \in ExprOps
    /\ operands(x) \subseteq inner
    /\ x.op = "col" => x.name \in STRING /\ x = col(x.name)
    /\ x.op = "index" => x.i \in Nat
    /\ x.op = "lit" => x.value \in Literals /\ x = lit(x.value)
    /\ x.op = "interval" => x.days \in {v.n : v \in Literals}
    /\ x.op = "alias" => x.name \in STRING
    /\ x.op = "cast" => x.type \in STRING
    /\ x.op = "aggregate" => x.fn \in AggregateFns /\ x = aggregate_expr(x.fn, x.expr)
    /\ x.op \in UnaryOps => x.expr \in inner
    /\ x.op \in BinaryOps => x.l \in inner /\ x.r \in inner /\ x = binary(x.op, x.l, x.r)

\* An expression of either kind has its parts, and only an expression has them.
LEMMA ExprParts ==
  ASSUME NEW inner, NEW x \in ExprForms(inner)
  PROVE  ExprShape(x, inner)
<1> USE DEF ExprShape, ExprOps, UnaryOps, operands
<1>0. /\ BinaryOps \cap {"col", "index", "lit", "interval", "alias", "cast", "not", "aggregate"} = {}
  BY DEF BinaryOps, Comparisons, Connectives, Maths, Dates
<1>1. CASE x \in [op : {"col"}, name : STRING]
  BY <1>0, <1>1 DEF col
<1>2. CASE x \in [op : {"index"}, i : Nat]
  BY <1>0, <1>2
<1>3. CASE x \in [op : {"lit"}, value : Literals]
  BY <1>0, <1>3 DEF lit
<1>4. CASE x \in [op : {"interval"}, days : {v.n : v \in Literals}]
  BY <1>0, <1>4
<1>5. CASE x \in [op : {"alias"}, expr : inner, name : STRING]
  BY <1>0, <1>5
<1>6. CASE x \in [op : {"cast"}, expr : inner, type : STRING]
  BY <1>0, <1>6
<1>7. CASE x \in [op : {"not"}, expr : inner]
  BY <1>0, <1>7
<1>8. CASE x \in [op : {"aggregate"}, fn : AggregateFns, expr : inner]
  BY <1>0, <1>8 DEF aggregate_expr
<1>9. CASE x \in [op : BinaryOps, l : inner, r : inner]
  BY <1>0, <1>9 DEF binary
<1> QED
  BY <1>1, <1>2, <1>3, <1>4, <1>5, <1>6, <1>7, <1>8, <1>9 DEF ExprForms

\* A larger set of operands makes more expressions.
LEMMA ExprFormsMonotone ==
  ASSUME NEW S, NEW T, S \subseteq T
  PROVE  ExprForms(S) \subseteq ExprForms(T)
BY DEF ExprForms

\* Every level is part of the next, and so of the whole universe.
LEMMA ExprTower ==
  /\ \A n \in 1..MaxExprDepth : LogicalExprsWithin(n - 1) \subseteq LogicalExprsWithin(n)
  /\ \A n \in 0..MaxExprDepth : LogicalExprsWithin(n) \subseteq LogicalExprs
<1> DEFINE E(n) == LogicalExprsWithin(n)
<1>1. \A n \in 0..MaxExprDepth : E(n) = ExprForms(IF n = 0 THEN {} ELSE E(n - 1))
  BY ExprLevels
<1> HIDE DEF E
<1> DEFINE S == {n \in 0..MaxExprDepth : n # 0 => E(n - 1) \subseteq E(n)}
<1>2. 0 \in S
  BY ExprDepthAssumption
<1>3. ASSUME NEW n \in 1..MaxExprDepth, n - 1 \in S PROVE n \in S
  <2>1. n \in 0..MaxExprDepth /\ n # 0 /\ n - 1 \in 0..MaxExprDepth
    BY ExprDepthAssumption
  <2>2. E(n) = ExprForms(E(n - 1))
    BY <1>1, <2>1
  <2>3. CASE n = 1
    <3>1. E(n - 1) = ExprForms({})
      BY <1>1, <2>1, <2>3
    <3>2. {} \subseteq E(n - 1)
      OBVIOUS
    <3> QED
      BY <2>1, <2>2, <3>1, <3>2, ExprFormsMonotone
  <2>4. CASE n # 1
    <3>1. n - 1 # 0 /\ E((n - 1) - 1) \subseteq E(n - 1)
      BY <1>3, <2>4
    <3>2. E(n - 1) = ExprForms(E((n - 1) - 1))
      BY <1>1, <2>1, <3>1
    <3> QED
      BY <2>1, <2>2, <3>1, <3>2, ExprFormsMonotone
  <2> QED
    BY <2>3, <2>4
<1>4. \A n \in 1..MaxExprDepth : E(n - 1) \subseteq E(n)
  <2>1. 0..MaxExprDepth \subseteq S
    <3> HIDE DEF S
    <3> QED
      BY <1>2, <1>3, LevelInduction, ExprDepthAssumption
  <2>2. ASSUME NEW n \in 1..MaxExprDepth PROVE n \in 0..MaxExprDepth /\ n # 0
    OBVIOUS
  <2> QED
    BY <2>1, <2>2
<1> DEFINE T == {k \in 0..MaxExprDepth : E(MaxExprDepth - k) \subseteq E(MaxExprDepth)}
<1>5. 0 \in T
  BY ExprDepthAssumption
<1>6. ASSUME NEW k \in 1..MaxExprDepth, k - 1 \in T PROVE k \in T
  <2>1. MaxExprDepth - (k - 1) \in 1..MaxExprDepth /\ (MaxExprDepth - (k - 1)) - 1 = MaxExprDepth - k
    BY ExprDepthAssumption
  <2>2. E(MaxExprDepth - k) \subseteq E(MaxExprDepth - (k - 1))
    BY <1>4, <2>1
  <2> QED
    BY <1>6, <2>2
<1>7. ASSUME NEW n \in 0..MaxExprDepth PROVE E(n) \subseteq E(MaxExprDepth)
  <2>1. 0..MaxExprDepth \subseteq T
    <3> HIDE DEF T
    <3> QED
      BY <1>5, <1>6, LevelInduction, ExprDepthAssumption
  <2>2. MaxExprDepth - n \in 0..MaxExprDepth /\ MaxExprDepth - (MaxExprDepth - n) = n
    BY ExprDepthAssumption
  <2> QED
    BY <2>1, <2>2
<1> QED
  BY <1>4, <1>7 DEF E, LogicalExprs

\* The operands of an expression are expressions of the level below.
LEMMA OperandsTyped ==
  /\ \A n \in 0..MaxExprDepth : \A x \in LogicalExprsWithin(n) :
       /\ ExprShape(x, IF n = 0 THEN {} ELSE LogicalExprsWithin(n - 1))
       /\ n = 0 => operands(x) = {}
       /\ n # 0 => operands(x) \subseteq LogicalExprsWithin(n - 1)
  /\ \A x \in LogicalExprs : ExprShape(x, LogicalExprs)
<1>1. ASSUME NEW n \in 0..MaxExprDepth, NEW x \in LogicalExprsWithin(n)
      PROVE  /\ ExprShape(x, IF n = 0 THEN {} ELSE LogicalExprsWithin(n - 1))
             /\ n = 0 => operands(x) = {}
             /\ n # 0 => operands(x) \subseteq LogicalExprsWithin(n - 1)
  <2> DEFINE inner == IF n = 0 THEN {} ELSE LogicalExprsWithin(n - 1)
  <2>1. x \in ExprForms(inner)
    BY ExprLevels
  <2> HIDE DEF inner
  <2>2. ExprShape(x, inner)
    BY <2>1, ExprParts
  <2>3. operands(x) \subseteq inner
    BY <2>2 DEF ExprShape
  <2> QED
    BY <2>2, <2>3 DEF inner
<1>2. ASSUME NEW x \in LogicalExprs PROVE ExprShape(x, LogicalExprs)
  <2> DEFINE N == MaxExprDepth
             inner == IF N = 0 THEN {} ELSE LogicalExprsWithin(N - 1)
  <2>1. x \in ExprForms(inner) /\ N \in 0..MaxExprDepth
    BY ExprLevels, ExprDepthAssumption DEF LogicalExprs
  <2>2. inner \subseteq LogicalExprs
    <3>1. CASE N = 0
      BY <3>1
    <3>2. CASE N # 0
      <4>1. N - 1 \in 0..MaxExprDepth
        BY <3>2, ExprDepthAssumption
      <4> QED
        BY <3>2, <4>1, ExprTower
    <3> QED
      BY <3>1, <3>2
  <2> HIDE DEF inner
  <2> QED
    BY <2>1, <2>2, ExprParts, ExprFormsMonotone
<1> QED
  BY <1>1, <1>2

PlanOps == {"scan", "projection", "selection", "aggregate", "limit", "join"}

\* The parts of a plan whose inputs are in a set.
PlanShape(x, inner) ==
    /\ x.op \in PlanOps
    /\ children(x) \subseteq inner
    /\ x.op = "scan" =>
         /\ x.source \in DataSources
         /\ x.projection \in Seq(STRING)
         /\ x = Scan(x.source, x.projection)
         /\ children(x) = {}
    /\ x.op = "projection" => x.exprs \in Seq(LogicalExprs) /\ x = Projection(x.input, x.exprs)
    /\ x.op = "selection" => x.expr \in LogicalExprs /\ x = Selection(x.input, x.expr)
    /\ x.op = "aggregate" =>
         /\ x.group_expr \in Seq(LogicalExprs)
         /\ x.aggregate_expr \in Seq(AggregateExprs)
         /\ x = Aggregate(x.input, x.group_expr, x.aggregate_expr)
    /\ x.op = "limit" => x.limit \in Int /\ x = Limit(x.input, x.limit)
    /\ x.op \in {"projection", "selection", "aggregate", "limit"} =>
         x.input \in inner /\ children(x) = {x.input}
    /\ x.op = "join" =>
         /\ x.join_type \in JoinTypes
         /\ x.on \in Seq(STRING \X STRING)
         /\ x.left \in inner
         /\ x.right \in inner
         /\ children(x) = {x.left, x.right}
         /\ x = Join(x.left, x.right, x.join_type, x.on)

\* A plan of either kind has its parts.
LEMMA PlanParts ==
  ASSUME NEW inner, NEW x \in PlanForms(inner, LogicalExprs)
  PROVE  PlanShape(x, inner)
<1> USE DEF PlanShape, PlanOps, children
<1>1. CASE x \in [op : {"scan"}, source : DataSources, projection : Seq(STRING)]
  BY <1>1 DEF Scan
<1>2. CASE x \in [op : {"projection"}, input : inner, exprs : Seq(LogicalExprs)]
  BY <1>2 DEF Projection
<1>3. CASE x \in [op : {"selection"}, input : inner, expr : LogicalExprs]
  BY <1>3 DEF Selection
<1>4. CASE x \in [op : {"aggregate"}, input : inner, group_expr : Seq(LogicalExprs),
                  aggregate_expr : Seq(AggregateExprs)]
  BY <1>4 DEF Aggregate
<1>5. CASE x \in [op : {"limit"}, input : inner, limit : Int]
  BY <1>5 DEF Limit
<1>6. CASE x \in [op : {"join"}, left : inner, right : inner, join_type : JoinTypes,
                  on : Seq(STRING \X STRING)]
  BY <1>6 DEF Join
<1> QED
  BY <1>1, <1>2, <1>3, <1>4, <1>5, <1>6 DEF PlanForms, AggregateExprs

\* A larger set of inputs makes more plans.
LEMMA PlanFormsMonotone ==
  ASSUME NEW S, NEW T, S \subseteq T
  PROVE  PlanForms(S, LogicalExprs) \subseteq PlanForms(T, LogicalExprs)
BY DEF PlanForms

\* Every level is part of the next, and so of the whole universe.
LEMMA PlanTower ==
  /\ \A n \in 1..MaxPlanDepth : LogicalPlansWithin(n - 1) \subseteq LogicalPlansWithin(n)
  /\ \A n \in 0..MaxPlanDepth : LogicalPlansWithin(n) \subseteq LogicalPlans
<1> DEFINE E(n) == LogicalPlansWithin(n)
<1>1. \A n \in 0..MaxPlanDepth : E(n) = PlanForms(IF n = 0 THEN {} ELSE E(n - 1), LogicalExprs)
  BY PlanLevels
<1> HIDE DEF E
<1> DEFINE S == {n \in 0..MaxPlanDepth : n # 0 => E(n - 1) \subseteq E(n)}
<1>2. 0 \in S
  BY PlanDepthAssumption
<1>3. ASSUME NEW n \in 1..MaxPlanDepth, n - 1 \in S PROVE n \in S
  <2>1. n \in 0..MaxPlanDepth /\ n # 0 /\ n - 1 \in 0..MaxPlanDepth
    BY PlanDepthAssumption
  <2>2. E(n) = PlanForms(E(n - 1), LogicalExprs)
    BY <1>1, <2>1
  <2>3. CASE n = 1
    <3>1. E(n - 1) = PlanForms({}, LogicalExprs)
      BY <1>1, <2>1, <2>3
    <3>2. {} \subseteq E(n - 1)
      OBVIOUS
    <3> QED
      BY <2>1, <2>2, <3>1, <3>2, PlanFormsMonotone
  <2>4. CASE n # 1
    <3>1. n - 1 # 0 /\ E((n - 1) - 1) \subseteq E(n - 1)
      BY <1>3, <2>4
    <3>2. E(n - 1) = PlanForms(E((n - 1) - 1), LogicalExprs)
      BY <1>1, <2>1, <3>1
    <3> QED
      BY <2>1, <2>2, <3>1, <3>2, PlanFormsMonotone
  <2> QED
    BY <2>3, <2>4
<1>4. \A n \in 1..MaxPlanDepth : E(n - 1) \subseteq E(n)
  <2>1. 0..MaxPlanDepth \subseteq S
    <3> HIDE DEF S
    <3> QED
      BY <1>2, <1>3, LevelInduction, PlanDepthAssumption
  <2>2. ASSUME NEW n \in 1..MaxPlanDepth PROVE n \in 0..MaxPlanDepth /\ n # 0
    OBVIOUS
  <2> QED
    BY <2>1, <2>2
<1> DEFINE T == {k \in 0..MaxPlanDepth : E(MaxPlanDepth - k) \subseteq E(MaxPlanDepth)}
<1>5. 0 \in T
  BY PlanDepthAssumption
<1>6. ASSUME NEW k \in 1..MaxPlanDepth, k - 1 \in T PROVE k \in T
  <2>1. MaxPlanDepth - (k - 1) \in 1..MaxPlanDepth /\ (MaxPlanDepth - (k - 1)) - 1 = MaxPlanDepth - k
    BY PlanDepthAssumption
  <2>2. E(MaxPlanDepth - k) \subseteq E(MaxPlanDepth - (k - 1))
    BY <1>4, <2>1
  <2> QED
    BY <1>6, <2>2
<1>7. ASSUME NEW n \in 0..MaxPlanDepth PROVE E(n) \subseteq E(MaxPlanDepth)
  <2>1. 0..MaxPlanDepth \subseteq T
    <3> HIDE DEF T
    <3> QED
      BY <1>5, <1>6, LevelInduction, PlanDepthAssumption
  <2>2. MaxPlanDepth - n \in 0..MaxPlanDepth /\ MaxPlanDepth - (MaxPlanDepth - n) = n
    BY PlanDepthAssumption
  <2> QED
    BY <2>1, <2>2
<1> QED
  BY <1>4, <1>7 DEF E, LogicalPlans

\* The inputs of a plan are plans of the level below.
LEMMA InputsTyped ==
  /\ \A n \in 0..MaxPlanDepth : \A x \in LogicalPlansWithin(n) :
       /\ PlanShape(x, IF n = 0 THEN {} ELSE LogicalPlansWithin(n - 1))
       /\ n = 0 => children(x) = {}
       /\ n # 0 => children(x) \subseteq LogicalPlansWithin(n - 1)
  /\ \A x \in LogicalPlans : PlanShape(x, LogicalPlans)
<1>1. ASSUME NEW n \in 0..MaxPlanDepth, NEW x \in LogicalPlansWithin(n)
      PROVE  /\ PlanShape(x, IF n = 0 THEN {} ELSE LogicalPlansWithin(n - 1))
             /\ n = 0 => children(x) = {}
             /\ n # 0 => children(x) \subseteq LogicalPlansWithin(n - 1)
  <2> DEFINE inner == IF n = 0 THEN {} ELSE LogicalPlansWithin(n - 1)
  <2>1. x \in PlanForms(inner, LogicalExprs)
    BY PlanLevels
  <2> HIDE DEF inner
  <2>2. PlanShape(x, inner)
    BY <2>1, PlanParts
  <2>3. children(x) \subseteq inner
    BY <2>2 DEF PlanShape
  <2> QED
    BY <2>2, <2>3 DEF inner
<1>2. ASSUME NEW x \in LogicalPlans PROVE PlanShape(x, LogicalPlans)
  <2> DEFINE N == MaxPlanDepth
             inner == IF N = 0 THEN {} ELSE LogicalPlansWithin(N - 1)
  <2>1. x \in PlanForms(inner, LogicalExprs) /\ N \in 0..MaxPlanDepth
    BY PlanLevels, PlanDepthAssumption DEF LogicalPlans
  <2>2. inner \subseteq LogicalPlans
    <3>1. CASE N = 0
      BY <3>1
    <3>2. CASE N # 0
      <4>1. N - 1 \in 0..MaxPlanDepth
        BY <3>2, PlanDepthAssumption
      <4> QED
        BY <3>2, <4>1, PlanTower
    <3> QED
      BY <3>1, <3>2
  <2> HIDE DEF inner
  <2> QED
    BY <2>1, <2>2, PlanParts, PlanFormsMonotone
<1> QED
  BY <1>1, <1>2

-------------------------------------------------------------------------------
(* The equations of the recursive functions. *)

\* Which operands an expression has.
LEMMA OperandsOf ==
  \A x : /\ x.op \in UnaryOps => operands(x) = {x.expr}
         /\ x.op \in BinaryOps => operands(x) = {x.l, x.r}
         /\ x.op \notin UnaryOps \cup BinaryOps => operands(x) = {}
BY DEF operands, UnaryOps, BinaryOps, Comparisons, Connectives, Maths, Dates

\* An expression's subexpressions are itself and those of its operands.
LEMMA SubexpressionsOf ==
  \A x \in LogicalExprs : Subexpressions(x) = {x} \cup UNION {Subexpressions(y) : y \in operands(x)}
<1> DEFINE B(f, x) == {x} \cup UNION {f[y] : y \in operands(x)}
           E(f) == [x \in LogicalExprs |-> B(f, x)]
           f == CHOOSE f : f = E(f)
<1>1. ASSUME NEW u, NEW v, NEW x \in LogicalExprs, \A y \in operands(x) : u[y] = v[y]
      PROVE  B(u, x) = B(v, x)
  <2>1. {u[y] : y \in operands(x)} = {v[y] : y \in operands(x)}
    BY <1>1
  <2> QED
    BY <2>1
<1>2. \A x : Subexpressions(x) = f[x]
  BY DEF Subexpressions
<1> HIDE DEF B
<1> DEFINE D == {n \in 0..MaxExprDepth : \E g : \A x \in LogicalExprsWithin(n) : g[x] = B(g, x)}
<1>3. 0 \in D
  <2> DEFINE g == [x \in LogicalExprsWithin(0) |-> B(<<>>, x)]
  <2>1. 0 \in 0..MaxExprDepth
    BY ExprDepthAssumption
  <2>2. ASSUME NEW x \in LogicalExprsWithin(0) PROVE g[x] = B(g, x)
    <3>1. operands(x) = {} /\ x \in LogicalExprs
      BY <2>1, OperandsTyped, ExprTower
    <3>2. g[x] = B(<<>>, x)
      OBVIOUS
    <3> HIDE DEF g
    <3> QED
      BY <1>1, <3>1, <3>2
  <2> HIDE DEF g
  <2> QED
    BY <2>1, <2>2
<1>4. ASSUME NEW n \in 1..MaxExprDepth, n - 1 \in D PROVE n \in D
  <2>1. PICK h : \A x \in LogicalExprsWithin(n - 1) : h[x] = B(h, x)
    BY <1>4
  <2> DEFINE g == [x \in LogicalExprsWithin(n) |-> B(h, x)]
  <2>2. n \in 0..MaxExprDepth /\ n # 0 /\ n - 1 \in 0..MaxExprDepth
    BY ExprDepthAssumption
  <2>3. \A x \in LogicalExprsWithin(n) : g[x] = B(h, x)
    OBVIOUS
  <2> HIDE DEF g
  <2>4. ASSUME NEW x \in LogicalExprsWithin(n) PROVE g[x] = B(g, x)
    <3>1. operands(x) \subseteq LogicalExprsWithin(n - 1) /\ x \in LogicalExprs
      BY <2>2, OperandsTyped, ExprTower
    <3>2. \A y \in operands(x) : g[y] = h[y]
      BY <2>1, <2>2, <2>3, <3>1, ExprTower
    <3> QED
      BY <1>1, <2>3, <3>1, <3>2
  <2> QED
    BY <2>2, <2>4
<1>5. MaxExprDepth \in D
  <2> HIDE DEF D
  <2> QED
    BY <1>3, <1>4, LevelInduction, ExprDepthAssumption
<1>6. PICK g : \A x \in LogicalExprs : g[x] = B(g, x)
  BY <1>5 DEF LogicalExprs
<1> DEFINE h == [x \in LogicalExprs |-> g[x]]
<1>7. h = E(h)
  <2>1. \A x \in LogicalExprs : h[x] = g[x]
    OBVIOUS
  <2> HIDE DEF h
  <2>2. ASSUME NEW x \in LogicalExprs PROVE g[x] = B(h, x)
    <3>1. operands(x) \subseteq LogicalExprs
      BY OperandsTyped DEF ExprShape
    <3>2. \A y \in operands(x) : g[y] = h[y]
      BY <2>1, <3>1
    <3> QED
      BY <1>1, <1>6, <3>2
  <2> QED
    BY <2>2 DEF h
<1>8. f = E(f)
  <2> HIDE DEF h, E
  <2> QED
    BY <1>7
<1> HIDE DEF f
<1>9. \A x \in LogicalExprs : f[x] = B(f, x)
  BY <1>8
<1> QED
  BY <1>2, <1>9 DEF B

\* The field of an expression, by those of its operands.
LEMMA FieldOf ==
  ASSUME NEW s
  PROVE  \A x \in LogicalExprs : to_field(x, s) =
           CASE x.op = "col" -> s[position(s, x.name)]
             [] x.op = "index" -> s[x.i]
             [] x.op = "lit" -> Field(LiteralName(x.value), x.value.type)
             [] x.op = "interval" -> Field(IntervalName(x.days), "interval")
             [] x.op = "alias" -> Field(x.name, to_field(x.expr, s).type)
             [] x.op = "cast" -> Field(to_field(x.expr, s).name, x.type)
             [] x.op \in Dates -> Field(x.op, "date32")
             [] x.op \in Comparisons \cup Connectives \cup {"not"} -> Field(x.op, "bool")
             [] x.op \in Maths \cup {"mod"} -> Field(x.op, to_field(x.l, s).type)
             [] x.op = "aggregate" /\ x.fn = "count" -> Field("COUNT", "i32")
             [] x.op = "aggregate" /\ x.fn = "count_distinct" -> Field("COUNT_DISTINCT", "u32")
             [] OTHER -> Field([sum |-> "SUM", min |-> "MIN", max |-> "MAX", avg |-> "AVG"][x.fn],
                               to_field(x.expr, s).type)
<1> DEFINE B(f, x) ==
               CASE x.op = "col" -> s[position(s, x.name)]
                 [] x.op = "index" -> s[x.i]
                 [] x.op = "lit" -> Field(LiteralName(x.value), x.value.type)
                 [] x.op = "interval" -> Field(IntervalName(x.days), "interval")
                 [] x.op = "alias" -> Field(x.name, f[x.expr].type)
                 [] x.op = "cast" -> Field(f[x.expr].name, x.type)
                 [] x.op \in Dates -> Field(x.op, "date32")
                 [] x.op \in Comparisons \cup Connectives \cup {"not"} -> Field(x.op, "bool")
                 [] x.op \in Maths \cup {"mod"} -> Field(x.op, f[x.l].type)
                 [] x.op = "aggregate" /\ x.fn = "count" -> Field("COUNT", "i32")
                 [] x.op = "aggregate" /\ x.fn = "count_distinct" -> Field("COUNT_DISTINCT", "u32")
                 [] OTHER -> Field([sum |-> "SUM", min |-> "MIN", max |-> "MAX", avg |-> "AVG"][x.fn],
                                   f[x.expr].type)
           E(f) == [x \in LogicalExprs |-> B(f, x)]
           f == CHOOSE f : f = E(f)
<1>1. ASSUME NEW u, NEW v, NEW x \in LogicalExprs, \A y \in operands(x) : u[y] = v[y]
      PROVE  B(u, x) = B(v, x)
  <2>1. x.op \in UnaryOps => u[x.expr] = v[x.expr]
    BY <1>1, OperandsOf
  <2>2. x.op \in BinaryOps => u[x.l] = v[x.l]
    BY <1>1, OperandsOf
  <2>3. x.op \in ExprOps
    BY OperandsTyped DEF ExprShape
  <2> QED
    BY <2>1, <2>2, <2>3 DEF ExprOps, UnaryOps, BinaryOps
<1>2. \A x : to_field(x, s) = f[x]
  BY DEF to_field
<1> HIDE DEF B
<1> DEFINE D == {n \in 0..MaxExprDepth : \E g : \A x \in LogicalExprsWithin(n) : g[x] = B(g, x)}
<1>3. 0 \in D
  <2> DEFINE g == [x \in LogicalExprsWithin(0) |-> B(<<>>, x)]
  <2>1. 0 \in 0..MaxExprDepth
    BY ExprDepthAssumption
  <2>2. ASSUME NEW x \in LogicalExprsWithin(0) PROVE g[x] = B(g, x)
    <3>1. operands(x) = {} /\ x \in LogicalExprs
      BY <2>1, OperandsTyped, ExprTower
    <3>2. g[x] = B(<<>>, x)
      OBVIOUS
    <3> HIDE DEF g
    <3> QED
      BY <1>1, <3>1, <3>2
  <2> HIDE DEF g
  <2> QED
    BY <2>1, <2>2
<1>4. ASSUME NEW n \in 1..MaxExprDepth, n - 1 \in D PROVE n \in D
  <2>1. PICK h : \A x \in LogicalExprsWithin(n - 1) : h[x] = B(h, x)
    BY <1>4
  <2> DEFINE g == [x \in LogicalExprsWithin(n) |-> B(h, x)]
  <2>2. n \in 0..MaxExprDepth /\ n # 0 /\ n - 1 \in 0..MaxExprDepth
    BY ExprDepthAssumption
  <2>3. \A x \in LogicalExprsWithin(n) : g[x] = B(h, x)
    OBVIOUS
  <2> HIDE DEF g
  <2>4. ASSUME NEW x \in LogicalExprsWithin(n) PROVE g[x] = B(g, x)
    <3>1. operands(x) \subseteq LogicalExprsWithin(n - 1) /\ x \in LogicalExprs
      BY <2>2, OperandsTyped, ExprTower
    <3>2. \A y \in operands(x) : g[y] = h[y]
      BY <2>1, <2>2, <2>3, <3>1, ExprTower
    <3> QED
      BY <1>1, <2>3, <3>1, <3>2
  <2> QED
    BY <2>2, <2>4
<1>5. MaxExprDepth \in D
  <2> HIDE DEF D
  <2> QED
    BY <1>3, <1>4, LevelInduction, ExprDepthAssumption
<1>6. PICK g : \A x \in LogicalExprs : g[x] = B(g, x)
  BY <1>5 DEF LogicalExprs
<1> DEFINE h == [x \in LogicalExprs |-> g[x]]
<1>7. h = E(h)
  <2>1. \A x \in LogicalExprs : h[x] = g[x]
    OBVIOUS
  <2> HIDE DEF h
  <2>2. ASSUME NEW x \in LogicalExprs PROVE g[x] = B(h, x)
    <3>1. operands(x) \subseteq LogicalExprs
      BY OperandsTyped DEF ExprShape
    <3>2. \A y \in operands(x) : g[y] = h[y]
      BY <2>1, <3>1
    <3> QED
      BY <1>1, <1>6, <3>2
  <2> QED
    BY <2>2 DEF h
<1>8. f = E(f)
  <2> HIDE DEF h, E
  <2> QED
    BY <1>7
<1> HIDE DEF f
<1>9. \A x \in LogicalExprs : f[x] = B(f, x)
  BY <1>8
<1> QED
  BY <1>2, <1>9 DEF B

\* The references that to_field looks up, by those of the operands.
LEMMA FieldReferencesOf ==
  \A x \in LogicalExprs : FieldReferences(x) =
           CASE x.op \in {"col", "index"} -> {x}
             [] x.op \in Maths \cup {"mod"} -> FieldReferences(x.l)
             [] x.op \in {"lit", "interval", "not"} \cup Dates \cup Comparisons \cup Connectives -> {}
             [] x.op = "aggregate" /\ x.fn \in {"count", "count_distinct"} -> {}
             [] OTHER -> FieldReferences(x.expr)
<1> DEFINE B(f, x) ==
               CASE x.op \in {"col", "index"} -> {x}
                 [] x.op \in Maths \cup {"mod"} -> f[x.l]
                 [] x.op \in {"lit", "interval", "not"} \cup Dates \cup Comparisons \cup Connectives -> {}
                 [] x.op = "aggregate" /\ x.fn \in {"count", "count_distinct"} -> {}
                 [] OTHER -> f[x.expr]
           E(f) == [x \in LogicalExprs |-> B(f, x)]
           f == CHOOSE f : f = E(f)
<1>1. ASSUME NEW u, NEW v, NEW x \in LogicalExprs, \A y \in operands(x) : u[y] = v[y]
      PROVE  B(u, x) = B(v, x)
  <2>1. x.op \in UnaryOps => u[x.expr] = v[x.expr]
    BY <1>1, OperandsOf
  <2>2. x.op \in BinaryOps => u[x.l] = v[x.l]
    BY <1>1, OperandsOf
  <2>3. x.op \in ExprOps
    BY OperandsTyped DEF ExprShape
  <2> QED
    BY <2>1, <2>2, <2>3 DEF ExprOps, UnaryOps, BinaryOps
<1>2. \A x : FieldReferences(x) = f[x]
  BY DEF FieldReferences
<1> HIDE DEF B
<1> DEFINE D == {n \in 0..MaxExprDepth : \E g : \A x \in LogicalExprsWithin(n) : g[x] = B(g, x)}
<1>3. 0 \in D
  <2> DEFINE g == [x \in LogicalExprsWithin(0) |-> B(<<>>, x)]
  <2>1. 0 \in 0..MaxExprDepth
    BY ExprDepthAssumption
  <2>2. ASSUME NEW x \in LogicalExprsWithin(0) PROVE g[x] = B(g, x)
    <3>1. operands(x) = {} /\ x \in LogicalExprs
      BY <2>1, OperandsTyped, ExprTower
    <3>2. g[x] = B(<<>>, x)
      OBVIOUS
    <3> HIDE DEF g
    <3> QED
      BY <1>1, <3>1, <3>2
  <2> HIDE DEF g
  <2> QED
    BY <2>1, <2>2
<1>4. ASSUME NEW n \in 1..MaxExprDepth, n - 1 \in D PROVE n \in D
  <2>1. PICK h : \A x \in LogicalExprsWithin(n - 1) : h[x] = B(h, x)
    BY <1>4
  <2> DEFINE g == [x \in LogicalExprsWithin(n) |-> B(h, x)]
  <2>2. n \in 0..MaxExprDepth /\ n # 0 /\ n - 1 \in 0..MaxExprDepth
    BY ExprDepthAssumption
  <2>3. \A x \in LogicalExprsWithin(n) : g[x] = B(h, x)
    OBVIOUS
  <2> HIDE DEF g
  <2>4. ASSUME NEW x \in LogicalExprsWithin(n) PROVE g[x] = B(g, x)
    <3>1. operands(x) \subseteq LogicalExprsWithin(n - 1) /\ x \in LogicalExprs
      BY <2>2, OperandsTyped, ExprTower
    <3>2. \A y \in operands(x) : g[y] = h[y]
      BY <2>1, <2>2, <2>3, <3>1, ExprTower
    <3> QED
      BY <1>1, <2>3, <3>1, <3>2
  <2> QED
    BY <2>2, <2>4
<1>5. MaxExprDepth \in D
  <2> HIDE DEF D
  <2> QED
    BY <1>3, <1>4, LevelInduction, ExprDepthAssumption
<1>6. PICK g : \A x \in LogicalExprs : g[x] = B(g, x)
  BY <1>5 DEF LogicalExprs
<1> DEFINE h == [x \in LogicalExprs |-> g[x]]
<1>7. h = E(h)
  <2>1. \A x \in LogicalExprs : h[x] = g[x]
    OBVIOUS
  <2> HIDE DEF h
  <2>2. ASSUME NEW x \in LogicalExprs PROVE g[x] = B(h, x)
    <3>1. operands(x) \subseteq LogicalExprs
      BY OperandsTyped DEF ExprShape
    <3>2. \A y \in operands(x) : g[y] = h[y]
      BY <2>1, <3>1
    <3> QED
      BY <1>1, <1>6, <3>2
  <2> QED
    BY <2>2 DEF h
<1>8. f = E(f)
  <2> HIDE DEF h, E
  <2> QED
    BY <1>7
<1> HIDE DEF f
<1>9. \A x \in LogicalExprs : f[x] = B(f, x)
  BY <1>8
<1> QED
  BY <1>2, <1>9 DEF B

\* Which inputs a plan has.
LEMMA ChildrenOf ==
  \A x : /\ x.op = "scan" => children(x) = {}
         /\ x.op = "join" => children(x) = {x.left, x.right}
         /\ x.op \notin {"scan", "join"} => children(x) = {x.input}
BY DEF children

\* A plan's nodes are itself and those of its inputs.
LEMMA NodesOf ==
  \A x \in LogicalPlans : Nodes(x) = {x} \cup UNION {Nodes(c) : c \in children(x)}
<1> DEFINE B(f, x) == {x} \cup UNION {f[c] : c \in children(x)}
           E(f) == [x \in LogicalPlans |-> B(f, x)]
           f == CHOOSE f : f = E(f)
<1>1. ASSUME NEW u, NEW v, NEW x \in LogicalPlans, \A y \in children(x) : u[y] = v[y]
      PROVE  B(u, x) = B(v, x)
  <2>1. {u[c] : c \in children(x)} = {v[c] : c \in children(x)}
    BY <1>1
  <2> QED
    BY <2>1
<1>2. \A x : Nodes(x) = f[x]
  BY DEF Nodes
<1> HIDE DEF B
<1> DEFINE D == {n \in 0..MaxPlanDepth : \E g : \A x \in LogicalPlansWithin(n) : g[x] = B(g, x)}
<1>3. 0 \in D
  <2> DEFINE g == [x \in LogicalPlansWithin(0) |-> B(<<>>, x)]
  <2>1. 0 \in 0..MaxPlanDepth
    BY PlanDepthAssumption
  <2>2. ASSUME NEW x \in LogicalPlansWithin(0) PROVE g[x] = B(g, x)
    <3>1. children(x) = {} /\ x \in LogicalPlans
      BY <2>1, InputsTyped, PlanTower
    <3>2. g[x] = B(<<>>, x)
      OBVIOUS
    <3> HIDE DEF g
    <3> QED
      BY <1>1, <3>1, <3>2
  <2> HIDE DEF g
  <2> QED
    BY <2>1, <2>2
<1>4. ASSUME NEW n \in 1..MaxPlanDepth, n - 1 \in D PROVE n \in D
  <2>1. PICK h : \A x \in LogicalPlansWithin(n - 1) : h[x] = B(h, x)
    BY <1>4
  <2> DEFINE g == [x \in LogicalPlansWithin(n) |-> B(h, x)]
  <2>2. n \in 0..MaxPlanDepth /\ n # 0 /\ n - 1 \in 0..MaxPlanDepth
    BY PlanDepthAssumption
  <2>3. \A x \in LogicalPlansWithin(n) : g[x] = B(h, x)
    OBVIOUS
  <2> HIDE DEF g
  <2>4. ASSUME NEW x \in LogicalPlansWithin(n) PROVE g[x] = B(g, x)
    <3>1. children(x) \subseteq LogicalPlansWithin(n - 1) /\ x \in LogicalPlans
      BY <2>2, InputsTyped, PlanTower
    <3>2. \A y \in children(x) : g[y] = h[y]
      BY <2>1, <2>2, <2>3, <3>1, PlanTower
    <3> QED
      BY <1>1, <2>3, <3>1, <3>2
  <2> QED
    BY <2>2, <2>4
<1>5. MaxPlanDepth \in D
  <2> HIDE DEF D
  <2> QED
    BY <1>3, <1>4, LevelInduction, PlanDepthAssumption
<1>6. PICK g : \A x \in LogicalPlans : g[x] = B(g, x)
  BY <1>5 DEF LogicalPlans
<1> DEFINE h == [x \in LogicalPlans |-> g[x]]
<1>7. h = E(h)
  <2>1. \A x \in LogicalPlans : h[x] = g[x]
    OBVIOUS
  <2> HIDE DEF h
  <2>2. ASSUME NEW x \in LogicalPlans PROVE g[x] = B(h, x)
    <3>1. children(x) \subseteq LogicalPlans
      BY InputsTyped DEF PlanShape
    <3>2. \A y \in children(x) : g[y] = h[y]
      BY <2>1, <3>1
    <3> QED
      BY <1>1, <1>6, <3>2
  <2> QED
    BY <2>2 DEF h
<1>8. f = E(f)
  <2> HIDE DEF h, E
  <2> QED
    BY <1>7
<1> HIDE DEF f
<1>9. \A x \in LogicalPlans : f[x] = B(f, x)
  BY <1>8
<1> QED
  BY <1>2, <1>9 DEF B

\* The schema of a plan, by those of its inputs.
LEMMA SchemaOf ==
  \A x \in LogicalPlans : schema(x) =
           CASE x.op = "scan" ->
                  IF x.projection = <<>> THEN source_schema(x.source)
                  ELSE select(source_schema(x.source), x.projection)
             [] x.op \in {"projection", "aggregate"} ->
                  LET exprs == OutputExprs(x)
                  IN  [i \in DOMAIN exprs |-> to_field(exprs[i], schema(x.input))]
             [] x.op = "join" -> Join_schema(x.join_type, schema(x.left), schema(x.right), x.on)
             [] OTHER -> schema(x.input)
<1> DEFINE B(f, x) ==
               CASE x.op = "scan" ->
                      IF x.projection = <<>> THEN source_schema(x.source)
                      ELSE select(source_schema(x.source), x.projection)
                 [] x.op \in {"projection", "aggregate"} ->
                      LET exprs == OutputExprs(x)
                      IN  [i \in DOMAIN exprs |-> to_field(exprs[i], f[x.input])]
                 [] x.op = "join" -> Join_schema(x.join_type, f[x.left], f[x.right], x.on)
                 [] OTHER -> f[x.input]
           E(f) == [x \in LogicalPlans |-> B(f, x)]
           f == CHOOSE f : f = E(f)
<1>1. ASSUME NEW u, NEW v, NEW x \in LogicalPlans, \A y \in children(x) : u[y] = v[y]
      PROVE  B(u, x) = B(v, x)
  <2>1. x.op = "join" => u[x.left] = v[x.left] /\ u[x.right] = v[x.right]
    BY <1>1, ChildrenOf
  <2>2. x.op \notin {"scan", "join"} => u[x.input] = v[x.input]
    BY <1>1, ChildrenOf
  <2>3. x.op \in PlanOps
    BY InputsTyped DEF PlanShape
  <2> QED
    BY <2>1, <2>2, <2>3 DEF PlanOps
<1>2. \A x : schema(x) = f[x]
  BY DEF schema
<1> HIDE DEF B
<1> DEFINE D == {n \in 0..MaxPlanDepth : \E g : \A x \in LogicalPlansWithin(n) : g[x] = B(g, x)}
<1>3. 0 \in D
  <2> DEFINE g == [x \in LogicalPlansWithin(0) |-> B(<<>>, x)]
  <2>1. 0 \in 0..MaxPlanDepth
    BY PlanDepthAssumption
  <2>2. ASSUME NEW x \in LogicalPlansWithin(0) PROVE g[x] = B(g, x)
    <3>1. children(x) = {} /\ x \in LogicalPlans
      BY <2>1, InputsTyped, PlanTower
    <3>2. g[x] = B(<<>>, x)
      OBVIOUS
    <3> HIDE DEF g
    <3> QED
      BY <1>1, <3>1, <3>2
  <2> HIDE DEF g
  <2> QED
    BY <2>1, <2>2
<1>4. ASSUME NEW n \in 1..MaxPlanDepth, n - 1 \in D PROVE n \in D
  <2>1. PICK h : \A x \in LogicalPlansWithin(n - 1) : h[x] = B(h, x)
    BY <1>4
  <2> DEFINE g == [x \in LogicalPlansWithin(n) |-> B(h, x)]
  <2>2. n \in 0..MaxPlanDepth /\ n # 0 /\ n - 1 \in 0..MaxPlanDepth
    BY PlanDepthAssumption
  <2>3. \A x \in LogicalPlansWithin(n) : g[x] = B(h, x)
    OBVIOUS
  <2> HIDE DEF g
  <2>4. ASSUME NEW x \in LogicalPlansWithin(n) PROVE g[x] = B(g, x)
    <3>1. children(x) \subseteq LogicalPlansWithin(n - 1) /\ x \in LogicalPlans
      BY <2>2, InputsTyped, PlanTower
    <3>2. \A y \in children(x) : g[y] = h[y]
      BY <2>1, <2>2, <2>3, <3>1, PlanTower
    <3> QED
      BY <1>1, <2>3, <3>1, <3>2
  <2> QED
    BY <2>2, <2>4
<1>5. MaxPlanDepth \in D
  <2> HIDE DEF D
  <2> QED
    BY <1>3, <1>4, LevelInduction, PlanDepthAssumption
<1>6. PICK g : \A x \in LogicalPlans : g[x] = B(g, x)
  BY <1>5 DEF LogicalPlans
<1> DEFINE h == [x \in LogicalPlans |-> g[x]]
<1>7. h = E(h)
  <2>1. \A x \in LogicalPlans : h[x] = g[x]
    OBVIOUS
  <2> HIDE DEF h
  <2>2. ASSUME NEW x \in LogicalPlans PROVE g[x] = B(h, x)
    <3>1. children(x) \subseteq LogicalPlans
      BY InputsTyped DEF PlanShape
    <3>2. \A y \in children(x) : g[y] = h[y]
      BY <2>1, <3>1
    <3> QED
      BY <1>1, <1>6, <3>2
  <2> QED
    BY <2>2 DEF h
<1>8. f = E(f)
  <2> HIDE DEF h, E
  <2> QED
    BY <1>7
<1> HIDE DEF f
<1>9. \A x \in LogicalPlans : f[x] = B(f, x)
  BY <1>8
<1> QED
  BY <1>2, <1>9 DEF B

\* A plan has a schema if its inputs have, and it names columns of theirs.
LEMMA HasSchemaOf ==
  \A x \in LogicalPlans : HasSchema(x) =
           /\ \A c \in children(x) : HasSchema(c)
           /\ \A ref \in SchemaReferences(x) : Resolved(ref, schema(x.input))
           /\ x.op = "scan" =>
                ToSet(x.projection) \subseteq ToSet(Names(source_schema(x.source)))
<1> DEFINE B(f, x) ==
               /\ \A c \in children(x) : f[c]
               /\ \A ref \in SchemaReferences(x) : Resolved(ref, schema(x.input))
               /\ x.op = "scan" =>
                    ToSet(x.projection) \subseteq ToSet(Names(source_schema(x.source)))
           E(f) == [x \in LogicalPlans |-> B(f, x)]
           f == CHOOSE f : f = E(f)
<1>1. ASSUME NEW u, NEW v, NEW x \in LogicalPlans, \A y \in children(x) : u[y] = v[y]
      PROVE  B(u, x) = B(v, x)
  <2>1. (\A c \in children(x) : u[c]) <=> (\A c \in children(x) : v[c])
    BY <1>1
  <2> QED
    BY <2>1
<1>2. \A x : HasSchema(x) = f[x]
  BY DEF HasSchema
<1> HIDE DEF B
<1> DEFINE D == {n \in 0..MaxPlanDepth : \E g : \A x \in LogicalPlansWithin(n) : g[x] = B(g, x)}
<1>3. 0 \in D
  <2> DEFINE g == [x \in LogicalPlansWithin(0) |-> B(<<>>, x)]
  <2>1. 0 \in 0..MaxPlanDepth
    BY PlanDepthAssumption
  <2>2. ASSUME NEW x \in LogicalPlansWithin(0) PROVE g[x] = B(g, x)
    <3>1. children(x) = {} /\ x \in LogicalPlans
      BY <2>1, InputsTyped, PlanTower
    <3>2. g[x] = B(<<>>, x)
      OBVIOUS
    <3> HIDE DEF g
    <3> QED
      BY <1>1, <3>1, <3>2
  <2> HIDE DEF g
  <2> QED
    BY <2>1, <2>2
<1>4. ASSUME NEW n \in 1..MaxPlanDepth, n - 1 \in D PROVE n \in D
  <2>1. PICK h : \A x \in LogicalPlansWithin(n - 1) : h[x] = B(h, x)
    BY <1>4
  <2> DEFINE g == [x \in LogicalPlansWithin(n) |-> B(h, x)]
  <2>2. n \in 0..MaxPlanDepth /\ n # 0 /\ n - 1 \in 0..MaxPlanDepth
    BY PlanDepthAssumption
  <2>3. \A x \in LogicalPlansWithin(n) : g[x] = B(h, x)
    OBVIOUS
  <2> HIDE DEF g
  <2>4. ASSUME NEW x \in LogicalPlansWithin(n) PROVE g[x] = B(g, x)
    <3>1. children(x) \subseteq LogicalPlansWithin(n - 1) /\ x \in LogicalPlans
      BY <2>2, InputsTyped, PlanTower
    <3>2. \A y \in children(x) : g[y] = h[y]
      BY <2>1, <2>2, <2>3, <3>1, PlanTower
    <3> QED
      BY <1>1, <2>3, <3>1, <3>2
  <2> QED
    BY <2>2, <2>4
<1>5. MaxPlanDepth \in D
  <2> HIDE DEF D
  <2> QED
    BY <1>3, <1>4, LevelInduction, PlanDepthAssumption
<1>6. PICK g : \A x \in LogicalPlans : g[x] = B(g, x)
  BY <1>5 DEF LogicalPlans
<1> DEFINE h == [x \in LogicalPlans |-> g[x]]
<1>7. h = E(h)
  <2>1. \A x \in LogicalPlans : h[x] = g[x]
    OBVIOUS
  <2> HIDE DEF h
  <2>2. ASSUME NEW x \in LogicalPlans PROVE g[x] = B(h, x)
    <3>1. children(x) \subseteq LogicalPlans
      BY InputsTyped DEF PlanShape
    <3>2. \A y \in children(x) : g[y] = h[y]
      BY <2>1, <3>1
    <3> QED
      BY <1>1, <1>6, <3>2
  <2> QED
    BY <2>2 DEF h
<1>8. f = E(f)
  <2> HIDE DEF h, E
  <2> QED
    BY <1>7
<1> HIDE DEF f
<1>9. \A x \in LogicalPlans : f[x] = B(f, x)
  BY <1>8
<1> QED
  BY <1>2, <1>9 DEF B

\* A plan names its columns if its operator does, or its input.
LEMMA NamesItsColumnsOf ==
  \A x \in LogicalPlans : NamesItsColumns(x) =
           \/ x.op \in {"projection", "aggregate"}
           \/ x.op \in {"selection", "limit"} /\ NamesItsColumns(x.input)
<1> DEFINE B(f, x) ==
               \/ x.op \in {"projection", "aggregate"}
               \/ x.op \in {"selection", "limit"} /\ f[x.input]
           E(f) == [x \in LogicalPlans |-> B(f, x)]
           f == CHOOSE f : f = E(f)
<1>1. ASSUME NEW u, NEW v, NEW x \in LogicalPlans, \A y \in children(x) : u[y] = v[y]
      PROVE  B(u, x) = B(v, x)
  <2>1. x.op = "join" => u[x.left] = v[x.left] /\ u[x.right] = v[x.right]
    BY <1>1, ChildrenOf
  <2>2. x.op \notin {"scan", "join"} => u[x.input] = v[x.input]
    BY <1>1, ChildrenOf
  <2> QED
    BY <2>2
<1>2. \A x : NamesItsColumns(x) = f[x]
  BY DEF NamesItsColumns
<1> HIDE DEF B
<1> DEFINE D == {n \in 0..MaxPlanDepth : \E g : \A x \in LogicalPlansWithin(n) : g[x] = B(g, x)}
<1>3. 0 \in D
  <2> DEFINE g == [x \in LogicalPlansWithin(0) |-> B(<<>>, x)]
  <2>1. 0 \in 0..MaxPlanDepth
    BY PlanDepthAssumption
  <2>2. ASSUME NEW x \in LogicalPlansWithin(0) PROVE g[x] = B(g, x)
    <3>1. children(x) = {} /\ x \in LogicalPlans
      BY <2>1, InputsTyped, PlanTower
    <3>2. g[x] = B(<<>>, x)
      OBVIOUS
    <3> HIDE DEF g
    <3> QED
      BY <1>1, <3>1, <3>2
  <2> HIDE DEF g
  <2> QED
    BY <2>1, <2>2
<1>4. ASSUME NEW n \in 1..MaxPlanDepth, n - 1 \in D PROVE n \in D
  <2>1. PICK h : \A x \in LogicalPlansWithin(n - 1) : h[x] = B(h, x)
    BY <1>4
  <2> DEFINE g == [x \in LogicalPlansWithin(n) |-> B(h, x)]
  <2>2. n \in 0..MaxPlanDepth /\ n # 0 /\ n - 1 \in 0..MaxPlanDepth
    BY PlanDepthAssumption
  <2>3. \A x \in LogicalPlansWithin(n) : g[x] = B(h, x)
    OBVIOUS
  <2> HIDE DEF g
  <2>4. ASSUME NEW x \in LogicalPlansWithin(n) PROVE g[x] = B(g, x)
    <3>1. children(x) \subseteq LogicalPlansWithin(n - 1) /\ x \in LogicalPlans
      BY <2>2, InputsTyped, PlanTower
    <3>2. \A y \in children(x) : g[y] = h[y]
      BY <2>1, <2>2, <2>3, <3>1, PlanTower
    <3> QED
      BY <1>1, <2>3, <3>1, <3>2
  <2> QED
    BY <2>2, <2>4
<1>5. MaxPlanDepth \in D
  <2> HIDE DEF D
  <2> QED
    BY <1>3, <1>4, LevelInduction, PlanDepthAssumption
<1>6. PICK g : \A x \in LogicalPlans : g[x] = B(g, x)
  BY <1>5 DEF LogicalPlans
<1> DEFINE h == [x \in LogicalPlans |-> g[x]]
<1>7. h = E(h)
  <2>1. \A x \in LogicalPlans : h[x] = g[x]
    OBVIOUS
  <2> HIDE DEF h
  <2>2. ASSUME NEW x \in LogicalPlans PROVE g[x] = B(h, x)
    <3>1. children(x) \subseteq LogicalPlans
      BY InputsTyped DEF PlanShape
    <3>2. \A y \in children(x) : g[y] = h[y]
      BY <2>1, <3>1
    <3> QED
      BY <1>1, <1>6, <3>2
  <2> QED
    BY <2>2 DEF h
<1>8. f = E(f)
  <2> HIDE DEF h, E
  <2> QED
    BY <1>7
<1> HIDE DEF f
<1>9. \A x \in LogicalPlans : f[x] = B(f, x)
  BY <1>8
<1> QED
  BY <1>2, <1>9 DEF B

\* The result of push-down for a plan and the names requested of it, by those for its inputs.
PushDownStep(x, n) ==
    CASE x.op = "scan" -> Pushed(NarrowScan(x, n), n, FALSE)
      [] x.op = "join" ->
           IF n = {} /\ ~(HasSchema(x.left) /\ HasSchema(x.right)) THEN Pushed(x, n, TRUE)
           ELSE LET left == push_down(x.left, JoinColumns(x, n))
                IN  PushedJoin(x, left, push_down(x.right, left.names))
      [] OTHER ->
           IF \E e \in ExpressionsOf(x) : ~Extractable(e, x.input) THEN Pushed(x, n, TRUE)
           ELSE LET used == UNION {extract_columns(e, x.input) : e \in ExpressionsOf(x)}
                    input == push_down(x.input, n \cup used)
                IN  [input EXCEPT !.plan = [x EXCEPT !.input = input.plan]]

\* Push-down obeys that equation.
LEMMA PushDownOf ==
  \A x \in LogicalPlans : \A n \in SUBSET STRING : push_down(x, n) = PushDownStep(x, n)
<1> DEFINE B(f, x) ==
               [n \in SUBSET STRING |->
                 CASE x.op = "scan" -> Pushed(NarrowScan(x, n), n, FALSE)
                   [] x.op = "join" ->
                        IF n = {} /\ ~(HasSchema(x.left) /\ HasSchema(x.right)) THEN Pushed(x, n, TRUE)
                        ELSE LET left == f[x.left][JoinColumns(x, n)]
                             IN  PushedJoin(x, left, f[x.right][left.names])
                   [] OTHER ->
                        IF \E e \in ExpressionsOf(x) : ~Extractable(e, x.input) THEN Pushed(x, n, TRUE)
                        ELSE LET used == UNION {extract_columns(e, x.input) : e \in ExpressionsOf(x)}
                                 input == f[x.input][n \cup used]
                             IN  [input EXCEPT !.plan = [x EXCEPT !.input = input.plan]]]
           E(f) == [x \in LogicalPlans |-> B(f, x)]
           f == CHOOSE f : f = E(f)
<1>1. ASSUME NEW u, NEW v, NEW x \in LogicalPlans, \A y \in children(x) : u[y] = v[y]
      PROVE  B(u, x) = B(v, x)
  <2>1. x.op = "join" => u[x.left] = v[x.left] /\ u[x.right] = v[x.right]
    BY <1>1, ChildrenOf
  <2>2. x.op \notin {"scan", "join"} => u[x.input] = v[x.input]
    BY <1>1, ChildrenOf
  <2>3. CASE x.op = "scan"
    BY <2>3
  <2>4. CASE x.op = "join"
    BY <2>1, <2>4
  <2>5. CASE x.op \notin {"scan", "join"}
    BY <2>2, <2>5
  <2> QED
    BY <2>3, <2>4, <2>5
<1>2. \A x, n : push_down(x, n) = f[x][n]
  BY DEF push_down
<1> HIDE DEF B
<1> DEFINE D == {n \in 0..MaxPlanDepth : \E g : \A x \in LogicalPlansWithin(n) : g[x] = B(g, x)}
<1>3. 0 \in D
  <2> DEFINE g == [x \in LogicalPlansWithin(0) |-> B(<<>>, x)]
  <2>1. 0 \in 0..MaxPlanDepth
    BY PlanDepthAssumption
  <2>2. ASSUME NEW x \in LogicalPlansWithin(0) PROVE g[x] = B(g, x)
    <3>1. children(x) = {} /\ x \in LogicalPlans
      BY <2>1, InputsTyped, PlanTower
    <3>2. g[x] = B(<<>>, x)
      OBVIOUS
    <3> HIDE DEF g
    <3> QED
      BY <1>1, <3>1, <3>2
  <2> HIDE DEF g
  <2> QED
    BY <2>1, <2>2
<1>4. ASSUME NEW n \in 1..MaxPlanDepth, n - 1 \in D PROVE n \in D
  <2>1. PICK h : \A x \in LogicalPlansWithin(n - 1) : h[x] = B(h, x)
    BY <1>4
  <2> DEFINE g == [x \in LogicalPlansWithin(n) |-> B(h, x)]
  <2>2. n \in 0..MaxPlanDepth /\ n # 0 /\ n - 1 \in 0..MaxPlanDepth
    BY PlanDepthAssumption
  <2>3. \A x \in LogicalPlansWithin(n) : g[x] = B(h, x)
    OBVIOUS
  <2> HIDE DEF g
  <2>4. ASSUME NEW x \in LogicalPlansWithin(n) PROVE g[x] = B(g, x)
    <3>1. children(x) \subseteq LogicalPlansWithin(n - 1) /\ x \in LogicalPlans
      BY <2>2, InputsTyped, PlanTower
    <3>2. \A y \in children(x) : g[y] = h[y]
      BY <2>1, <2>2, <2>3, <3>1, PlanTower
    <3> QED
      BY <1>1, <2>3, <3>1, <3>2
  <2> QED
    BY <2>2, <2>4
<1>5. MaxPlanDepth \in D
  <2> HIDE DEF D
  <2> QED
    BY <1>3, <1>4, LevelInduction, PlanDepthAssumption
<1>6. PICK g : \A x \in LogicalPlans : g[x] = B(g, x)
  BY <1>5 DEF LogicalPlans
<1> DEFINE h == [x \in LogicalPlans |-> g[x]]
<1>7. h = E(h)
  <2>1. \A x \in LogicalPlans : h[x] = g[x]
    OBVIOUS
  <2> HIDE DEF h
  <2>2. ASSUME NEW x \in LogicalPlans PROVE g[x] = B(h, x)
    <3>1. children(x) \subseteq LogicalPlans
      BY InputsTyped DEF PlanShape
    <3>2. \A y \in children(x) : g[y] = h[y]
      BY <2>1, <3>1
    <3> QED
      BY <1>1, <1>6, <3>2
  <2> QED
    BY <2>2 DEF h
<1>8. f = E(f)
  <2> HIDE DEF h, E
  <2> QED
    BY <1>7
<1> HIDE DEF f
<1>9. \A x \in LogicalPlans : f[x] = B(f, x)
  BY <1>8
<1>10. ASSUME NEW x \in LogicalPlans, NEW n \in SUBSET STRING
       PROVE  push_down(x, n) = PushDownStep(x, n)
  <2>1. push_down(x, n) = B(f, x)[n]
    BY <1>2, <1>9
  <2>2. CASE x.op = "scan"
    BY <2>1, <2>2 DEF B, PushDownStep
  <2>3. CASE x.op = "join"
    BY <1>2, <2>1, <2>3 DEF B, PushDownStep
  <2>4. CASE x.op \notin {"scan", "join"}
    BY <1>2, <2>1, <2>4 DEF B, PushDownStep
  <2> QED
    BY <2>2, <2>3, <2>4
<1> QED
  BY <1>10

\* What the server makes of an expression, by what it makes of its operands.
LEMMA TransferExprOf ==
  \A x \in LogicalExprs : transfer_logical_expr(x) =
           IF x.op \in Comparisons \cup Connectives
           THEN binary(FromWireOp(x.op), transfer_logical_expr(x.l), transfer_logical_expr(x.r))
           ELSE IF x.op = "col" THEN col(x.name) ELSE lit(x.value)
<1> DEFINE B(f, x) ==
               IF x.op \in Comparisons \cup Connectives
               THEN binary(FromWireOp(x.op), f[x.l], f[x.r])
               ELSE IF x.op = "col" THEN col(x.name) ELSE lit(x.value)
           E(f) == [x \in LogicalExprs |-> B(f, x)]
           f == CHOOSE f : f = E(f)
<1>1. ASSUME NEW u, NEW v, NEW x \in LogicalExprs, \A y \in operands(x) : u[y] = v[y]
      PROVE  B(u, x) = B(v, x)
  <2>1. x.op \in BinaryOps => u[x.l] = v[x.l] /\ u[x.r] = v[x.r]
    BY <1>1, OperandsOf
  <2> QED
    BY <2>1 DEF BinaryOps
<1>2. \A x : transfer_logical_expr(x) = f[x]
  BY DEF transfer_logical_expr
<1> HIDE DEF B
<1> DEFINE D == {n \in 0..MaxExprDepth : \E g : \A x \in LogicalExprsWithin(n) : g[x] = B(g, x)}
<1>3. 0 \in D
  <2> DEFINE g == [x \in LogicalExprsWithin(0) |-> B(<<>>, x)]
  <2>1. 0 \in 0..MaxExprDepth
    BY ExprDepthAssumption
  <2>2. ASSUME NEW x \in LogicalExprsWithin(0) PROVE g[x] = B(g, x)
    <3>1. operands(x) = {} /\ x \in LogicalExprs
      BY <2>1, OperandsTyped, ExprTower
    <3>2. g[x] = B(<<>>, x)
      OBVIOUS
    <3> HIDE DEF g
    <3> QED
      BY <1>1, <3>1, <3>2
  <2> HIDE DEF g
  <2> QED
    BY <2>1, <2>2
<1>4. ASSUME NEW n \in 1..MaxExprDepth, n - 1 \in D PROVE n \in D
  <2>1. PICK h : \A x \in LogicalExprsWithin(n - 1) : h[x] = B(h, x)
    BY <1>4
  <2> DEFINE g == [x \in LogicalExprsWithin(n) |-> B(h, x)]
  <2>2. n \in 0..MaxExprDepth /\ n # 0 /\ n - 1 \in 0..MaxExprDepth
    BY ExprDepthAssumption
  <2>3. \A x \in LogicalExprsWithin(n) : g[x] = B(h, x)
    OBVIOUS
  <2> HIDE DEF g
  <2>4. ASSUME NEW x \in LogicalExprsWithin(n) PROVE g[x] = B(g, x)
    <3>1. operands(x) \subseteq LogicalExprsWithin(n - 1) /\ x \in LogicalExprs
      BY <2>2, OperandsTyped, ExprTower
    <3>2. \A y \in operands(x) : g[y] = h[y]
      BY <2>1, <2>2, <2>3, <3>1, ExprTower
    <3> QED
      BY <1>1, <2>3, <3>1, <3>2
  <2> QED
    BY <2>2, <2>4
<1>5. MaxExprDepth \in D
  <2> HIDE DEF D
  <2> QED
    BY <1>3, <1>4, LevelInduction, ExprDepthAssumption
<1>6. PICK g : \A x \in LogicalExprs : g[x] = B(g, x)
  BY <1>5 DEF LogicalExprs
<1> DEFINE h == [x \in LogicalExprs |-> g[x]]
<1>7. h = E(h)
  <2>1. \A x \in LogicalExprs : h[x] = g[x]
    OBVIOUS
  <2> HIDE DEF h
  <2>2. ASSUME NEW x \in LogicalExprs PROVE g[x] = B(h, x)
    <3>1. operands(x) \subseteq LogicalExprs
      BY OperandsTyped DEF ExprShape
    <3>2. \A y \in operands(x) : g[y] = h[y]
      BY <2>1, <3>1
    <3> QED
      BY <1>1, <1>6, <3>2
  <2> QED
    BY <2>2 DEF h
<1>8. f = E(f)
  <2> HIDE DEF h, E
  <2> QED
    BY <1>7
<1> HIDE DEF f
<1>9. \A x \in LogicalExprs : f[x] = B(f, x)
  BY <1>8
<1> QED
  BY <1>2, <1>9 DEF B

\* What the server reads a source as.
ReceivedSource(s) ==
    IF s.kind = "csv" THEN CsvDataSource(s.file, <<>>, s.has_headers, ServerBatchSize)
    ELSE ParquetDataSource(s.file)

\* What the server makes of a plan, by what it makes of its input.
LEMMA TransferPlanOf ==
  \A x \in LogicalPlans : transfer_logical_plan(x) =
           LET input == transfer_logical_plan(x.input)
           IN  CASE x.op = "scan" -> Scan(ReceivedSource(x.source), x.projection)
                 [] x.op = "selection" -> Selection(input, transfer_logical_expr(x.expr))
                 [] x.op = "projection" -> Projection(input, transfer_logical_exprs(x.exprs))
                 [] x.op = "limit" -> Limit(input, Wrap(x.limit % (2 * Half)))
                 [] x.op = "aggregate" ->
                      Aggregate(input, transfer_logical_exprs(x.group_expr),
                                [i \in DOMAIN x.aggregate_expr |->
                                   aggregate_expr(x.aggregate_expr[i].fn,
                                                  transfer_logical_expr(x.aggregate_expr[i].expr))])
<1> DEFINE B(f, x) ==
               LET input == f[x.input]
               IN  CASE x.op = "scan" -> Scan(ReceivedSource(x.source), x.projection)
                     [] x.op = "selection" -> Selection(input, transfer_logical_expr(x.expr))
                     [] x.op = "projection" -> Projection(input, transfer_logical_exprs(x.exprs))
                     [] x.op = "limit" -> Limit(input, Wrap(x.limit % (2 * Half)))
                     [] x.op = "aggregate" ->
                          Aggregate(input, transfer_logical_exprs(x.group_expr),
                                    [i \in DOMAIN x.aggregate_expr |->
                                       aggregate_expr(x.aggregate_expr[i].fn,
                                                      transfer_logical_expr(x.aggregate_expr[i].expr))])
           E(f) == [x \in LogicalPlans |-> B(f, x)]
           f == CHOOSE f : f = E(f)
<1>1. ASSUME NEW u, NEW v, NEW x \in LogicalPlans, \A y \in children(x) : u[y] = v[y]
      PROVE  B(u, x) = B(v, x)
  <2>1. x.op \notin {"scan", "join"} => u[x.input] = v[x.input]
    BY <1>1, ChildrenOf
  <2> QED
    BY <2>1
<1>2. \A x : transfer_logical_plan(x) = f[x]
  BY DEF transfer_logical_plan, ReceivedSource
<1> HIDE DEF B
<1> DEFINE D == {n \in 0..MaxPlanDepth : \E g : \A x \in LogicalPlansWithin(n) : g[x] = B(g, x)}
<1>3. 0 \in D
  <2> DEFINE g == [x \in LogicalPlansWithin(0) |-> B(<<>>, x)]
  <2>1. 0 \in 0..MaxPlanDepth
    BY PlanDepthAssumption
  <2>2. ASSUME NEW x \in LogicalPlansWithin(0) PROVE g[x] = B(g, x)
    <3>1. children(x) = {} /\ x \in LogicalPlans
      BY <2>1, InputsTyped, PlanTower
    <3>2. g[x] = B(<<>>, x)
      OBVIOUS
    <3> HIDE DEF g
    <3> QED
      BY <1>1, <3>1, <3>2
  <2> HIDE DEF g
  <2> QED
    BY <2>1, <2>2
<1>4. ASSUME NEW n \in 1..MaxPlanDepth, n - 1 \in D PROVE n \in D
  <2>1. PICK h : \A x \in LogicalPlansWithin(n - 1) : h[x] = B(h, x)
    BY <1>4
  <2> DEFINE g == [x \in LogicalPlansWithin(n) |-> B(h, x)]
  <2>2. n \in 0..MaxPlanDepth /\ n # 0 /\ n - 1 \in 0..MaxPlanDepth
    BY PlanDepthAssumption
  <2>3. \A x \in LogicalPlansWithin(n) : g[x] = B(h, x)
    OBVIOUS
  <2> HIDE DEF g
  <2>4. ASSUME NEW x \in LogicalPlansWithin(n) PROVE g[x] = B(g, x)
    <3>1. children(x) \subseteq LogicalPlansWithin(n - 1) /\ x \in LogicalPlans
      BY <2>2, InputsTyped, PlanTower
    <3>2. \A y \in children(x) : g[y] = h[y]
      BY <2>1, <2>2, <2>3, <3>1, PlanTower
    <3> QED
      BY <1>1, <2>3, <3>1, <3>2
  <2> QED
    BY <2>2, <2>4
<1>5. MaxPlanDepth \in D
  <2> HIDE DEF D
  <2> QED
    BY <1>3, <1>4, LevelInduction, PlanDepthAssumption
<1>6. PICK g : \A x \in LogicalPlans : g[x] = B(g, x)
  BY <1>5 DEF LogicalPlans
<1> DEFINE h == [x \in LogicalPlans |-> g[x]]
<1>7. h = E(h)
  <2>1. \A x \in LogicalPlans : h[x] = g[x]
    OBVIOUS
  <2> HIDE DEF h
  <2>2. ASSUME NEW x \in LogicalPlans PROVE g[x] = B(h, x)
    <3>1. children(x) \subseteq LogicalPlans
      BY InputsTyped DEF PlanShape
    <3>2. \A y \in children(x) : g[y] = h[y]
      BY <2>1, <3>1
    <3> QED
      BY <1>1, <1>6, <3>2
  <2> QED
    BY <2>2 DEF h
<1>8. f = E(f)
  <2> HIDE DEF h, E
  <2> QED
    BY <1>7
<1> HIDE DEF f
<1>9. \A x \in LogicalPlans : f[x] = B(f, x)
  BY <1>8
<1> QED
  BY <1>2, <1>9 DEF B

\* The operator that a node is lowered to is named for the node.
LEMMA LoweredOp ==
  \A x \in LogicalPlans : create_physical_plan(x).op = x.op
<1> DEFINE B(f, x) ==
               LET input == f[x.input]
               IN  CASE x.op = "scan" -> [op |-> "scan", source |-> x.source, projection |-> x.projection]
                     [] x.op = "selection" ->
                          [op |-> "selection", input |-> input,
                           expr |-> create_physical_expr(x.expr, schema(x.input))]
                     [] x.op = "projection" ->
                          [op |-> "projection", input |-> input, schema |-> schema(x),
                           exprs |-> create_physical_exprs(x.exprs, schema(x.input))]
                     [] x.op = "aggregate" ->
                          [op |-> "aggregate", input |-> input, schema |-> schema(x),
                           types |-> Types(schema(x)), mode |-> "complete",
                           group |-> create_physical_exprs(x.group_expr, schema(x.input)),
                           aggregate |-> [i \in DOMAIN x.aggregate_expr |->
                               [fn |-> x.aggregate_expr[i].fn,
                                input |-> create_physical_expr(x.aggregate_expr[i].expr, schema(x.input))]]]
                     [] x.op = "limit" ->
                          [op |-> "limit", input |-> input, limit |-> as_usize(x.limit)]
                     [] x.op = "join" ->
                          LET right == schema(x.right)
                          IN  [op |-> "join", left |-> f[x.left], right |-> f[x.right],
                               join_type |-> x.join_type,
                               left_keys |-> [i \in DOMAIN x.on |-> position(schema(x.left), x.on[i][1])],
                               right_keys |-> [i \in DOMAIN x.on |-> position(right, x.on[i][2])],
                               schema |-> schema(x),
                               right_columns_to_exclude |->
                                   {i \in DOMAIN right : right[i].name \in duplicate_keys(x.on)}]
           E(f) == [x \in LogicalPlans |-> B(f, x)]
           f == CHOOSE f : f = E(f)
<1>1. ASSUME NEW u, NEW v, NEW x \in LogicalPlans, \A y \in children(x) : u[y] = v[y]
      PROVE  B(u, x) = B(v, x)
  <2>1. x.op \notin {"scan", "join"} => u[x.input] = v[x.input]
    BY <1>1, ChildrenOf
  <2>2. x.op = "join" => u[x.left] = v[x.left] /\ u[x.right] = v[x.right]
    BY <1>1, ChildrenOf
  <2> QED
    BY <2>1, <2>2
<1>2. \A x : create_physical_plan(x) = f[x]
  BY DEF create_physical_plan
<1>op. \A u : \A x \in LogicalPlans : B(u, x).op = x.op
  <2> TAKE u
  <2> TAKE x \in LogicalPlans
  <2>1. x.op \in PlanOps
    BY InputsTyped DEF PlanShape
  <2> QED
    BY <2>1 DEF PlanOps
<1> HIDE DEF B
<1> DEFINE D == {n \in 0..MaxPlanDepth : \E g : \A x \in LogicalPlansWithin(n) : g[x] = B(g, x)}
<1>3. 0 \in D
  <2> DEFINE g == [x \in LogicalPlansWithin(0) |-> B(<<>>, x)]
  <2>1. 0 \in 0..MaxPlanDepth
    BY PlanDepthAssumption
  <2>2. ASSUME NEW x \in LogicalPlansWithin(0) PROVE g[x] = B(g, x)
    <3>1. children(x) = {} /\ x \in LogicalPlans
      BY <2>1, InputsTyped, PlanTower
    <3>2. g[x] = B(<<>>, x)
      OBVIOUS
    <3> HIDE DEF g
    <3> QED
      BY <1>1, <3>1, <3>2
  <2> HIDE DEF g
  <2> QED
    BY <2>1, <2>2
<1>4. ASSUME NEW n \in 1..MaxPlanDepth, n - 1 \in D PROVE n \in D
  <2>1. PICK h : \A x \in LogicalPlansWithin(n - 1) : h[x] = B(h, x)
    BY <1>4
  <2> DEFINE g == [x \in LogicalPlansWithin(n) |-> B(h, x)]
  <2>2. n \in 0..MaxPlanDepth /\ n # 0 /\ n - 1 \in 0..MaxPlanDepth
    BY PlanDepthAssumption
  <2>3. \A x \in LogicalPlansWithin(n) : g[x] = B(h, x)
    OBVIOUS
  <2> HIDE DEF g
  <2>4. ASSUME NEW x \in LogicalPlansWithin(n) PROVE g[x] = B(g, x)
    <3>1. children(x) \subseteq LogicalPlansWithin(n - 1) /\ x \in LogicalPlans
      BY <2>2, InputsTyped, PlanTower
    <3>2. \A y \in children(x) : g[y] = h[y]
      BY <2>1, <2>2, <2>3, <3>1, PlanTower
    <3> QED
      BY <1>1, <2>3, <3>1, <3>2
  <2> QED
    BY <2>2, <2>4
<1>5. MaxPlanDepth \in D
  <2> HIDE DEF D
  <2> QED
    BY <1>3, <1>4, LevelInduction, PlanDepthAssumption
<1>6. PICK g : \A x \in LogicalPlans : g[x] = B(g, x)
  BY <1>5 DEF LogicalPlans
<1> DEFINE h == [x \in LogicalPlans |-> g[x]]
<1>7. h = E(h)
  <2>1. \A x \in LogicalPlans : h[x] = g[x]
    OBVIOUS
  <2> HIDE DEF h
  <2>2. ASSUME NEW x \in LogicalPlans PROVE g[x] = B(h, x)
    <3>1. children(x) \subseteq LogicalPlans
      BY InputsTyped DEF PlanShape
    <3>2. \A y \in children(x) : g[y] = h[y]
      BY <2>1, <3>1
    <3> QED
      BY <1>1, <1>6, <3>2
  <2> QED
    BY <2>2 DEF h
<1>8. f = E(f)
  <2> HIDE DEF h, E
  <2> QED
    BY <1>7
<1> HIDE DEF f
<1>9. \A x \in LogicalPlans : f[x] = B(f, x)
  BY <1>8
<1> QED
  BY <1>2, <1>9, <1>op

-------------------------------------------------------------------------------
(* Sequences, and the names of columns. *)

\* A set of numbers that is not empty has a least one.
LEMMA LeastExists ==
  ASSUME NEW T, T \subseteq Nat, T # {}
  PROVE  \E x \in T : \A y \in T : x <= y
<1> DEFINE R == OpToRel(<, Nat)
<1>1. IsWellFoundedOn(R, Nat)
  BY NatLessThanWellFounded
<1>2. \E x \in T : \A y \in T : ~(<<y, x>> \in R)
  <2> HIDE DEF R
  <2> QED
    BY <1>1, WFMin
<1>3. PICK x \in T : \A y \in T : ~(<<y, x>> \in R)
  BY <1>2
<1>4. ASSUME NEW y \in T PROVE x <= y
  <2>1. x \in Nat /\ y \in Nat /\ ~(<<y, x>> \in R)
    BY <1>3
  <2>2. ~(y < x)
    BY <2>1 DEF OpToRel, R
  <2>3. x \in Nat /\ y \in Nat
    BY <2>1
  <2> HIDE DEF R
  <2> QED
    BY <2>2, <2>3
<1> QED
  BY <1>4

\* The elements of a sequence that are in a set are again a sequence.
LEMMA AmongElements ==
  ASSUME NEW T, NEW seq \in Seq(T), NEW S
  PROVE  /\ Among(seq, S) \in Seq(T)
         /\ ToSet(Among(seq, S)) = ToSet(seq) \cap S
<1> DEFINE N == Len(seq)
           G == [n \in 1..N |-> [k \in Seq(T) |-> IF seq[n] \in S THEN Append(k, seq[n]) ELSE k]]
           E(f) == [n \in 0..Len(seq) |->
                      IF n = 0 THEN <<>>
                      ELSE IF seq[n] \in S THEN Append(f[n - 1], seq[n]) ELSE f[n - 1]]
           f == CHOOSE f : f = E(f)
<1>1. N \in Nat /\ DOMAIN seq = 1..N /\ \A n \in 1..N : seq[n] \in T
  OBVIOUS
<1>2. Among(seq, S) = f[N]
  BY DEF Among
<1>3. PICK g \in [0..N -> Seq(T)] : IsLoop(g, N, <<>>, G)
  <2>1. \A n \in 1..N : \A k \in Seq(T) :
          (IF seq[n] \in S THEN Append(k, seq[n]) ELSE k) \in Seq(T)
    BY <1>1, AppendProperties
  <2>2. G \in [1..N -> [Seq(T) -> Seq(T)]]
    BY <2>1
  <2>3. <<>> \in Seq(T)
    OBVIOUS
  <2> HIDE DEF G, N
  <2> QED
    BY <1>1, <2>2, <2>3, LoopExists
<1>4. /\ g[0] = <<>>
      /\ \A n \in 1..N : g[n] = IF seq[n] \in S THEN Append(g[n - 1], seq[n]) ELSE g[n - 1]
  <2>1. ASSUME NEW n \in 1..N
        PROVE  g[n] = IF seq[n] \in S THEN Append(g[n - 1], seq[n]) ELSE g[n - 1]
    <3>1. n - 1 \in 0..N
      BY <1>1
    <3>2. g[n - 1] \in Seq(T) /\ g[n] = G[n][g[n - 1]]
      BY <1>3, <3>1 DEF IsLoop
    <3> QED
      BY <3>2
  <2> QED
    BY <1>3, <2>1 DEF IsLoop
<1> HIDE DEF G, N
<1>5. g = E(g)
  <2>1. ASSUME NEW n \in 0..N PROVE g[n] = E(g)[n]
    <3>1. CASE n = 0
      BY <1>4, <3>1 DEF N
    <3>2. CASE n # 0
      <4>1. n \in 1..N
        BY <1>1, <3>2
      <4> QED
        BY <1>4, <3>2, <4>1 DEF N
    <3> QED
      BY <3>1, <3>2
  <2>2. DOMAIN g = 0..N /\ DOMAIN E(g) = 0..N
    BY <1>3 DEF N
  <2>3. g = [n \in 0..N |-> g[n]] /\ E(g) = [n \in 0..N |-> E(g)[n]]
    BY <1>3 DEF N
  <2> HIDE DEF E
  <2> QED
    BY <2>1, <2>3
<1>6. f = E(f)
  <2> HIDE DEF E
  <2> QED
    BY <1>5
<1> HIDE DEF f
<1>7. \A n \in 0..N : f[n] = IF n = 0 THEN <<>>
                             ELSE IF seq[n] \in S THEN Append(f[n - 1], seq[n]) ELSE f[n - 1]
  BY <1>6 DEF N
<1> DEFINE D == {n \in 0..N : f[n] \in Seq(T) /\ ToSet(f[n]) = {seq[i] : i \in 1..n} \cap S}
<1>8. 0 \in D
  <2>1. f[0] = <<>>
    BY <1>1, <1>7
  <2>2. ToSet(<<>>) = {} /\ <<>> \in Seq(T)
    BY DEF ToSet
  <2>3. {seq[i] : i \in 1..0} = {}
    OBVIOUS
  <2>4. 0 \in 0..N
    BY <1>1
  <2>5. f[0] \in Seq(T) /\ ToSet(f[0]) = {seq[i] : i \in 1..0} \cap S
    BY <2>1, <2>2, <2>3
  <2> QED
    BY <2>4, <2>5
<1>9. ASSUME NEW n \in 1..N, n - 1 \in D PROVE n \in D
  <2>0. f[n - 1] \in Seq(T) /\ ToSet(f[n - 1]) = {seq[i] : i \in 1..(n - 1)} \cap S
    BY <1>9
  <2>1. n \in 0..N /\ n # 0 /\ f[n - 1] \in Seq(T) /\ seq[n] \in T
        /\ ToSet(f[n - 1]) = {seq[i] : i \in 1..(n - 1)} \cap S
    BY <1>1, <2>0
  <2>2. {seq[i] : i \in 1..n} = {seq[i] : i \in 1..(n - 1)} \cup {seq[n]}
    <3>1. \A i : i \in 1..n <=> i \in 1..(n - 1) \/ i = n
      BY <1>1
    <3> QED
      BY <3>1
  <2>3. CASE seq[n] \in S
    <3>1. f[n] = Append(f[n - 1], seq[n])
      BY <1>7, <2>1, <2>3
    <3> DEFINE k == f[n - 1]
               v == seq[n]
    <3>2. k \in Seq(T) /\ v \in T
      BY <2>1
    <3> HIDE DEF k, v
    <3>3. Append(k, v) \in Seq(T) /\ ToSet(Append(k, v)) = ToSet(k) \cup {v}
      <4>1. /\ Append(k, v) \in Seq(T) /\ Len(Append(k, v)) = Len(k) + 1
            /\ \A i \in 1..Len(k) : Append(k, v)[i] = k[i]
            /\ Append(k, v)[Len(k) + 1] = v
        BY <3>2, AppendProperties
      <4>2. DOMAIN k = 1..Len(k) /\ DOMAIN Append(k, v) = 1..(Len(k) + 1) /\ Len(k) \in Nat
        BY <3>2, <4>1
      <4>3. \A i : i \in 1..(Len(k) + 1) <=> i \in 1..Len(k) \/ i = Len(k) + 1
        BY <4>2
      <4> QED
        BY <4>1, <4>2, <4>3 DEF ToSet
    <3> QED
      BY <2>1, <2>2, <2>3, <3>1, <3>3 DEF k, v
  <2>4. CASE seq[n] \notin S
    <3>1. f[n] = f[n - 1]
      BY <1>7, <2>1, <2>4
    <3> QED
      BY <2>1, <2>2, <2>4, <3>1
  <2> QED
    BY <2>3, <2>4
<1>10. N \in D
  <2> HIDE DEF D
  <2>1. N \in Nat
    BY <1>1
  <2>2. \A n \in 1..N : n - 1 \in D => n \in D
    BY <1>9
  <2>3. 0..N \subseteq D
    BY <1>8, <2>1, <2>2, LevelInduction
  <2> QED
    BY <2>1, <2>3
<1> QED
  BY <1>1, <1>2, <1>10 DEF ToSet

\* The names of the columns of a schema.
ColumnNames(s) == ToSet(Names(s))

\* A name has a position in a schema exactly if one of its columns has that name.
LEMMA PositionOfName ==
  ASSUME NEW s \in Seq(Fields), NEW name
  PROVE  /\ position(s, name) # 0 <=> name \in ColumnNames(s)
         /\ position(s, name) # 0 =>
              position(s, name) \in DOMAIN s /\ s[position(s, name)].name = name
<1> DEFINE I == {i \in 1..Len(s) : s[i].name = name}
<1>1. position(s, name) = IF I # {} THEN Min(I) ELSE 0
  BY DEF position, SelectInSeq
<1>2. DOMAIN s = 1..Len(s) /\ Len(s) \in Nat /\ I \subseteq Nat
  OBVIOUS
<1>3. name \in ColumnNames(s) <=> I # {}
  BY <1>2 DEF ColumnNames, Names, ToSet
<1>4. CASE I # {}
  <2>1. Min(I) \in I
    <3>1. \E x \in I : \A y \in I : x <= y
      BY <1>2, <1>4, LeastExists
    <3> HIDE DEF I
    <3> QED
      BY <3>1 DEF Min
  <2>2. Min(I) \in DOMAIN s /\ s[Min(I)].name = name /\ Min(I) # 0
    BY <1>2, <2>1
  <2> HIDE DEF I
  <2> QED
    BY <1>1, <1>3, <1>4, <2>2
<1>5. CASE I = {}
  <2> HIDE DEF I
  <2> QED
    BY <1>1, <1>3, <1>5
<1> QED
  BY <1>4, <1>5

\* The names of a schema are those of its fields.
LEMMA NamesOfFields ==
  ASSUME NEW s \in Seq(Fields)
  PROVE  /\ ColumnNames(s) = {f.name : f \in ToSet(s)}
         /\ ColumnNames(s) \subseteq STRING
         /\ ToSet(s) \subseteq Fields
         /\ \A i \in DOMAIN s : s[i].name \in ColumnNames(s)
<1>1. \A i \in DOMAIN s : s[i] \in Fields /\ s[i].name \in STRING
  <2>1. \A f \in Fields : f.name \in STRING
    BY DEF Fields
  <2>2. \A i \in DOMAIN s : s[i] \in Fields
    OBVIOUS
  <2> QED
    BY <2>1, <2>2
<1>2. ToSet(Names(s)) = {s[i].name : i \in DOMAIN s}
  BY DEF ToSet, Names
<1>3. {f.name : f \in ToSet(s)} = {s[i].name : i \in DOMAIN s}
  <2>1. \A f : f \in ToSet(s) <=> \E i \in DOMAIN s : s[i] = f
    BY DEF ToSet
  <2> QED
    BY <2>1
<1> QED
  BY <1>1, <1>2, <1>3 DEF ColumnNames, ToSet

\* The elements of two sequences one after the other.
LEMMA ElementsOfBoth ==
  ASSUME NEW T, NEW s \in Seq(T), NEW t \in Seq(T)
  PROVE  s \o t \in Seq(T) /\ ToSet(s \o t) = ToSet(s) \cup ToSet(t)
<1>1. /\ s \o t \in Seq(T)
      /\ Len(s \o t) = Len(s) + Len(t)
      /\ \A i \in 1..Len(s) : (s \o t)[i] = s[i]
      /\ \A i \in 1..Len(t) : (s \o t)[Len(s) + i] = t[i]
  BY ConcatProperties
<1>2. /\ DOMAIN s = 1..Len(s) /\ DOMAIN t = 1..Len(t) /\ DOMAIN (s \o t) = 1..(Len(s) + Len(t))
      /\ Len(s) \in Nat /\ Len(t) \in Nat
  BY <1>1
<1> DEFINE u == s \o t
<1>3. ToSet(s) \subseteq ToSet(u)
  BY <1>1, <1>2 DEF ToSet
<1>4. ToSet(t) \subseteq ToSet(u)
  <2>1. \A i \in 1..Len(t) : Len(s) + i \in 1..(Len(s) + Len(t))
    BY <1>2
  <2> QED
    BY <1>1, <1>2, <2>1 DEF ToSet
<1>5. ToSet(u) \subseteq ToSet(s) \cup ToSet(t)
  <2>1. ASSUME NEW i \in DOMAIN u PROVE u[i] \in ToSet(s) \cup ToSet(t)
    <3>1. CASE i \in 1..Len(s)
      BY <1>1, <1>2, <3>1 DEF ToSet
    <3>2. CASE i \notin 1..Len(s)
      <4>1. i - Len(s) \in 1..Len(t) /\ Len(s) + (i - Len(s)) = i
        BY <1>2, <2>1, <3>2
      <4>2. u[i] = t[i - Len(s)]
        BY <1>1, <4>1
      <4> QED
        BY <1>2, <4>1, <4>2 DEF ToSet
    <3> QED
      BY <3>1, <3>2
  <2> QED
    BY <2>1 DEF ToSet
<1> QED
  BY <1>1, <1>3, <1>4, <1>5

\* The names of two schemas one after the other.
LEMMA NamesOfBoth ==
  ASSUME NEW s \in Seq(Fields), NEW t \in Seq(Fields)
  PROVE  /\ s \o t \in Seq(Fields)
         /\ ColumnNames(s \o t) = ColumnNames(s) \cup ColumnNames(t)
<1> DEFINE u == s \o t
<1>1. u \in Seq(Fields) /\ ToSet(u) = ToSet(s) \cup ToSet(t)
  BY ElementsOfBoth
<1> HIDE DEF u
<1>2. /\ ColumnNames(u) = {f.name : f \in ToSet(u)}
      /\ ColumnNames(s) = {f.name : f \in ToSet(s)}
      /\ ColumnNames(t) = {f.name : f \in ToSet(t)}
  BY <1>1, NamesOfFields
<1> QED
  BY <1>1, <1>2 DEF u

\* Taking the columns of some names out of a schema.
LEMMA NamesWithout ==
  ASSUME NEW s \in Seq(Fields), NEW K
  PROVE  /\ Without(s, K) \in Seq(Fields)
         /\ ColumnNames(Without(s, K)) = ColumnNames(s) \ K
<1> DEFINE S == {f \in ToSet(s) : f.name \notin K}
           w == Among(s, S)
<1>1. w \in Seq(Fields) /\ ToSet(w) = ToSet(s) \cap S
  BY AmongElements
<1>2. Without(s, K) = w
  BY DEF Without
<1> HIDE DEF w
<1>3. ColumnNames(w) = {f.name : f \in ToSet(w)} /\ ColumnNames(s) = {f.name : f \in ToSet(s)}
  BY <1>1, NamesOfFields
<1>4. ToSet(w) = S
  BY <1>1
<1> QED
  BY <1>1, <1>2, <1>3, <1>4

\* The names of a join's columns depend on the names of its inputs' alone.
LEMMA NamesOfJoin ==
  ASSUME NEW l \in Seq(Fields), NEW r \in Seq(Fields), NEW type, NEW on
  PROVE  /\ Join_schema(type, l, r, on) \in Seq(Fields)
         /\ ColumnNames(Join_schema(type, l, r, on)) =
              IF type = "right" THEN (ColumnNames(l) \ duplicate_keys(on)) \cup ColumnNames(r)
              ELSE ColumnNames(l) \cup (ColumnNames(r) \ duplicate_keys(on))
<1> DEFINE K == duplicate_keys(on)
           a == Without(l, K)
           b == Without(r, K)
<1>1. /\ a \in Seq(Fields) /\ ColumnNames(a) = ColumnNames(l) \ K
      /\ b \in Seq(Fields) /\ ColumnNames(b) = ColumnNames(r) \ K
  BY NamesWithout
<1>2. Join_schema(type, l, r, on) = IF type = "right" THEN a \o r ELSE l \o b
  BY DEF Join_schema
<1> HIDE DEF a, b
<1>3. /\ a \o r \in Seq(Fields) /\ ColumnNames(a \o r) = ColumnNames(a) \cup ColumnNames(r)
      /\ l \o b \in Seq(Fields) /\ ColumnNames(l \o b) = ColumnNames(l) \cup ColumnNames(b)
  BY <1>1, NamesOfBoth
<1> QED
  BY <1>1, <1>2, <1>3

\* Selecting columns that are there.
LEMMA NamesOfSelect ==
  ASSUME NEW s \in Seq(Fields), NEW names \in Seq(STRING), ToSet(names) \subseteq ColumnNames(s)
  PROVE  /\ select(s, names) \in Seq(Fields)
         /\ Names(select(s, names)) = names
<1> DEFINE t == select(s, names)
<1>1. \A i \in DOMAIN names : position(s, names[i]) \in DOMAIN s /\ s[position(s, names[i])].name = names[i]
  <2> TAKE i \in DOMAIN names
  <2>1. names[i] \in ColumnNames(s)
    BY DEF ToSet
  <2> QED
    BY <2>1, PositionOfName
<1>2. t = [i \in 1..Len(names) |-> s[position(s, names[i])]] /\ Len(names) \in Nat
      /\ DOMAIN names = 1..Len(names)
  BY DEF select
<1>3. \A i \in 1..Len(names) : s[position(s, names[i])] \in Fields
  BY <1>1, <1>2
<1>4. t \in Seq(Fields)
  BY <1>2, <1>3
<1>5. Names(t) = [i \in DOMAIN names |-> names[i]]
  BY <1>1, <1>2 DEF Names
<1>6. names = [i \in DOMAIN names |-> names[i]]
  OBVIOUS
<1> QED
  BY <1>4, <1>5, <1>6

\* A source has a schema: the one it declares or that of its file.
LEMMA SourceSchemaFields ==
  \A source \in DataSources : source_schema(source) \in Seq(Fields)
<1> SUFFICES ASSUME NEW source \in DataSources PROVE source_schema(source) \in Seq(Fields)
  OBVIOUS
<1>1. /\ source.file \in DOMAIN FileSchema
      /\ source.kind = "csv" => source.schema \in Seq(Fields)
  BY DEF DataSources
<1> QED
  BY <1>1, FileSchemaAssumption DEF source_schema, infer_schema

\* Induction on expressions.
LEMMA ExprInduction ==
  ASSUME NEW S, \A x \in LogicalExprs : operands(x) \subseteq S => x \in S
  PROVE  LogicalExprs \subseteq S
<1> DEFINE E(n) == LogicalExprsWithin(n)
           L == {n \in 0..MaxExprDepth : E(n) \subseteq S}
<1> HIDE DEF E
<1>1. MaxExprDepth \in Nat
  BY ExprDepthAssumption
<1>2. \A n \in 0..MaxExprDepth : E(n) \subseteq LogicalExprs
  BY ExprTower DEF E
<1>3. \A n \in 0..MaxExprDepth : \A x \in E(n) :
         /\ n = 0 => operands(x) = {}
         /\ n # 0 => operands(x) \subseteq E(n - 1)
  BY OperandsTyped DEF E
<1>4. 0 \in L
  <2>1. 0 \in 0..MaxExprDepth
    BY <1>1
  <2>2. \A x \in E(0) : operands(x) \subseteq S
    BY <1>3, <2>1
  <2>3. E(0) \subseteq S
    BY <1>2, <2>1, <2>2
  <2> QED
    BY <2>1, <2>3
<1>5. ASSUME NEW n \in 1..MaxExprDepth, n - 1 \in L PROVE n \in L
  <2>1. n \in 0..MaxExprDepth /\ n # 0 /\ E(n - 1) \subseteq S
    BY <1>1, <1>5
  <2>2. \A x \in E(n) : operands(x) \subseteq S
    BY <1>3, <2>1
  <2>3. E(n) \subseteq S
    BY <1>2, <2>1, <2>2
  <2> QED
    BY <2>1, <2>3
<1>6. MaxExprDepth \in L
  <2> HIDE DEF L
  <2>1. \A n \in 1..MaxExprDepth : n - 1 \in L => n \in L
    BY <1>5
  <2>2. 0..MaxExprDepth \subseteq L
    BY <1>1, <1>4, <2>1, LevelInduction
  <2> QED
    BY <1>1, <2>2
<1> QED
  BY <1>6 DEF E, LogicalExprs

\* Induction on plans.
LEMMA PlanInduction ==
  ASSUME NEW S, \A x \in LogicalPlans : children(x) \subseteq S => x \in S
  PROVE  LogicalPlans \subseteq S
<1> DEFINE E(n) == LogicalPlansWithin(n)
           L == {n \in 0..MaxPlanDepth : E(n) \subseteq S}
<1> HIDE DEF E
<1>1. MaxPlanDepth \in Nat
  BY PlanDepthAssumption
<1>2. \A n \in 0..MaxPlanDepth : E(n) \subseteq LogicalPlans
  BY PlanTower DEF E
<1>3. \A n \in 0..MaxPlanDepth : \A x \in E(n) :
         /\ n = 0 => children(x) = {}
         /\ n # 0 => children(x) \subseteq E(n - 1)
  BY InputsTyped DEF E
<1>4. 0 \in L
  <2>1. 0 \in 0..MaxPlanDepth
    BY <1>1
  <2>2. \A x \in E(0) : children(x) \subseteq S
    BY <1>3, <2>1
  <2>3. E(0) \subseteq S
    BY <1>2, <2>1, <2>2
  <2> QED
    BY <2>1, <2>3
<1>5. ASSUME NEW n \in 1..MaxPlanDepth, n - 1 \in L PROVE n \in L
  <2>1. n \in 0..MaxPlanDepth /\ n # 0 /\ E(n - 1) \subseteq S
    BY <1>1, <1>5
  <2>2. \A x \in E(n) : children(x) \subseteq S
    BY <1>3, <2>1
  <2>3. E(n) \subseteq S
    BY <1>2, <2>1, <2>2
  <2> QED
    BY <2>1, <2>3
<1>6. MaxPlanDepth \in L
  <2> HIDE DEF L
  <2>1. \A n \in 1..MaxPlanDepth : n - 1 \in L => n \in L
    BY <1>5
  <2>2. 0..MaxPlanDepth \subseteq L
    BY <1>1, <1>4, <2>1, LevelInduction
  <2> QED
    BY <1>1, <2>2
<1> QED
  BY <1>6 DEF E, LogicalPlans

\* The operands of an expression, and its subexpressions, are expressions.
LEMMA SubexpressionsTyped ==
  \A x \in LogicalExprs :
    /\ operands(x) \subseteq LogicalExprs
    /\ Subexpressions(x) \subseteq LogicalExprs
    /\ x \in Subexpressions(x)
    /\ \A y \in operands(x) : Subexpressions(y) \subseteq Subexpressions(x)
<1>1. \A x \in LogicalExprs : operands(x) \subseteq LogicalExprs
  BY OperandsTyped DEF ExprShape
<1> DEFINE S == {x \in LogicalExprs : Subexpressions(x) \subseteq LogicalExprs}
<1>2. ASSUME NEW x \in LogicalExprs, operands(x) \subseteq S PROVE x \in S
  BY <1>2, SubexpressionsOf
<1>3. LogicalExprs \subseteq S
  <2> HIDE DEF S
  <2> QED
    BY <1>2, ExprInduction
<1> QED
  BY <1>1, <1>3, SubexpressionsOf

\* to_field, one operator at a time.
LEMMA FieldCases ==
  ASSUME NEW s, NEW x \in LogicalExprs
  PROVE  /\ x.op = "col" => to_field(x, s) = s[position(s, x.name)]
         /\ x.op = "index" => to_field(x, s) = s[x.i]
         /\ x.op = "lit" => to_field(x, s) = Field(LiteralName(x.value), x.value.type)
         /\ x.op = "interval" => to_field(x, s) = Field(IntervalName(x.days), "interval")
         /\ x.op = "alias" => to_field(x, s) = Field(x.name, to_field(x.expr, s).type)
         /\ x.op = "cast" => to_field(x, s) = Field(to_field(x.expr, s).name, x.type)
         /\ x.op = "not" \/ x.op \in BinaryOps \ (Maths \cup {"mod"}) =>
              to_field(x, s) \in {Field(x.op, "date32"), Field(x.op, "bool")}
         /\ x.op \in Maths \cup {"mod"} => to_field(x, s) = Field(x.op, to_field(x.l, s).type)
         /\ x.op = "aggregate" /\ x.fn \in {"count", "count_distinct"} =>
              to_field(x, s) = IF x.fn = "count" THEN Field("COUNT", "i32")
                               ELSE Field("COUNT_DISTINCT", "u32")
         /\ x.op = "aggregate" /\ x.fn \notin {"count", "count_distinct"} =>
              to_field(x, s) =
                Field([sum |-> "SUM", min |-> "MIN", max |-> "MAX", avg |-> "AVG"][x.fn],
                      to_field(x.expr, s).type)
<1> USE DEF BinaryOps, Comparisons, Connectives, Maths, Dates
<1>1. CASE x.op \in {"col", "index", "lit", "interval", "alias", "cast"}
  BY <1>1, FieldOf
<1>2. CASE x.op = "not" \/ x.op \in BinaryOps \ (Maths \cup {"mod"})
  BY <1>2, FieldOf
<1>3. CASE x.op \in Maths \cup {"mod"}
  BY <1>3, FieldOf
<1>4. CASE x.op = "aggregate"
  BY <1>4, FieldOf
<1>5. x.op \in {"col", "index", "lit", "interval", "alias", "cast", "not", "aggregate"} \cup BinaryOps
  BY OperandsTyped DEF ExprShape, ExprOps, UnaryOps
<1> QED
  BY <1>1, <1>2, <1>3, <1>4, <1>5

\* The references that to_field looks up, one operator at a time.
LEMMA FieldReferencesCases ==
  ASSUME NEW x \in LogicalExprs
  PROVE  /\ x.op \in {"col", "index"} => FieldReferences(x) = {x}
         /\ x.op \in Maths \cup {"mod"} => FieldReferences(x) = FieldReferences(x.l)
         /\ x.op \in {"alias", "cast"} => FieldReferences(x) = FieldReferences(x.expr)
         /\ x.op = "aggregate" /\ x.fn \notin {"count", "count_distinct"} =>
              FieldReferences(x) = FieldReferences(x.expr)
         /\ x.op = "aggregate" => FieldReferences(x) \subseteq FieldReferences(x.expr)
         /\ x.op \in {"lit", "interval", "not"} \cup (BinaryOps \ (Maths \cup {"mod"})) =>
              FieldReferences(x) = {}
<1> USE DEF BinaryOps, Comparisons, Connectives, Maths, Dates
<1> QED
  BY FieldReferencesOf

\* The references that to_field looks up are references of the expression.
LEMMA FieldReferencesAmong ==
  \A x \in LogicalExprs : FieldReferences(x) \subseteq References(x)
<1> DEFINE S == {x \in LogicalExprs : FieldReferences(x) \subseteq References(x)}
<1>1. ASSUME NEW x \in LogicalExprs, operands(x) \subseteq S PROVE x \in S
  <2>1. \A y \in operands(x) : References(y) \subseteq References(x)
    BY SubexpressionsTyped DEF References
  <2>2. ExprShape(x, LogicalExprs)
    BY OperandsTyped
  <2>3. CASE x.op \in {"col", "index"}
    BY <2>3, FieldReferencesCases, SubexpressionsTyped DEF References
  <2>4. CASE x.op \in {"alias", "cast", "aggregate"}
    <3>1. FieldReferences(x) \subseteq FieldReferences(x.expr) /\ x.expr \in operands(x)
      BY <2>4, FieldReferencesCases, OperandsOf DEF UnaryOps
    <3> QED
      BY <1>1, <2>1, <3>1
  <2>5. CASE x.op \in Maths \cup {"mod"}
    <3>1. FieldReferences(x) = FieldReferences(x.l) /\ x.l \in operands(x)
      BY <2>5, FieldReferencesCases, OperandsOf DEF BinaryOps
    <3> QED
      BY <1>1, <2>1, <3>1
  <2>6. CASE x.op \in {"lit", "interval", "not"} \cup (BinaryOps \ (Maths \cup {"mod"}))
    BY <2>6, FieldReferencesCases
  <2> QED
    BY <2>2, <2>3, <2>4, <2>5, <2>6 DEF ExprShape, ExprOps, UnaryOps
<1>2. LogicalExprs \subseteq S
  <2> HIDE DEF S
  <2> QED
    BY <1>1, ExprInduction
<1> QED
  BY <1>2

\* An expression whose looked-up references resolve has a field.
LEMMA FieldTyped ==
  ASSUME NEW s \in Seq(Fields)
  PROVE  \A x \in LogicalExprs :
           (\A ref \in FieldReferences(x) : Resolved(ref, s)) => to_field(x, s) \in Fields
<1> DEFINE Looked(x) == \A ref \in FieldReferences(x) : Resolved(ref, s)
           S == {x \in LogicalExprs : Looked(x) => to_field(x, s) \in Fields}
<1>0. /\ \A name, type \in STRING : Field(name, type) \in Fields
      /\ \A f \in Fields : f.name \in STRING /\ f.type \in STRING
  BY DEF Field, Fields
<1>1. ASSUME NEW x \in LogicalExprs, operands(x) \subseteq S PROVE x \in S
  <2>1. SUFFICES ASSUME Looked(x) PROVE to_field(x, s) \in Fields
    BY <1>1
  <2>2. ExprShape(x, LogicalExprs)
    BY OperandsTyped
  <2>3. MadeUpNames \subseteq STRING /\ MadeUpTypes \subseteq STRING
    BY MadeUpAssumption
  <2>4. CASE x.op = "col"
    <3>1. FieldReferences(x) = {x} /\ to_field(x, s) = s[position(s, x.name)]
      BY <2>4, FieldReferencesCases, FieldCases
    <3>2. position(s, x.name) # 0
      BY <2>1, <2>4, <3>1 DEF Resolved
    <3>3. position(s, x.name) \in DOMAIN s
      BY <3>2, PositionOfName
    <3> QED
      BY <3>1, <3>3
  <2>5. CASE x.op = "index"
    <3>1. FieldReferences(x) = {x} /\ to_field(x, s) = s[x.i]
      BY <2>5, FieldReferencesCases, FieldCases
    <3>2. x.i \in DOMAIN s
      BY <2>1, <2>5, <3>1 DEF Resolved
    <3> QED
      BY <3>1, <3>2
  <2>6. CASE x.op = "lit"
    <3>1. x.value \in Literals
      BY <2>2, <2>6 DEF ExprShape
    <3>2. LiteralName(x.value) \in STRING /\ x.value.type \in STRING
      BY <3>1, LiteralsAssumption
    <3>3. to_field(x, s) = Field(LiteralName(x.value), x.value.type)
      BY <2>6, FieldCases
    <3> QED
      BY <1>0, <3>2, <3>3
  <2>7. CASE x.op = "interval"
    <3>1. PICK v \in Literals : x.days = v.n
      BY <2>2, <2>7 DEF ExprShape
    <3>2. IntervalName(x.days) \in STRING
      BY <3>1, LiteralsAssumption
    <3>3. to_field(x, s) = Field(IntervalName(x.days), "interval")
      BY <2>7, FieldCases
    <3> QED
      BY <1>0, <2>3, <3>2, <3>3 DEF MadeUpTypes
  <2>8. CASE x.op \in {"alias", "cast"}
    <3>1. /\ FieldReferences(x) = FieldReferences(x.expr) /\ x.expr \in operands(x)
          /\ x.op = "alias" => x.name \in STRING
          /\ x.op = "cast" => x.type \in STRING
      BY <2>2, <2>8, FieldReferencesCases, OperandsOf DEF UnaryOps, ExprShape
    <3>2. to_field(x.expr, s) \in Fields
      BY <1>1, <2>1, <3>1
    <3>3. to_field(x, s) = IF x.op = "alias" THEN Field(x.name, to_field(x.expr, s).type)
                           ELSE Field(to_field(x.expr, s).name, x.type)
      BY <2>8, FieldCases
    <3> QED
      BY <1>0, <2>8, <3>1, <3>2, <3>3
  <2>9. CASE x.op = "not" \/ x.op \in BinaryOps \ (Maths \cup {"mod"})
    <3>1. to_field(x, s) \in {Field(x.op, "date32"), Field(x.op, "bool")}
      BY <2>9, FieldCases
    <3>2. x.op \in STRING /\ "date32" \in STRING /\ "bool" \in STRING
      BY <2>3, <2>9 DEF MadeUpNames, MadeUpTypes
    <3> QED
      BY <1>0, <3>1, <3>2
  <2>10. CASE x.op \in Maths \cup {"mod"}
    <3>1. FieldReferences(x) = FieldReferences(x.l) /\ x.l \in operands(x)
      BY <2>10, FieldReferencesCases, OperandsOf DEF BinaryOps
    <3>2. to_field(x.l, s) \in Fields
      BY <1>1, <2>1, <3>1
    <3>3. x.op \in STRING
      BY <2>3, <2>10 DEF MadeUpNames, BinaryOps
    <3> QED
      BY <1>0, <2>10, <3>2, <3>3, FieldCases
  <2>11. CASE x.op = "aggregate" /\ x.fn \in {"count", "count_distinct"}
    <3>1. to_field(x, s) = IF x.fn = "count" THEN Field("COUNT", "i32")
                           ELSE Field("COUNT_DISTINCT", "u32")
      BY <2>11, FieldCases
    <3>2. {"COUNT", "i32", "COUNT_DISTINCT", "u32"} \subseteq STRING
      BY <2>3 DEF MadeUpNames, MadeUpTypes
    <3> QED
      BY <1>0, <3>1, <3>2
  <2>12. CASE x.op = "aggregate" /\ x.fn \notin {"count", "count_distinct"}
    <3>1. FieldReferences(x) = FieldReferences(x.expr) /\ x.expr \in operands(x)
      BY <2>12, FieldReferencesCases, OperandsOf DEF UnaryOps
    <3>2. to_field(x.expr, s).type \in STRING
      BY <1>0, <1>1, <2>1, <3>1
    <3> DEFINE name == [sum |-> "SUM", min |-> "MIN", max |-> "MAX", avg |-> "AVG"][x.fn]
    <3>3. name \in STRING
      <4>1. x.fn \in {"sum", "min", "max", "avg"}
        BY <2>2, <2>12 DEF ExprShape, AggregateFns
      <4>2. name \in {"SUM", "MIN", "MAX", "AVG"}
        BY <4>1
      <4> QED
        BY <2>3, <4>2 DEF MadeUpNames
    <3>4. to_field(x, s) = Field(name, to_field(x.expr, s).type)
      BY <2>12, FieldCases
    <3> HIDE DEF name
    <3> QED
      BY <1>0, <3>2, <3>3, <3>4
  <2>13. x.op \in {"col", "index", "lit", "interval", "alias", "cast", "not", "aggregate"} \cup BinaryOps
    BY <2>2 DEF ExprShape, ExprOps, UnaryOps
  <2> QED
    BY <2>4, <2>5, <2>6, <2>7, <2>8, <2>9, <2>10, <2>11, <2>12, <2>13
<1>2. LogicalExprs \subseteq S
  <2> HIDE DEF S
  <2> QED
    BY <1>1, ExprInduction
<1> QED
  BY <1>2

\* The references that to_field looks up are found in both schemas, and an index means
\* a column of one name in both.
SameReferences(x, s, t) ==
    \A ref \in FieldReferences(x) :
        Resolved(ref, s) /\ Resolved(ref, t) /\ (ref.op = "index" => Names(s) = Names(t))

\* An expression then names its field alike in both.
LEMMA FieldNamed ==
  ASSUME NEW s \in Seq(Fields), NEW t \in Seq(Fields)
  PROVE  \A x \in LogicalExprs : SameReferences(x, s, t) => to_field(x, s).name = to_field(x, t).name
<1> DEFINE S == {x \in LogicalExprs : SameReferences(x, s, t) => to_field(x, s).name = to_field(x, t).name}
<1>0. \A name, type : Field(name, type).name = name
  BY DEF Field
<1>1. ASSUME NEW x \in LogicalExprs, operands(x) \subseteq S PROVE x \in S
  <2>1. SUFFICES ASSUME SameReferences(x, s, t) PROVE to_field(x, s).name = to_field(x, t).name
    BY <1>1
  <2>2. ExprShape(x, LogicalExprs)
    BY OperandsTyped
  <2>3. CASE x.op = "col"
    <3>1. /\ FieldReferences(x) = {x}
          /\ to_field(x, s) = s[position(s, x.name)] /\ to_field(x, t) = t[position(t, x.name)]
      BY <2>3, FieldReferencesCases, FieldCases
    <3>2. position(s, x.name) # 0 /\ position(t, x.name) # 0
      BY <2>1, <2>3, <3>1 DEF SameReferences, Resolved
    <3> QED
      BY <3>1, <3>2, PositionOfName
  <2>4. CASE x.op = "index"
    <3>1. FieldReferences(x) = {x} /\ to_field(x, s) = s[x.i] /\ to_field(x, t) = t[x.i]
      BY <2>4, FieldReferencesCases, FieldCases
    <3>2. x.i \in DOMAIN s /\ x.i \in DOMAIN t /\ Names(s) = Names(t)
      BY <2>1, <2>4, <3>1 DEF SameReferences, Resolved
    <3>3. Names(s)[x.i] = s[x.i].name /\ Names(t)[x.i] = t[x.i].name
      BY <3>2 DEF Names
    <3> QED
      BY <3>1, <3>2, <3>3
  <2>5. CASE x.op \in {"lit", "interval", "alias"}
    BY <1>0, <2>5, FieldCases
  <2>6. CASE x.op = "cast"
    <3>1. FieldReferences(x) = FieldReferences(x.expr) /\ x.expr \in operands(x)
      BY <2>6, FieldReferencesCases, OperandsOf DEF UnaryOps
    <3>2. to_field(x.expr, s).name = to_field(x.expr, t).name
      BY <1>1, <2>1, <3>1 DEF SameReferences
    <3> QED
      BY <1>0, <2>6, <3>2, FieldCases
  <2>7. CASE x.op = "not" \/ x.op \in BinaryOps \ (Maths \cup {"mod"})
    BY <1>0, <2>7, FieldCases
  <2>8. CASE x.op \in Maths \cup {"mod"}
    BY <1>0, <2>8, FieldCases
  <2>9. CASE x.op = "aggregate" /\ x.fn \in {"count", "count_distinct"}
    BY <1>0, <2>9, FieldCases
  <2>10. CASE x.op = "aggregate" /\ x.fn \notin {"count", "count_distinct"}
    BY <1>0, <2>10, FieldCases
  <2>11. x.op \in {"col", "index", "lit", "interval", "alias", "cast", "not", "aggregate"} \cup BinaryOps
    BY <2>2 DEF ExprShape, ExprOps, UnaryOps
  <2> QED
    BY <2>3, <2>4, <2>5, <2>6, <2>7, <2>8, <2>9, <2>10, <2>11
<1>2. LogicalExprs \subseteq S
  <2> HIDE DEF S
  <2> QED
    BY <1>1, ExprInduction
<1> QED
  BY <1>2

\* An expression that can be sent is received as it was.
LEMMA ExprSurvives ==
  \A x \in LogicalExprs : CanSerializeExpr(x) => transfer_logical_expr(x) = x
<1> DEFINE S == {x \in LogicalExprs : CanSerializeExpr(x) => transfer_logical_expr(x) = x}
<1>1. ASSUME NEW x \in LogicalExprs, operands(x) \subseteq S PROVE x \in S
  <2>1. SUFFICES ASSUME CanSerializeExpr(x) PROVE transfer_logical_expr(x) = x
    BY <1>1
  <2>2. ExprShape(x, LogicalExprs)
    BY OperandsTyped
  <2>3. x.op \in {"col", "lit"} \cup Comparisons \cup Connectives
    BY <2>1, SubexpressionsTyped DEF CanSerializeExpr, Operators
  <2>4. CASE x.op \in Comparisons \cup Connectives
    <3>1. /\ x.l \in operands(x) /\ x.r \in operands(x)
          /\ x = binary(x.op, x.l, x.r)
      BY <2>2, <2>4, OperandsOf DEF ExprShape, BinaryOps
    <3>2. CanSerializeExpr(x.l) /\ CanSerializeExpr(x.r)
      BY <2>1, <3>1, SubexpressionsTyped DEF CanSerializeExpr, Operators
    <3>3. transfer_logical_expr(x.l) = x.l /\ transfer_logical_expr(x.r) = x.r
      BY <1>1, <3>1, <3>2
    <3>4. FromWireOp(x.op) = x.op
      BY <2>4 DEF FromWireOp, Comparisons, Connectives
    <3>5. transfer_logical_expr(x) =
            binary(FromWireOp(x.op), transfer_logical_expr(x.l), transfer_logical_expr(x.r))
      BY <2>4, TransferExprOf
    <3> QED
      BY <3>1, <3>3, <3>4, <3>5
  <2>5. CASE x.op \in {"col", "lit"}
    <3>1. x.op \notin Comparisons \cup Connectives
      BY <2>5 DEF Comparisons, Connectives
    <3>2. transfer_logical_expr(x) = IF x.op = "col" THEN col(x.name) ELSE lit(x.value)
      BY <3>1, TransferExprOf
    <3> QED
      BY <2>2, <2>5, <3>2 DEF ExprShape
  <2> QED
    BY <2>3, <2>4, <2>5
<1>2. LogicalExprs \subseteq S
  <2> HIDE DEF S
  <2> QED
    BY <1>1, ExprInduction
<1> QED
  BY <1>2

\* What a node evaluates, and what names its columns, are expressions; the references
\* that schema() looks up are among those of the expressions evaluated.
LEMMA OutputExprsOf ==
  ASSUME NEW x \in LogicalPlans
  PROVE  /\ ExpressionsOf(x) \subseteq LogicalExprs
         /\ \A e \in ExpressionsOf(x) : References(e) \subseteq LogicalExprs
         /\ x.op \in {"projection", "aggregate"} =>
              /\ OutputExprs(x) \in Seq(LogicalExprs)
              /\ \A e \in ToSet(OutputExprs(x)) :
                   /\ FieldReferences(e) \subseteq SchemaReferences(x)
                   /\ e \in LogicalExprs
         /\ x.op \notin {"projection", "aggregate"} => SchemaReferences(x) = {}
         /\ \A ref \in SchemaReferences(x) :
              \E e \in ExpressionsOf(x) : ref \in References(e)
<1>1. PlanShape(x, LogicalPlans)
  BY InputsTyped
<1>2. \A e \in AggregateExprs : e \in LogicalExprs /\ e.expr \in LogicalExprs
  <2>1. \A e \in AggregateExprs : e \in LogicalExprs /\ e.op = "aggregate"
    BY DEF AggregateExprs
  <2> QED
    BY <2>1, OperandsTyped DEF ExprShape, UnaryOps
<1>3. ExpressionsOf(x) \subseteq LogicalExprs
  <2>1. CASE x.op = "projection"
    BY <1>1, <2>1 DEF ExpressionsOf, PlanShape, ToSet
  <2>2. CASE x.op = "selection"
    BY <1>1, <2>2 DEF ExpressionsOf, PlanShape
  <2>3. CASE x.op = "aggregate"
    <3>1. /\ x.group_expr \in Seq(LogicalExprs) /\ x.aggregate_expr \in Seq(AggregateExprs)
          /\ ExpressionsOf(x) = ToSet(x.group_expr)
                                  \cup {x.aggregate_expr[i].expr : i \in DOMAIN x.aggregate_expr}
      BY <1>1, <2>3 DEF ExpressionsOf, PlanShape
    <3>2. \A i \in DOMAIN x.aggregate_expr : x.aggregate_expr[i].expr \in LogicalExprs
      BY <1>2, <3>1
    <3> QED
      BY <3>1, <3>2 DEF ToSet
  <2> QED
    BY <1>1, <2>1, <2>2, <2>3 DEF ExpressionsOf, PlanShape, PlanOps
<1>4. \A e \in ExpressionsOf(x) : References(e) \subseteq LogicalExprs
  BY <1>3, SubexpressionsTyped DEF References
<1>5. CASE x.op = "projection"
  <2>1. OutputExprs(x) = x.exprs /\ x.exprs \in Seq(LogicalExprs)
    BY <1>1, <1>5 DEF OutputExprs, PlanShape
  <2>2. ToSet(x.exprs) \subseteq LogicalExprs
    BY <2>1 DEF ToSet
  <2>3. SchemaReferences(x) = UNION {FieldReferences(e) : e \in ToSet(x.exprs)}
    BY <1>5, <2>1 DEF SchemaReferences
  <2>4. ExpressionsOf(x) = ToSet(x.exprs)
    BY <1>5 DEF ExpressionsOf
  <2>5. \A e \in ToSet(x.exprs) : FieldReferences(e) \subseteq References(e)
    BY <2>2, FieldReferencesAmong
  <2> QED
    BY <1>3, <1>4, <1>5, <2>1, <2>2, <2>3, <2>4, <2>5
<1>6. CASE x.op = "aggregate"
  <2>1. /\ x.group_expr \in Seq(LogicalExprs) /\ x.aggregate_expr \in Seq(AggregateExprs)
        /\ OutputExprs(x) = x.group_expr \o x.aggregate_expr
    BY <1>1, <1>6 DEF OutputExprs, PlanShape
  <2>2. x.aggregate_expr \in Seq(LogicalExprs)
    BY <1>2, <2>1
  <2>3. /\ OutputExprs(x) \in Seq(LogicalExprs)
        /\ ToSet(OutputExprs(x)) = ToSet(x.group_expr) \cup ToSet(x.aggregate_expr)
    BY <2>1, <2>2, ElementsOfBoth
  <2>4. ToSet(x.group_expr) \subseteq LogicalExprs /\ ToSet(x.aggregate_expr) \subseteq AggregateExprs
    BY <2>1 DEF ToSet
  <2>5. SchemaReferences(x) = UNION {FieldReferences(e) : e \in ToSet(OutputExprs(x))}
    BY <1>6 DEF SchemaReferences
  <2>6. ExpressionsOf(x) = ToSet(x.group_expr) \cup {a.expr : a \in ToSet(x.aggregate_expr)}
    <3>1. ExpressionsOf(x) = ToSet(x.group_expr)
                               \cup {x.aggregate_expr[i].expr : i \in DOMAIN x.aggregate_expr}
      BY <1>6 DEF ExpressionsOf
    <3>2. {x.aggregate_expr[i].expr : i \in DOMAIN x.aggregate_expr} =
            {a.expr : a \in ToSet(x.aggregate_expr)}
      <4>1. \A a : a \in ToSet(x.aggregate_expr) <=> \E i \in DOMAIN x.aggregate_expr : x.aggregate_expr[i] = a
        BY DEF ToSet
      <4> QED
        BY <4>1
    <3> QED
      BY <3>1, <3>2
  <2>7. \A e \in ToSet(OutputExprs(x)) :
          \E y \in ExpressionsOf(x) : FieldReferences(e) \subseteq References(y)
    <3>1. ASSUME NEW e \in ToSet(x.group_expr)
          PROVE  \E y \in ExpressionsOf(x) : FieldReferences(e) \subseteq References(y)
      BY <2>4, <2>6, FieldReferencesAmong
    <3>2. ASSUME NEW e \in ToSet(x.aggregate_expr)
          PROVE  \E y \in ExpressionsOf(x) : FieldReferences(e) \subseteq References(y)
      <4>1. e \in LogicalExprs /\ e.op = "aggregate" /\ e.expr \in LogicalExprs
        BY <1>2, <2>4 DEF AggregateExprs
      <4>2. FieldReferences(e) \subseteq FieldReferences(e.expr)
        BY <4>1, FieldReferencesCases
      <4>3. FieldReferences(e) \subseteq References(e.expr)
        BY <4>1, <4>2, FieldReferencesAmong
      <4>4. e.expr \in ExpressionsOf(x)
        BY <2>6
      <4> QED
        BY <4>3, <4>4
    <3> QED
      BY <2>3, <3>1, <3>2
  <2>8. \A e \in ToSet(OutputExprs(x)) : e \in LogicalExprs
    BY <1>2, <2>3, <2>4
  <2> QED
    BY <1>3, <1>4, <1>6, <2>3, <2>5, <2>7, <2>8
<1>7. CASE x.op \notin {"projection", "aggregate"}
  BY <1>3, <1>4, <1>7 DEF SchemaReferences
<1> QED
  BY <1>5, <1>6, <1>7

\* A plan whose schema() returns has a schema.
LEMMA SchemaTyped ==
  \A x \in LogicalPlans : HasSchema(x) => schema(x) \in Seq(Fields)
<1> DEFINE S == {x \in LogicalPlans : HasSchema(x) => schema(x) \in Seq(Fields)}
<1>1. ASSUME NEW x \in LogicalPlans, children(x) \subseteq S PROVE x \in S
  <2>1. SUFFICES ASSUME HasSchema(x) PROVE schema(x) \in Seq(Fields)
    BY <1>1
  <2>2. PlanShape(x, LogicalPlans)
    BY InputsTyped
  <2>3. /\ \A c \in children(x) : HasSchema(c) /\ schema(c) \in Seq(Fields)
        /\ \A ref \in SchemaReferences(x) : Resolved(ref, schema(x.input))
        /\ x.op = "scan" => ToSet(x.projection) \subseteq ToSet(Names(source_schema(x.source)))
    BY <1>1, <2>1, HasSchemaOf
  <2>4. CASE x.op = "scan"
    <3>1. x.source \in DataSources /\ x.projection \in Seq(STRING)
      BY <2>2, <2>4 DEF PlanShape
    <3> DEFINE s == source_schema(x.source)
    <3>2. s \in Seq(Fields) /\ ToSet(x.projection) \subseteq ColumnNames(s)
      BY <2>3, <2>4, <3>1, SourceSchemaFields DEF ColumnNames
    <3>3. schema(x) = IF x.projection = <<>> THEN s ELSE select(s, x.projection)
      BY <2>4, SchemaOf
    <3> HIDE DEF s
    <3>4. select(s, x.projection) \in Seq(Fields)
      BY <3>1, <3>2, NamesOfSelect
    <3> QED
      BY <3>2, <3>3, <3>4
  <2>5. CASE x.op \in {"projection", "aggregate"}
    <3> DEFINE s == schema(x.input)
               exprs == OutputExprs(x)
    <3>1. s \in Seq(Fields)
      BY <2>2, <2>3, <2>5 DEF PlanShape
    <3>2. schema(x) = [i \in DOMAIN exprs |-> to_field(exprs[i], s)]
      BY <2>5, SchemaOf
    <3>3. exprs \in Seq(LogicalExprs) /\ \A e \in ToSet(exprs) : FieldReferences(e) \subseteq SchemaReferences(x)
      BY <2>5, OutputExprsOf
    <3>4. \A ref \in SchemaReferences(x) : Resolved(ref, s)
      BY <2>3
    <3> HIDE DEF s, exprs
    <3>5. \A i \in DOMAIN exprs : to_field(exprs[i], s) \in Fields
      <4> TAKE i \in DOMAIN exprs
      <4>1. exprs[i] \in LogicalExprs /\ exprs[i] \in ToSet(exprs)
        BY <3>3 DEF ToSet
      <4>2. \A ref \in FieldReferences(exprs[i]) : Resolved(ref, s)
        BY <3>3, <3>4, <4>1
      <4> QED
        BY <3>1, <4>1, <4>2, FieldTyped
    <3>6. DOMAIN exprs = 1..Len(exprs) /\ Len(exprs) \in Nat
      BY <3>3
    <3> QED
      BY <3>2, <3>5, <3>6
  <2>6. CASE x.op = "join"
    <3> DEFINE l == schema(x.left)
               r == schema(x.right)
    <3>1. l \in Seq(Fields) /\ r \in Seq(Fields)
      BY <2>2, <2>3, <2>6 DEF PlanShape
    <3>2. schema(x) = Join_schema(x.join_type, l, r, x.on)
      BY <2>6, SchemaOf
    <3> HIDE DEF l, r
    <3> QED
      BY <3>1, <3>2, NamesOfJoin
  <2>7. CASE x.op \in {"selection", "limit"}
    BY <2>2, <2>3, <2>7, SchemaOf DEF PlanShape
  <2> QED
    BY <2>2, <2>4, <2>5, <2>6, <2>7 DEF PlanShape, PlanOps
<1>2. LogicalPlans \subseteq S
  <2> HIDE DEF S
  <2> QED
    BY <1>1, PlanInduction
<1> QED
  BY <1>2

-------------------------------------------------------------------------------
(* What holds of every node of a plan holds of its root and of its inputs. *)

\* Every name and index of the node refers to a column.
WellFormedNode(n) ==
    /\ HasSchema(n)
    /\ KeysResolve(n)
    /\ \A e \in ExpressionsOf(n) : \A ref \in References(e) : Resolved(ref, schema(n.input))

\* The node has a physical operator.
LowerableNode(n) ==
    /\ HasSchema(n)
    /\ KeysResolve(n)
    /\ n.op = "aggregate" => \A a \in ToSet(n.aggregate_expr) : a.fn # "count_distinct"
    /\ \A e \in ExpressionsOf(n) :
         /\ Operators(e) \cap Unplannable = {}
         /\ \A ref \in References(e) : ref.op = "col" => Resolved(ref, schema(n.input))

\* The node uses supported operators only.
SupportedNode(n) ==
    /\ n.op = "aggregate" => \A a \in ToSet(n.aggregate_expr) : a.fn # "count_distinct"
    /\ \A e \in ExpressionsOf(n) : Operators(e) \cap {"not", "mod", "aggregate"} = {}

\* The node's indices refer to columns that its input names.
StableNode(n) ==
    \A e \in ExpressionsOf(n) : \A ref \in References(e) :
        ref.op = "index" => NamesItsColumns(n.input)

\* The node can be sent, and read where it arrives.
SurvivesTransferNode(n) ==
    /\ n.op = "scan" => n.source.kind \in {"csv", "parquet"}
    /\ \A e \in ExpressionsOf(n) : CanSerializeExpr(e)
    /\ n.op # "join"
    /\ n.op = "scan" /\ n.source.kind = "csv" => n.source.schema = <<>>

\* A plan that reaches a server as it was, but for batch sizes and limits.
SurvivesTransfer(p) == \A n \in Nodes(p) : SurvivesTransferNode(n)

\* The predicates on plans, node by node.
LEMMA NodeByNode ==
  ASSUME NEW x \in LogicalPlans
  PROVE  /\ WellFormed(x) <=> WellFormedNode(x) /\ \A c \in children(x) : WellFormed(c)
         /\ Lowerable(x) <=> LowerableNode(x) /\ \A c \in children(x) : Lowerable(c)
         /\ Supported(x) <=> SupportedNode(x) /\ \A c \in children(x) : Supported(c)
         /\ StableIndices(x) <=> StableNode(x) /\ \A c \in children(x) : StableIndices(c)
         /\ SurvivesTransfer(x) <=> SurvivesTransferNode(x) /\ \A c \in children(x) : SurvivesTransfer(c)
         /\ ScansEverything(x) <=>
              /\ x.op = "scan" => x.projection = <<>>
              /\ \A c \in children(x) : ScansEverything(c)
<1>1. Nodes(x) = {x} \cup UNION {Nodes(c) : c \in children(x)}
  BY NodesOf
<1>2. WellFormed(x) <=> WellFormedNode(x) /\ \A c \in children(x) : WellFormed(c)
  <2>1. \A p : WellFormed(p) <=> \A n \in Nodes(p) : WellFormedNode(n)
    BY DEF WellFormed, WellFormedNode
  <2> QED
    BY <1>1, <2>1
<1>3. Lowerable(x) <=> LowerableNode(x) /\ \A c \in children(x) : Lowerable(c)
  <2>1. \A p : Lowerable(p) <=> \A n \in Nodes(p) : LowerableNode(n)
    BY DEF Lowerable, LowerableNode
  <2> QED
    BY <1>1, <2>1
<1>4. Supported(x) <=> SupportedNode(x) /\ \A c \in children(x) : Supported(c)
  <2>1. \A p : Supported(p) <=> \A n \in Nodes(p) : SupportedNode(n)
    BY DEF Supported, SupportedNode
  <2> QED
    BY <1>1, <2>1
<1>5. StableIndices(x) <=> StableNode(x) /\ \A c \in children(x) : StableIndices(c)
  <2>1. \A p : StableIndices(p) <=> \A n \in Nodes(p) : StableNode(n)
    BY DEF StableIndices, StableNode
  <2> QED
    BY <1>1, <2>1
<1>6. SurvivesTransfer(x) <=> SurvivesTransferNode(x) /\ \A c \in children(x) : SurvivesTransfer(c)
  <2>1. \A p : SurvivesTransfer(p) <=> \A n \in Nodes(p) : SurvivesTransferNode(n)
    BY DEF SurvivesTransfer
  <2> QED
    BY <1>1, <2>1
<1>7. ScansEverything(x) <=>
        /\ x.op = "scan" => x.projection = <<>>
        /\ \A c \in children(x) : ScansEverything(c)
  <2>1. \A p : ScansEverything(p) <=> \A n \in Nodes(p) : n.op = "scan" => n.projection = <<>>
    BY DEF ScansEverything
  <2> QED
    BY <1>1, <2>1
<1> QED
  BY <1>2, <1>3, <1>4, <1>5, <1>6, <1>7

-------------------------------------------------------------------------------
(* Plans with other inputs. *)

\* The operators with one input.
Unary == {"projection", "selection", "aggregate", "limit"}

\* A node with another input, of the level below, is of the same level.
LEMMA WithInput ==
  ASSUME NEW k \in 1..MaxPlanDepth, NEW x \in LogicalPlansWithin(k), x.op \in Unary,
         NEW y \in LogicalPlansWithin(k - 1)
  PROVE  [x EXCEPT !.input = y] \in LogicalPlansWithin(k)
<1> DEFINE inner == LogicalPlansWithin(k - 1)
           z == [x EXCEPT !.input = y]
<1>1. /\ k \in 0..MaxPlanDepth /\ k # 0
      /\ LogicalPlansWithin(k) = PlanForms(inner, LogicalExprs)
  BY PlanLevels, PlanDepthAssumption
<1>2. PlanShape(x, inner)
  BY <1>1, InputsTyped
<1> HIDE DEF inner
<1>3. y \in inner
  BY DEF inner
<1>4. CASE x.op = "projection"
  <2>1. x.exprs \in Seq(LogicalExprs) /\ z = Projection(y, x.exprs)
    BY <1>2, <1>4 DEF PlanShape, Projection
  <2> QED
    BY <1>1, <1>3, <2>1 DEF PlanForms, Projection
<1>5. CASE x.op = "selection"
  <2>1. x.expr \in LogicalExprs /\ z = Selection(y, x.expr)
    BY <1>2, <1>5 DEF PlanShape, Selection
  <2> QED
    BY <1>1, <1>3, <2>1 DEF PlanForms, Selection
<1>6. CASE x.op = "aggregate"
  <2>1. /\ x.group_expr \in Seq(LogicalExprs) /\ x.aggregate_expr \in Seq(AggregateExprs)
        /\ z = Aggregate(y, x.group_expr, x.aggregate_expr)
    BY <1>2, <1>6 DEF PlanShape, Aggregate
  <2> QED
    BY <1>1, <1>3, <2>1 DEF PlanForms, Aggregate, AggregateExprs
<1>7. CASE x.op = "limit"
  <2>1. x.limit \in Int /\ z = Limit(y, x.limit)
    BY <1>2, <1>7 DEF PlanShape, Limit
  <2> QED
    BY <1>1, <1>3, <2>1 DEF PlanForms, Limit
<1> QED
  BY <1>4, <1>5, <1>6, <1>7 DEF Unary

\* Only its input is another.
LEMMA WithInputParts ==
  ASSUME NEW x \in LogicalPlans, x.op \in Unary, NEW y, NEW z, z = [x EXCEPT !.input = y]
  PROVE  /\ z.op = x.op
         /\ z.input = y
         /\ children(z) = {y}
         /\ ExpressionsOf(z) = ExpressionsOf(x)
         /\ x.op \in {"projection", "aggregate"} => OutputExprs(z) = OutputExprs(x)
         /\ x.op = "aggregate" => z.aggregate_expr = x.aggregate_expr
<1>1. PlanShape(x, LogicalPlans)
  BY InputsTyped
<1>2. CASE x.op = "projection"
  <2>1. z = Projection(y, x.exprs)
    BY <1>1, <1>2 DEF PlanShape, Projection
  <2> QED
    BY <1>2, <2>1 DEF Projection, children, ExpressionsOf, OutputExprs
<1>3. CASE x.op = "selection"
  <2>1. z = Selection(y, x.expr)
    BY <1>1, <1>3 DEF PlanShape, Selection
  <2> QED
    BY <1>3, <2>1 DEF Selection, children, ExpressionsOf
<1>4. CASE x.op = "aggregate"
  <2>1. z = Aggregate(y, x.group_expr, x.aggregate_expr)
    BY <1>1, <1>4 DEF PlanShape, Aggregate
  <2> QED
    BY <1>4, <2>1 DEF Aggregate, children, ExpressionsOf, OutputExprs
<1>5. CASE x.op = "limit"
  <2>1. z = Limit(y, x.limit)
    BY <1>1, <1>5 DEF PlanShape, Limit
  <2> QED
    BY <1>5, <2>1 DEF Limit, children, ExpressionsOf
<1> QED
  BY <1>2, <1>3, <1>4, <1>5 DEF Unary

\* A join of two other plans.
LEMMA WithInputs ==
  ASSUME NEW k \in 1..MaxPlanDepth, NEW x \in LogicalPlansWithin(k), x.op = "join",
         NEW l \in LogicalPlansWithin(k - 1), NEW r \in LogicalPlansWithin(k - 1)
  PROVE  /\ [x EXCEPT !.left = l, !.right = r] = Join(l, r, x.join_type, x.on)
         /\ Join(l, r, x.join_type, x.on) \in LogicalPlansWithin(k)
<1> DEFINE inner == LogicalPlansWithin(k - 1)
<1>1. /\ k \in 0..MaxPlanDepth /\ k # 0
      /\ LogicalPlansWithin(k) = PlanForms(inner, LogicalExprs)
  BY PlanLevels, PlanDepthAssumption
<1>2. PlanShape(x, inner)
  BY <1>1, InputsTyped
<1> HIDE DEF inner
<1>3. l \in inner /\ r \in inner
  BY DEF inner
<1>4. x = Join(x.left, x.right, x.join_type, x.on) /\ x.join_type \in JoinTypes /\ x.on \in Seq(STRING \X STRING)
  BY <1>2 DEF PlanShape
<1>5. [x EXCEPT !.left = l, !.right = r] = Join(l, r, x.join_type, x.on)
  <2>1. ASSUME NEW z, z = [x EXCEPT !.left = l, !.right = r]
        PROVE  z = Join(l, r, x.join_type, x.on)
    BY <1>4, <2>1 DEF Join
  <2> QED
    BY <2>1
<1>6. Join(l, r, x.join_type, x.on) \in PlanForms(inner, LogicalExprs)
  BY <1>3, <1>4 DEF PlanForms, Join
<1> QED
  BY <1>1, <1>5, <1>6

\* A scan that push-down narrowed: it scans columns of its source.
LEMMA NarrowedScan ==
  ASSUME NEW k \in 0..MaxPlanDepth, NEW x \in LogicalPlansWithin(k), x.op = "scan", NEW names
  PROVE  /\ NarrowScan(x, names) \in LogicalPlansWithin(k)
         /\ NarrowScan(x, names).op = "scan"
         /\ NarrowScan(x, names).source = x.source
         /\ NarrowScan(x, names).projection \in Seq(STRING)
         /\ ToSet(NarrowScan(x, names).projection) \subseteq ColumnNames(source_schema(x.source))
<1> DEFINE inner == IF k = 0 THEN {} ELSE LogicalPlansWithin(k - 1)
           kept == names \cap ToSet(Names(source_schema(x.source)))
           projection == Among(Alphabet, kept)
           z == NarrowScan(x, names)
<1>1. LogicalPlansWithin(k) = PlanForms(inner, LogicalExprs)
  BY PlanLevels
<1>2. PlanShape(x, inner)
  BY InputsTyped
<1>3. x.source \in DataSources /\ x = Scan(x.source, x.projection)
  BY <1>2 DEF PlanShape
<1>4. z = [x EXCEPT !.projection = projection]
  BY DEF NarrowScan
<1>5. projection \in Seq(STRING) /\ ToSet(projection) \subseteq ColumnNames(source_schema(x.source))
  <2>1. projection \in Seq(STRING) /\ ToSet(projection) = ToSet(Alphabet) \cap kept
    BY AlphabetAssumption, AmongElements
  <2> QED
    BY <2>1 DEF ColumnNames
<1> HIDE DEF inner, projection
<1>6. z = Scan(x.source, projection)
  BY <1>3, <1>4 DEF Scan
<1> HIDE DEF z
<1>7. z \in PlanForms(inner, LogicalExprs)
  BY <1>3, <1>5, <1>6 DEF PlanForms, Scan
<1>8. z.op = "scan" /\ z.source = x.source /\ z.projection = projection
  BY <1>6 DEF Scan
<1> QED
  BY <1>1, <1>5, <1>7, <1>8 DEF z

-------------------------------------------------------------------------------
(* Push-down returns a plan of the same depth and asks for names. *)

\* What push-down returns for a plan nested at most k deep.
PushDownResults(k) == [plan : LogicalPlansWithin(k), names : SUBSET STRING, panic : BOOLEAN]

\* It returns one of those whatever it is asked for.
PushDownTyped(x, k) == \A n \in SUBSET STRING : push_down(x, n) \in PushDownResults(k)

\* Push-down asks for names.
LEMMA ExtractedNames ==
  ASSUME NEW x \in LogicalPlans, NEW input \in LogicalPlans,
         NEW e \in ExpressionsOf(x), Extractable(e, input)
  PROVE  extract_columns(e, input) \subseteq STRING
<1>1. ASSUME NEW ref \in References(e)
      PROVE  (IF ref.op = "col" THEN ref.name ELSE schema(input)[ref.i].name) \in STRING
  <2>1. ref \in LogicalExprs /\ ref.op \in {"col", "index"}
    BY OutputExprsOf DEF References
  <2>2. CASE ref.op = "col"
    BY <2>1, <2>2, OperandsTyped DEF ExprShape
  <2>3. CASE ref.op = "index"
    <3>1. HasSchema(input) /\ ref.i \in DOMAIN schema(input)
      BY <2>3 DEF Extractable, Resolved
    <3>2. schema(input) \in Seq(Fields)
      BY <3>1, SchemaTyped
    <3>3. schema(input)[ref.i] \in Fields
      BY <3>1, <3>2
    <3> QED
      BY <2>3, <3>3 DEF Fields
  <2> QED
    BY <2>1, <2>2, <2>3
<1> QED
  BY <1>1 DEF extract_columns

\* What a join asks for.
LEMMA JoinColumnsNames ==
  ASSUME NEW x \in LogicalPlans, x.op = "join", NEW n \in SUBSET STRING,
         n # {} \/ (HasSchema(x.left) /\ HasSchema(x.right))
  PROVE  JoinColumns(x, n) \in SUBSET STRING
<1>1. x.left \in LogicalPlans /\ x.right \in LogicalPlans /\ x.on \in Seq(STRING \X STRING)
  BY InputsTyped DEF PlanShape
<1>2. n = {} => /\ ToSet(Names(schema(x.left))) \subseteq STRING
                /\ ToSet(Names(schema(x.right))) \subseteq STRING
  <2>1. SUFFICES ASSUME n = {} PROVE /\ ToSet(Names(schema(x.left))) \subseteq STRING
                                     /\ ToSet(Names(schema(x.right))) \subseteq STRING
    OBVIOUS
  <2>2. schema(x.left) \in Seq(Fields) /\ schema(x.right) \in Seq(Fields)
    BY <1>1, <2>1, SchemaTyped
  <2> QED
    BY <2>2, NamesOfFields DEF ColumnNames
<1>3. \A i \in DOMAIN x.on : ToSet(x.on[i]) \subseteq STRING
  <2> TAKE i \in DOMAIN x.on
  <2>1. x.on[i] \in STRING \X STRING
    BY <1>1
  <2>2. DOMAIN x.on[i] = 1..2 /\ x.on[i][1] \in STRING /\ x.on[i][2] \in STRING
    BY <2>1
  <2> QED
    BY <2>2 DEF ToSet
<1>4. UNION {ToSet(x.on[i]) : i \in DOMAIN x.on} \subseteq STRING
  BY <1>3
<1> QED
  BY <1>2, <1>4 DEF JoinColumns

\* A scan is narrowed.
LEMMA PushDownScan ==
  ASSUME NEW k \in 0..MaxPlanDepth, NEW x \in LogicalPlansWithin(k), x.op = "scan",
         NEW n \in SUBSET STRING
  PROVE  /\ push_down(x, n) \in PushDownResults(k)
         /\ push_down(x, n).plan = NarrowScan(x, n)
<1>1. x \in LogicalPlans
  BY PlanTower
<1>2. push_down(x, n) = Pushed(NarrowScan(x, n), n, FALSE)
  BY <1>1, PushDownOf DEF PushDownStep
<1>3. NarrowScan(x, n) \in LogicalPlansWithin(k)
  BY NarrowedScan
<1> QED
  BY <1>2, <1>3 DEF Pushed, PushDownResults

\* A node with one input gets its input's narrowed plan, if every column it refers to by
\* index is there.
LEMMA PushDownUnary ==
  ASSUME NEW k \in 1..MaxPlanDepth, NEW x \in LogicalPlansWithin(k), x.op \in Unary,
         PushDownTyped(x.input, k - 1), NEW n \in SUBSET STRING
  PROVE  /\ push_down(x, n) \in PushDownResults(k)
         /\ ~push_down(x, n).panic =>
              /\ \A e \in ExpressionsOf(x) : Extractable(e, x.input)
              /\ \E m \in SUBSET STRING :
                   /\ ~push_down(x.input, m).panic
                   /\ push_down(x, n).plan = [x EXCEPT !.input = push_down(x.input, m).plan]
         /\ (\A e \in ExpressionsOf(x) : Extractable(e, x.input)) =>
              \E m \in SUBSET STRING :
                /\ m = n \cup UNION {extract_columns(e, x.input) : e \in ExpressionsOf(x)}
                /\ push_down(x, n).panic = push_down(x.input, m).panic
                /\ push_down(x, n).names = push_down(x.input, m).names
                /\ push_down(x, n).plan = [x EXCEPT !.input = push_down(x.input, m).plan]
<1>0. k \in 0..MaxPlanDepth
  BY PlanDepthAssumption
<1>1. x \in LogicalPlans
  BY <1>0, PlanTower
<1>2. x.op \notin {"scan", "join"}
  BY DEF Unary
<1>3. x.input \in LogicalPlans
  BY <1>1, InputsTyped DEF PlanShape, Unary
<1>4. push_down(x, n) = PushDownStep(x, n)
  BY <1>1, PushDownOf
<1>5. CASE \E e \in ExpressionsOf(x) : ~Extractable(e, x.input)
  <2>1. push_down(x, n) = Pushed(x, n, TRUE)
    BY <1>2, <1>4, <1>5 DEF PushDownStep
  <2>2. push_down(x, n) \in PushDownResults(k) /\ push_down(x, n).panic
    BY <2>1 DEF Pushed, PushDownResults
  <2> QED
    BY <1>5, <2>2
<1>6. CASE \A e \in ExpressionsOf(x) : Extractable(e, x.input)
  <2> DEFINE used == UNION {extract_columns(e, x.input) : e \in ExpressionsOf(x)}
             m == n \cup used
             input == push_down(x.input, m)
             new == [x EXCEPT !.input = input.plan]
  <2>1. push_down(x, n) = [input EXCEPT !.plan = new]
    BY <1>2, <1>4, <1>6 DEF PushDownStep
  <2>2. m \in SUBSET STRING
    BY <1>1, <1>3, <1>6, ExtractedNames
  <2> HIDE DEF m
  <2>3. input \in PushDownResults(k - 1)
    BY <2>2 DEF PushDownTyped
  <2>4. input.plan \in LogicalPlansWithin(k - 1)
    BY <2>3 DEF PushDownResults
  <2>5. new \in LogicalPlansWithin(k)
    BY <2>4, WithInput
  <2>6. ASSUME NEW v, NEW w, w \in PushDownResults(k - 1), v \in LogicalPlansWithin(k)
        PROVE  /\ [w EXCEPT !.plan = v] \in PushDownResults(k)
               /\ [w EXCEPT !.plan = v].plan = v
               /\ [w EXCEPT !.plan = v].panic = w.panic
               /\ [w EXCEPT !.plan = v].names = w.names
    BY <2>6 DEF PushDownResults
  <2> HIDE DEF input, new
  <2>7. push_down(x, n) \in PushDownResults(k) /\ push_down(x, n).plan = new
        /\ push_down(x, n).panic = input.panic /\ push_down(x, n).names = input.names
    BY <2>1, <2>3, <2>5, <2>6
  <2>8. m \in SUBSET STRING /\ m = n \cup used
    BY <2>2 DEF m
  <2> HIDE DEF used
  <2> QED
    BY <1>6, <2>7, <2>8 DEF input, new, used
<1> QED
  BY <1>5, <1>6

\* A join gets both inputs' narrowed plans.
LEMMA PushDownJoin ==
  ASSUME NEW k \in 1..MaxPlanDepth, NEW x \in LogicalPlansWithin(k), x.op = "join",
         PushDownTyped(x.left, k - 1), PushDownTyped(x.right, k - 1), NEW n \in SUBSET STRING
  PROVE  /\ push_down(x, n) \in PushDownResults(k)
         /\ ~push_down(x, n).panic =>
              \E l, r \in SUBSET STRING :
                /\ ~push_down(x.left, l).panic /\ ~push_down(x.right, r).panic
                /\ push_down(x, n).plan =
                     Join(push_down(x.left, l).plan, push_down(x.right, r).plan, x.join_type, x.on)
         /\ n # {} \/ (HasSchema(x.left) /\ HasSchema(x.right)) =>
              \E m \in SUBSET STRING : \E l \in SUBSET STRING :
                /\ m = JoinColumns(x, n)
                /\ l = push_down(x.left, m).names
                /\ push_down(x, n).panic = (push_down(x.left, m).panic \/ push_down(x.right, l).panic)
                /\ push_down(x, n).names = push_down(x.right, l).names
                /\ push_down(x, n).plan =
                     Join(push_down(x.left, m).plan, push_down(x.right, l).plan, x.join_type, x.on)
<1>0. k \in 0..MaxPlanDepth
  BY PlanDepthAssumption
<1>1. x \in LogicalPlans
  BY <1>0, PlanTower
<1>2. push_down(x, n) = PushDownStep(x, n)
  BY <1>1, PushDownOf
<1>3. CASE n = {} /\ ~(HasSchema(x.left) /\ HasSchema(x.right))
  <2>1. push_down(x, n) = Pushed(x, n, TRUE)
    BY <1>2, <1>3 DEF PushDownStep
  <2>2. push_down(x, n) \in PushDownResults(k) /\ push_down(x, n).panic
    BY <2>1 DEF Pushed, PushDownResults
  <2> QED
    BY <1>3, <2>2
<1>4. CASE n # {} \/ (HasSchema(x.left) /\ HasSchema(x.right))
  <2> DEFINE m == JoinColumns(x, n)
             left == push_down(x.left, m)
             right == push_down(x.right, left.names)
             new == [x EXCEPT !.left = left.plan, !.right = right.plan]
  <2>1. push_down(x, n) = PushedJoin(x, left, right)
    BY <1>2, <1>4 DEF PushDownStep
  <2>2. m \in SUBSET STRING
    BY <1>1, <1>4, JoinColumnsNames
  <2> HIDE DEF m
  <2>3. left \in PushDownResults(k - 1)
    BY <2>2 DEF PushDownTyped
  <2>4. left.plan \in LogicalPlansWithin(k - 1) /\ left.names \in SUBSET STRING /\ left.panic \in BOOLEAN
    BY <2>3 DEF PushDownResults
  <2>5. right \in PushDownResults(k - 1)
    BY <2>4 DEF PushDownTyped
  <2>6. right.plan \in LogicalPlansWithin(k - 1) /\ right.names \in SUBSET STRING /\ right.panic \in BOOLEAN
    BY <2>5 DEF PushDownResults
  <2>7. new \in LogicalPlansWithin(k) /\ new = Join(left.plan, right.plan, x.join_type, x.on)
    <3> DEFINE p == left.plan
               q == right.plan
    <3>1. p \in LogicalPlansWithin(k - 1) /\ q \in LogicalPlansWithin(k - 1)
      BY <2>4, <2>6
    <3> HIDE DEF p, q
    <3>2. /\ [x EXCEPT !.left = p, !.right = q] = Join(p, q, x.join_type, x.on)
          /\ Join(p, q, x.join_type, x.on) \in LogicalPlansWithin(k)
      BY <3>1, WithInputs
    <3> QED
      BY <3>2 DEF p, q
  <2> DEFINE panics == left.panic \/ right.panic
  <2>8. push_down(x, n) = Pushed(new, right.names, panics)
    BY <2>1 DEF PushedJoin
  <2>9. panics \in BOOLEAN /\ (~panics => ~left.panic /\ ~right.panic)
    BY <2>4, <2>6
  <2> HIDE DEF left, right, new, panics
  <2>10. /\ push_down(x, n) \in PushDownResults(k)
         /\ push_down(x, n).plan = new
         /\ push_down(x, n).panic = panics
         /\ push_down(x, n).names = right.names
    BY <2>6, <2>7, <2>8, <2>9 DEF Pushed, PushDownResults
  <2>11. m \in SUBSET STRING /\ m = JoinColumns(x, n) /\ left.names \in SUBSET STRING
    BY <2>2, <2>4 DEF m
  <2>12. ~push_down(x, n).panic =>
              \E l, r \in SUBSET STRING :
                /\ ~push_down(x.left, l).panic /\ ~push_down(x.right, r).panic
                /\ push_down(x, n).plan =
                     Join(push_down(x.left, l).plan, push_down(x.right, r).plan, x.join_type, x.on)
    BY <2>7, <2>9, <2>10, <2>11 DEF left, right
  <2>13. \E l \in SUBSET STRING :
                /\ l = push_down(x.left, m).names
                /\ push_down(x, n).panic = (push_down(x.left, m).panic \/ push_down(x.right, l).panic)
                /\ push_down(x, n).names = push_down(x.right, l).names
                /\ push_down(x, n).plan =
                     Join(push_down(x.left, m).plan, push_down(x.right, l).plan, x.join_type, x.on)
    BY <2>7, <2>10, <2>11 DEF left, right, panics
  <2> QED
    BY <2>10, <2>11, <2>12, <2>13
<1> QED
  BY <1>3, <1>4

\* Push-down returns a plan of the same depth, whatever it is asked for.
LEMMA PushDownType ==
  \A k \in 0..MaxPlanDepth : \A x \in LogicalPlansWithin(k) : PushDownTyped(x, k)
<1> DEFINE S == {x \in LogicalPlans :
                   \A k \in 0..MaxPlanDepth : x \in LogicalPlansWithin(k) => PushDownTyped(x, k)}
<1>1. ASSUME NEW x \in LogicalPlans, children(x) \subseteq S PROVE x \in S
  <2>1. SUFFICES ASSUME NEW k \in 0..MaxPlanDepth, x \in LogicalPlansWithin(k) PROVE PushDownTyped(x, k)
    BY <1>1
  <2>2. /\ PlanShape(x, IF k = 0 THEN {} ELSE LogicalPlansWithin(k - 1))
        /\ k = 0 => children(x) = {}
    BY <2>1, InputsTyped
  <2>3. CASE x.op = "scan"
    BY <2>1, <2>3, PushDownScan DEF PushDownTyped
  <2>4. CASE x.op \in Unary
    <3>1. children(x) = {x.input} /\ x.input \in IF k = 0 THEN {} ELSE LogicalPlansWithin(k - 1)
      BY <2>2, <2>4 DEF PlanShape, Unary
    <3>2. k \in 1..MaxPlanDepth /\ k - 1 \in 0..MaxPlanDepth /\ x.input \in LogicalPlansWithin(k - 1)
      BY <2>1, <3>1, PlanDepthAssumption
    <3>3. PushDownTyped(x.input, k - 1)
      BY <1>1, <3>1, <3>2
    <3> QED
      BY <2>1, <2>4, <3>2, <3>3, PushDownUnary DEF PushDownTyped
  <2>5. CASE x.op = "join"
    <3>1. /\ children(x) = {x.left, x.right}
          /\ x.left \in IF k = 0 THEN {} ELSE LogicalPlansWithin(k - 1)
          /\ x.right \in IF k = 0 THEN {} ELSE LogicalPlansWithin(k - 1)
      BY <2>2, <2>5 DEF PlanShape
    <3>2. k \in 1..MaxPlanDepth /\ k - 1 \in 0..MaxPlanDepth
          /\ x.left \in LogicalPlansWithin(k - 1) /\ x.right \in LogicalPlansWithin(k - 1)
      BY <2>1, <3>1, PlanDepthAssumption
    <3>3. PushDownTyped(x.left, k - 1) /\ PushDownTyped(x.right, k - 1)
      BY <1>1, <3>1, <3>2
    <3> QED
      BY <2>1, <2>5, <3>2, <3>3, PushDownJoin DEF PushDownTyped
  <2> QED
    BY <2>2, <2>3, <2>4, <2>5 DEF PlanShape, PlanOps, Unary
<1>2. LogicalPlans \subseteq S
  <2> HIDE DEF S
  <2> QED
    BY <1>1, PlanInduction
<1> QED
  BY <1>2, PlanTower

-------------------------------------------------------------------------------
(* What push-down keeps: a plan whose narrowed form can be lowered is well     *)
(* formed, and the narrowed form has no column that the plan does not have.    *)

\* The plan p, of which push-down made q, is well formed, and q has some of its columns,
\* all of them in their places if p names them.
Narrowed(p, q) ==
    /\ WellFormed(p)
    /\ Supported(p)
    /\ ColumnNames(schema(q)) \subseteq ColumnNames(schema(p))
    /\ NamesItsColumns(p) => Names(schema(q)) = Names(schema(p))

\* A name that a narrowed schema has is in the schema.
LEMMA NamesStayResolved ==
  ASSUME NEW s \in Seq(Fields), NEW t \in Seq(Fields), ColumnNames(t) \subseteq ColumnNames(s),
         NEW name, position(t, name) # 0
  PROVE  position(s, name) # 0
BY PositionOfName

\* A scan of everything that was narrowed.
LEMMA NarrowedScanKept ==
  ASSUME NEW x \in LogicalPlans, x.op = "scan", x.projection = <<>>, NEW names
  PROVE  Narrowed(x, NarrowScan(x, names))
<1> DEFINE s == source_schema(x.source)
           z == NarrowScan(x, names)
<1>0. MaxPlanDepth \in 0..MaxPlanDepth /\ x \in LogicalPlansWithin(MaxPlanDepth)
  BY PlanDepthAssumption DEF LogicalPlans
<1>1. /\ z \in LogicalPlans /\ z.op = "scan" /\ z.source = x.source
      /\ z.projection \in Seq(STRING) /\ ToSet(z.projection) \subseteq ColumnNames(s)
  BY <1>0, NarrowedScan DEF LogicalPlans
<1>2. children(x) = {} /\ x.source \in DataSources
  BY InputsTyped DEF PlanShape
<1>3. s \in Seq(Fields) /\ schema(x) = s
  BY <1>2, SourceSchemaFields, SchemaOf
<1> HIDE DEF z
<1>4. schema(z) = IF z.projection = <<>> THEN s ELSE select(s, z.projection)
  BY <1>1, SchemaOf
<1> HIDE DEF s
<1>5. /\ ExpressionsOf(x) = {}
      /\ SchemaReferences(x) = {}
  BY DEF ExpressionsOf, SchemaReferences
<1>6. ToSet(x.projection) = {}
  BY DEF ToSet
<1>7. HasSchema(x)
  BY <1>2, <1>5, <1>6, HasSchemaOf
<1>8. WellFormed(x) /\ Supported(x)
  BY <1>2, <1>5, <1>7, NodeByNode DEF WellFormedNode, SupportedNode, KeysResolve
<1>9. ColumnNames(schema(z)) \subseteq ColumnNames(s)
  <2>1. Names(select(s, z.projection)) = z.projection
    BY <1>1, <1>3, NamesOfSelect
  <2> QED
    BY <1>1, <1>4, <2>1 DEF ColumnNames
<1>10. ~NamesItsColumns(x)
  BY NamesItsColumnsOf
<1> QED
  BY <1>3, <1>8, <1>9, <1>10 DEF Narrowed, z

\* The schema of a node that names its columns, and of one that does not.
LEMMA SchemaCases ==
  \A x \in LogicalPlans :
    /\ x.op \in {"projection", "aggregate"} =>
         schema(x) = [i \in DOMAIN OutputExprs(x) |-> to_field(OutputExprs(x)[i], schema(x.input))]
    /\ x.op \in {"selection", "limit"} => schema(x) = schema(x.input)
    /\ x.op = "join" => schema(x) = Join_schema(x.join_type, schema(x.left), schema(x.right), x.on)
<1> SUFFICES ASSUME NEW x \in LogicalPlans
             PROVE  /\ x.op \in {"projection", "aggregate"} =>
                         schema(x) = [i \in DOMAIN OutputExprs(x) |->
                                        to_field(OutputExprs(x)[i], schema(x.input))]
                    /\ x.op \in {"selection", "limit"} => schema(x) = schema(x.input)
                    /\ x.op = "join" =>
                         schema(x) = Join_schema(x.join_type, schema(x.left), schema(x.right), x.on)
  OBVIOUS
<1>1. CASE x.op \in {"projection", "aggregate"}
  BY <1>1, SchemaOf
<1>2. CASE x.op \in {"selection", "limit"}
  BY <1>2, SchemaOf
<1>3. CASE x.op = "join"
  BY <1>3, SchemaOf
<1> QED
  BY <1>1, <1>2, <1>3

\* A node with one input, over an input that was narrowed.
LEMMA NarrowedUnaryKept ==
  ASSUME NEW x \in LogicalPlans, x.op \in Unary, StableNode(x),
         \A e \in ExpressionsOf(x) : Extractable(e, x.input),
         NEW q \in LogicalPlans, Narrowed(x.input, q), HasSchema(q),
         NEW z \in LogicalPlans, z = [x EXCEPT !.input = q], LowerableNode(z)
  PROVE  Narrowed(x, z)
<1> DEFINE s == schema(x.input)
           t == schema(q)
<1>1. /\ z.op = x.op
      /\ z.input = q
      /\ children(z) = {q}
      /\ ExpressionsOf(z) = ExpressionsOf(x)
      /\ x.op \in {"projection", "aggregate"} => OutputExprs(z) = OutputExprs(x)
      /\ x.op = "aggregate" => z.aggregate_expr = x.aggregate_expr
  BY WithInputParts
<1>2. x.input \in LogicalPlans /\ children(x) = {x.input}
  BY InputsTyped DEF PlanShape, Unary
<1>3. /\ WellFormed(x.input) /\ Supported(x.input)
      /\ ColumnNames(t) \subseteq ColumnNames(s)
      /\ NamesItsColumns(x.input) => Names(t) = Names(s)
  BY DEF Narrowed
<1>4. HasSchema(x.input)
  BY <1>2, <1>3, NodeByNode DEF WellFormedNode
<1>5. s \in Seq(Fields) /\ t \in Seq(Fields)
  BY <1>2, <1>4, SchemaTyped
<1>6. HasSchema(z) /\ \A e \in ExpressionsOf(x) :
         /\ Operators(e) \cap Unplannable = {}
         /\ \A ref \in References(e) : ref.op = "col" => Resolved(ref, t)
  BY <1>1 DEF LowerableNode
<1> HIDE DEF s, t
<1>7. \A e \in ExpressionsOf(x) : \A ref \in References(e) : Resolved(ref, s)
  <2> TAKE e \in ExpressionsOf(x)
  <2> TAKE ref \in References(e)
  <2>1. ref.op \in {"col", "index"}
    BY DEF References
  <2>2. CASE ref.op = "col"
    <3>1. position(t, ref.name) # 0
      BY <1>6, <2>2 DEF Resolved
    <3>2. position(s, ref.name) # 0
      BY <1>3, <1>5, <3>1, NamesStayResolved
    <3> QED
      BY <2>2, <3>2 DEF Resolved
  <2>3. CASE ref.op = "index"
    BY <2>3 DEF Extractable, s
  <2> QED
    BY <2>1, <2>2, <2>3
<1>8. HasSchema(x)
  <2>1. \A ref \in SchemaReferences(x) : Resolved(ref, s)
    BY <1>7, OutputExprsOf
  <2>2. x.op # "scan"
    BY DEF Unary
  <2> QED
    BY <1>2, <1>4, <2>1, <2>2, HasSchemaOf DEF s
<1>9. WellFormed(x)
  <2>1. KeysResolve(x)
    BY DEF KeysResolve, Unary
  <2> QED
    BY <1>2, <1>3, <1>7, <1>8, <2>1, NodeByNode DEF WellFormedNode, s
<1>10. Supported(x)
  <2>1. x.op = "aggregate" => \A a \in ToSet(x.aggregate_expr) : a.fn # "count_distinct"
    BY <1>1 DEF LowerableNode
  <2>2. \A e \in ExpressionsOf(x) : Operators(e) \cap {"not", "mod", "aggregate"} = {}
    BY <1>6 DEF Unplannable
  <2> QED
    BY <1>2, <1>3, <2>1, <2>2, NodeByNode DEF SupportedNode
<1>11. CASE x.op \in {"projection", "aggregate"}
  <2> DEFINE exprs == OutputExprs(x)
  <2>1. /\ schema(x) = [i \in DOMAIN exprs |-> to_field(exprs[i], s)]
        /\ schema(z) = [i \in DOMAIN exprs |-> to_field(exprs[i], t)]
    <3>1. schema(x) = [i \in DOMAIN exprs |-> to_field(exprs[i], s)]
      BY <1>11, SchemaCases DEF s
    <3>2. schema(z) = [i \in DOMAIN OutputExprs(z) |-> to_field(OutputExprs(z)[i], t)]
      <4>1. z \in LogicalPlans /\ z.op \in {"projection", "aggregate"} /\ schema(z.input) = t
        BY <1>1, <1>11 DEF t
      <4>2. schema(z) = [i \in DOMAIN OutputExprs(z) |-> to_field(OutputExprs(z)[i], schema(z.input))]
        BY <4>1, SchemaCases
      <4> QED
        BY <4>1, <4>2
    <3> QED
      BY <1>1, <1>11, <3>1, <3>2
  <2>2. /\ exprs \in Seq(LogicalExprs)
        /\ \A e \in ToSet(exprs) : FieldReferences(e) \subseteq SchemaReferences(x)
    BY <1>11, OutputExprsOf
  <2>3. SchemaReferences(z) = SchemaReferences(x)
    BY <1>1, <1>11 DEF SchemaReferences
  <2>4. \A ref \in SchemaReferences(x) :
          /\ Resolved(ref, s)
          /\ Resolved(ref, t)
          /\ ref.op = "index" => Names(s) = Names(t)
    <3> TAKE ref \in SchemaReferences(x)
    <3>1. PICK e \in ExpressionsOf(x) : ref \in References(e)
      BY OutputExprsOf
    <3>2. Resolved(ref, s)
      BY <1>7, <3>1
    <3>3. Resolved(ref, t)
      BY <1>1, <1>6, <2>3, HasSchemaOf DEF t
    <3>4. ref.op = "index" => NamesItsColumns(x.input)
      BY <3>1 DEF StableNode
    <3> QED
      BY <1>3, <3>2, <3>3, <3>4
  <2> HIDE DEF exprs
  <2>5. \A i \in DOMAIN exprs : to_field(exprs[i], s).name = to_field(exprs[i], t).name
    <3> TAKE i \in DOMAIN exprs
    <3>1. exprs[i] \in LogicalExprs /\ exprs[i] \in ToSet(exprs)
      BY <2>2 DEF ToSet
    <3>2. SameReferences(exprs[i], s, t)
      BY <2>2, <2>4, <3>1 DEF SameReferences
    <3> QED
      BY <1>5, <3>1, <3>2, FieldNamed
  <2>6. Names(schema(z)) = Names(schema(x))
    BY <2>1, <2>5 DEF Names
  <2> QED
    BY <1>9, <1>10, <2>6 DEF Narrowed, ColumnNames
<1>12. CASE x.op \in {"selection", "limit"}
  <2>1. schema(x) = s /\ schema(z) = t
    BY <1>1, <1>12, SchemaCases DEF s, t
  <2>2. NamesItsColumns(x) => NamesItsColumns(x.input)
    BY <1>12, NamesItsColumnsOf
  <2> QED
    BY <1>3, <1>9, <1>10, <2>1, <2>2 DEF Narrowed
<1> QED
  BY <1>11, <1>12 DEF Unary

\* A join of two inputs that were narrowed.
LEMMA NarrowedJoinKept ==
  ASSUME NEW x \in LogicalPlans, x.op = "join",
         NEW l \in LogicalPlans, Narrowed(x.left, l), HasSchema(l),
         NEW r \in LogicalPlans, Narrowed(x.right, r), HasSchema(r),
         NEW z \in LogicalPlans, z = Join(l, r, x.join_type, x.on), LowerableNode(z)
  PROVE  Narrowed(x, z)
<1> DEFINE sl == schema(x.left)
           sr == schema(x.right)
           tl == schema(l)
           tr == schema(r)
<1>1. /\ z.op = "join" /\ z.left = l /\ z.right = r /\ z.join_type = x.join_type /\ z.on = x.on
  BY DEF Join
<1>2. x.left \in LogicalPlans /\ x.right \in LogicalPlans /\ children(x) = {x.left, x.right}
  BY InputsTyped DEF PlanShape
<1>3. /\ WellFormed(x.left) /\ Supported(x.left) /\ ColumnNames(tl) \subseteq ColumnNames(sl)
      /\ WellFormed(x.right) /\ Supported(x.right) /\ ColumnNames(tr) \subseteq ColumnNames(sr)
  BY DEF Narrowed
<1>4. HasSchema(x.left) /\ HasSchema(x.right)
  BY <1>2, <1>3, NodeByNode DEF WellFormedNode
<1>5. sl \in Seq(Fields) /\ sr \in Seq(Fields) /\ tl \in Seq(Fields) /\ tr \in Seq(Fields)
  BY <1>2, <1>4, SchemaTyped
<1>6. ExpressionsOf(x) = {} /\ SchemaReferences(x) = {}
  BY DEF ExpressionsOf, SchemaReferences
<1>7. HasSchema(x)
  BY <1>2, <1>4, <1>6, HasSchemaOf
<1>8. KeysResolve(x)
  <2>1. \A i \in DOMAIN x.on : position(tl, x.on[i][1]) # 0 /\ position(tr, x.on[i][2]) # 0
    BY <1>1 DEF LowerableNode, KeysResolve
  <2> HIDE DEF sl, sr, tl, tr
  <2>2. \A i \in DOMAIN x.on : position(sl, x.on[i][1]) # 0 /\ position(sr, x.on[i][2]) # 0
    BY <1>3, <1>5, <2>1, NamesStayResolved
  <2> QED
    BY <2>2 DEF KeysResolve, sl, sr
<1>9. WellFormed(x)
  BY <1>2, <1>3, <1>6, <1>7, <1>8, NodeByNode DEF WellFormedNode
<1>10. Supported(x)
  BY <1>2, <1>3, <1>6, NodeByNode DEF SupportedNode
<1>11. ColumnNames(schema(z)) \subseteq ColumnNames(schema(x))
  <2>1. /\ schema(x) = Join_schema(x.join_type, sl, sr, x.on)
        /\ schema(z) = Join_schema(x.join_type, tl, tr, x.on)
    BY <1>1, SchemaCases
  <2> DEFINE type == x.join_type
             on == x.on
  <2> HIDE DEF sl, sr, tl, tr, type, on
  <2>2. ColumnNames(Join_schema(type, sl, sr, on)) =
          IF type = "right" THEN (ColumnNames(sl) \ duplicate_keys(on)) \cup ColumnNames(sr)
          ELSE ColumnNames(sl) \cup (ColumnNames(sr) \ duplicate_keys(on))
    BY <1>5, NamesOfJoin
  <2>3. ColumnNames(Join_schema(type, tl, tr, on)) =
          IF type = "right" THEN (ColumnNames(tl) \ duplicate_keys(on)) \cup ColumnNames(tr)
          ELSE ColumnNames(tl) \cup (ColumnNames(tr) \ duplicate_keys(on))
    BY <1>5, NamesOfJoin
  <2> QED
    BY <1>3, <2>1, <2>2, <2>3 DEF type, on
<1>12. ~NamesItsColumns(x)
  BY NamesItsColumnsOf
<1> QED
  BY <1>9, <1>10, <1>11, <1>12 DEF Narrowed

\* What push-down makes of a plan of a DataFrame narrows it, if it returns a plan that
\* can be lowered.
PushDownNarrows(x) ==
    \A n \in SUBSET STRING :
        ~push_down(x, n).panic /\ ScansEverything(x) /\ StableIndices(x)
          /\ Lowerable(push_down(x, n).plan)
        => Narrowed(x, push_down(x, n).plan)

\* It does, for every plan.
LEMMA PushDownKept ==
  \A x \in LogicalPlans : PushDownNarrows(x)
<1> DEFINE S == {x \in LogicalPlans : PushDownNarrows(x)}
           M == MaxPlanDepth
<1>1. ASSUME NEW x \in LogicalPlans, children(x) \subseteq S PROVE x \in S
  <2>1. SUFFICES ASSUME NEW n \in SUBSET STRING,
                        ~push_down(x, n).panic, ScansEverything(x), StableIndices(x),
                        Lowerable(push_down(x, n).plan)
                 PROVE  Narrowed(x, push_down(x, n).plan)
    BY <1>1 DEF PushDownNarrows
  <2> DEFINE z == push_down(x, n).plan
  <2>2. M \in Nat /\ M \in 0..M /\ x \in LogicalPlansWithin(M)
        /\ \A y : y \in LogicalPlansWithin(M) => y \in LogicalPlans
    BY PlanDepthAssumption DEF LogicalPlans
  <2>3. /\ PlanShape(x, IF M = 0 THEN {} ELSE LogicalPlansWithin(M - 1))
        /\ M = 0 => children(x) = {}
    BY <2>2, InputsTyped
  <2>4. \A k \in 0..M : \A y \in LogicalPlansWithin(k) :
          y \in LogicalPlans /\ PushDownTyped(y, k)
    BY PlanTower, PushDownType
  <2>5. z \in LogicalPlans
    BY <2>2, <2>4 DEF PushDownTyped, PushDownResults
  <2>6. LowerableNode(z) /\ \A c \in children(z) : Lowerable(c)
    BY <2>1, <2>5, NodeByNode
  <2>7. \A c \in LogicalPlans : Lowerable(c) => HasSchema(c)
    BY NodeByNode DEF LowerableNode
  <2>8. \A c \in children(x) : c \in S /\ ScansEverything(c) /\ StableIndices(c)
    BY <1>1, <2>1, NodeByNode
  <2>9. StableNode(x) /\ (x.op = "scan" => x.projection = <<>>)
    BY <2>1, NodeByNode
  <2>10. CASE x.op = "scan"
    <3>1. z = NarrowScan(x, n)
      BY <2>2, <2>10, PushDownScan
    <3> QED
      BY <2>9, <2>10, <3>1, NarrowedScanKept
  <2>11. CASE x.op \in Unary
    <3>1. children(x) = {x.input} /\ x.input \in IF M = 0 THEN {} ELSE LogicalPlansWithin(M - 1)
      BY <2>3, <2>11 DEF PlanShape, Unary
    <3>2. M \in 1..M /\ M - 1 \in 0..M /\ x.input \in LogicalPlansWithin(M - 1)
      BY <2>2, <3>1
    <3>3. PushDownTyped(x.input, M - 1)
      BY <2>4, <3>2
    <3>4. /\ \A e \in ExpressionsOf(x) : Extractable(e, x.input)
          /\ \E m \in SUBSET STRING :
               /\ ~push_down(x.input, m).panic
               /\ z = [x EXCEPT !.input = push_down(x.input, m).plan]
      BY <2>1, <2>2, <2>11, <3>2, <3>3, PushDownUnary
    <3>5. PICK m \in SUBSET STRING :
               /\ ~push_down(x.input, m).panic
               /\ z = [x EXCEPT !.input = push_down(x.input, m).plan]
      BY <3>4
    <3> DEFINE q == push_down(x.input, m).plan
    <3>6. q \in LogicalPlans
      BY <2>4, <3>2, <3>3 DEF PushDownTyped, PushDownResults
    <3> HIDE DEF z
    <3>7. children(z) = {q}
      BY <2>11, <3>5, WithInputParts
    <3>8. Lowerable(q) /\ HasSchema(q)
      BY <2>6, <2>7, <3>6, <3>7
    <3>9. Narrowed(x.input, q)
      BY <2>8, <3>1, <3>5, <3>8 DEF PushDownNarrows
    <3> HIDE DEF q
    <3>10. z = [x EXCEPT !.input = q]
      BY <3>5 DEF q
    <3>11. Narrowed(x, z)
      BY <2>5, <2>6, <2>9, <2>11, <3>4, <3>6, <3>8, <3>9, <3>10, NarrowedUnaryKept
    <3> QED
      BY <3>11 DEF z
  <2>12. CASE x.op = "join"
    <3>1. /\ children(x) = {x.left, x.right}
          /\ x.left \in IF M = 0 THEN {} ELSE LogicalPlansWithin(M - 1)
          /\ x.right \in IF M = 0 THEN {} ELSE LogicalPlansWithin(M - 1)
      BY <2>3, <2>12 DEF PlanShape
    <3>2. /\ M \in 1..M /\ M - 1 \in 0..M
          /\ x.left \in LogicalPlansWithin(M - 1) /\ x.right \in LogicalPlansWithin(M - 1)
      BY <2>2, <3>1
    <3>3. PushDownTyped(x.left, M - 1) /\ PushDownTyped(x.right, M - 1)
      BY <2>4, <3>2
    <3>4. \E l, r \in SUBSET STRING :
            /\ ~push_down(x.left, l).panic /\ ~push_down(x.right, r).panic
            /\ z = Join(push_down(x.left, l).plan, push_down(x.right, r).plan, x.join_type, x.on)
      BY <2>1, <2>2, <2>12, <3>2, <3>3, PushDownJoin
    <3>5. PICK l \in SUBSET STRING, r \in SUBSET STRING :
            /\ ~push_down(x.left, l).panic /\ ~push_down(x.right, r).panic
            /\ z = Join(push_down(x.left, l).plan, push_down(x.right, r).plan, x.join_type, x.on)
      BY <3>4
    <3> DEFINE pl == push_down(x.left, l).plan
               pr == push_down(x.right, r).plan
    <3>6. pl \in LogicalPlansWithin(M - 1) /\ pr \in LogicalPlansWithin(M - 1)
      BY <3>3 DEF PushDownTyped, PushDownResults
    <3>7. pl \in LogicalPlans /\ pr \in LogicalPlans
      BY <2>4, <3>2, <3>6
    <3> HIDE DEF z
    <3>8. z = Join(pl, pr, x.join_type, x.on) /\ children(z) = {pl, pr}
      BY <3>5 DEF pl, pr, Join, children
    <3>9. Lowerable(pl) /\ HasSchema(pl) /\ Lowerable(pr) /\ HasSchema(pr)
      BY <2>6, <2>7, <3>7, <3>8
    <3>10. Narrowed(x.left, pl) /\ Narrowed(x.right, pr)
      BY <2>8, <3>1, <3>5, <3>9 DEF PushDownNarrows
    <3> HIDE DEF pl, pr
    <3>11. Narrowed(x, z)
      BY <2>5, <2>6, <2>12, <3>7, <3>8, <3>9, <3>10, NarrowedJoinKept
    <3> QED
      BY <3>11 DEF z
  <2> QED
    BY <2>3, <2>10, <2>11, <2>12 DEF PlanShape, PlanOps, Unary
<1>2. LogicalPlans \subseteq S
  <2> HIDE DEF S
  <2> QED
    BY <1>1, PlanInduction
<1> QED
  BY <1>2

-------------------------------------------------------------------------------
(* What push-down leaves: a plan that is well formed can be lowered after it.  *)

\* The names of all the plan's sources are sorted.
SortableSources(p) == \A source \in SourcesOf(p) : Sortable(source)

\* Source by source.
LEMMA SortableByNode ==
  ASSUME NEW x \in LogicalPlans
  PROVE  SortableSources(x) <=>
           /\ x.op = "scan" => Sortable(x.source)
           /\ \A c \in children(x) : SortableSources(c)
<1>1. Nodes(x) = {x} \cup UNION {Nodes(c) : c \in children(x)}
  BY NodesOf
<1>2. \A p : SortableSources(p) <=> \A n \in Nodes(p) : n.op = "scan" => Sortable(n.source)
  BY DEF SortableSources, SourcesOf
<1> QED
  BY <1>1, <1>2

\* A narrowed scan still has the columns that were requested.
LEMMA ScanServed ==
  ASSUME NEW x \in LogicalPlans, x.op = "scan", x.projection = <<>>, Sortable(x.source), NEW n
  PROVE  /\ Lowerable(NarrowScan(x, n))
         /\ n \cap ColumnNames(schema(x)) \subseteq ColumnNames(schema(NarrowScan(x, n)))
<1> DEFINE s == source_schema(x.source)
           z == NarrowScan(x, n)
<1>0. MaxPlanDepth \in 0..MaxPlanDepth /\ x \in LogicalPlansWithin(MaxPlanDepth)
  BY PlanDepthAssumption DEF LogicalPlans
<1>1. /\ z \in LogicalPlans /\ z.op = "scan" /\ z.source = x.source
      /\ z.projection \in Seq(STRING) /\ ToSet(z.projection) \subseteq ColumnNames(s)
  BY <1>0, NarrowedScan DEF LogicalPlans
<1>2. x.source \in DataSources /\ x = Scan(x.source, x.projection)
  BY InputsTyped DEF PlanShape
<1>3. s \in Seq(Fields) /\ schema(x) = s
  BY <1>2, SourceSchemaFields, SchemaOf
<1>4. z.projection = Among(Alphabet, n \cap ToSet(Names(s)))
  <2> DEFINE projection == Among(Alphabet, n \cap ToSet(Names(s)))
  <2>1. z = [x EXCEPT !.projection = projection]
    BY DEF NarrowScan
  <2> HIDE DEF projection, z
  <2>2. z.projection = projection
    BY <1>2, <2>1 DEF Scan
  <2> QED
    BY <2>2 DEF projection
<1>5. ToSet(z.projection) = n \cap ColumnNames(s)
  <2>1. ToSet(z.projection) = ToSet(Alphabet) \cap (n \cap ToSet(Names(s)))
    BY <1>4, AlphabetAssumption, AmongElements
  <2>2. ToSet(Names(s)) \subseteq ToSet(Alphabet)
    BY DEF Sortable
  <2> QED
    BY <2>1, <2>2 DEF ColumnNames
<1> HIDE DEF z
<1>6. schema(z) = IF z.projection = <<>> THEN s ELSE select(s, z.projection)
  BY <1>1, SchemaOf
<1>7. children(z) = {} /\ ExpressionsOf(z) = {} /\ SchemaReferences(z) = {}
  BY <1>1 DEF children, ExpressionsOf, SchemaReferences
<1>8. HasSchema(z)
  <2>1. ToSet(z.projection) \subseteq ToSet(Names(source_schema(z.source)))
    BY <1>1 DEF ColumnNames
  <2> QED
    BY <1>1, <1>7, <2>1, HasSchemaOf
<1>9. Lowerable(z)
  <2>1. LowerableNode(z)
    BY <1>1, <1>7, <1>8 DEF LowerableNode, KeysResolve
  <2> QED
    BY <1>1, <1>7, <2>1, NodeByNode
<1> HIDE DEF s
<1>10. n \cap ColumnNames(s) \subseteq ColumnNames(schema(z))
  <2>1. CASE z.projection = <<>>
    BY <1>6, <2>1
  <2>2. CASE z.projection # <<>>
    <3>1. Names(schema(z)) = z.projection
      BY <1>1, <1>3, <1>6, <2>2, NamesOfSelect
    <3> QED
      BY <1>5, <3>1 DEF ColumnNames
  <2> QED
    BY <2>1, <2>2
<1> QED
  BY <1>3, <1>9, <1>10 DEF z

\* A node whose input still has the columns that its expressions refer to, and those that
\* were requested.
LEMMA UnaryServed ==
  ASSUME NEW x \in LogicalPlans, x.op \in Unary,
         WellFormedNode(x), SupportedNode(x), StableNode(x), HasSchema(x.input),
         \A e \in ExpressionsOf(x) : Extractable(e, x.input),
         NEW q \in LogicalPlans, Narrowed(x.input, q), Lowerable(q),
         NEW m, \A e \in ExpressionsOf(x) : extract_columns(e, x.input) \subseteq m,
         m \cap ColumnNames(schema(x.input)) \subseteq ColumnNames(schema(q)),
         NEW z \in LogicalPlans, z = [x EXCEPT !.input = q]
  PROVE  /\ Lowerable(z)
         /\ m \cap ColumnNames(schema(x)) \subseteq ColumnNames(schema(z))
<1> DEFINE s == schema(x.input)
           t == schema(q)
<1>1. /\ z.op = x.op
      /\ z.input = q
      /\ children(z) = {q}
      /\ ExpressionsOf(z) = ExpressionsOf(x)
      /\ x.op \in {"projection", "aggregate"} => OutputExprs(z) = OutputExprs(x)
      /\ x.op = "aggregate" => z.aggregate_expr = x.aggregate_expr
  BY WithInputParts
<1>2. x.input \in LogicalPlans /\ HasSchema(q)
  BY InputsTyped, NodeByNode DEF PlanShape, Unary, LowerableNode
<1>3. s \in Seq(Fields) /\ t \in Seq(Fields)
  BY <1>2, SchemaTyped
<1>4. NamesItsColumns(x.input) => Names(t) = Names(s)
  BY DEF Narrowed
<1>5. \A e \in ExpressionsOf(x) : \A ref \in References(e) : Resolved(ref, s)
  BY DEF WellFormedNode
<1>6. m \cap ColumnNames(s) \subseteq ColumnNames(t)
  OBVIOUS
<1> HIDE DEF s, t
<1>7. \A e \in ExpressionsOf(x) : \A ref \in References(e) : Resolved(ref, t)
  <2> TAKE e \in ExpressionsOf(x)
  <2> TAKE ref \in References(e)
  <2>1. ref.op \in {"col", "index"}
    BY DEF References
  <2>2. CASE ref.op = "col"
    <3>1. ref.name \in extract_columns(e, x.input)
      BY <2>2 DEF extract_columns
    <3>2. ref.name \in ColumnNames(s)
      BY <1>3, <1>5, <2>2, PositionOfName DEF Resolved
    <3>3. ref.name \in ColumnNames(t)
      BY <1>6, <3>1, <3>2
    <3> QED
      BY <1>3, <2>2, <3>3, PositionOfName DEF Resolved
  <2>3. CASE ref.op = "index"
    <3>1. Names(t) = Names(s)
      BY <1>4, <2>3 DEF StableNode
    <3>2. DOMAIN t = DOMAIN s
      BY <3>1 DEF Names
    <3> QED
      BY <1>5, <2>3, <3>2 DEF Resolved
  <2> QED
    BY <2>1, <2>2, <2>3
<1>8. HasSchema(z)
  <2>1. SchemaReferences(z) = SchemaReferences(x)
    BY <1>1 DEF SchemaReferences
  <2>2. \A ref \in SchemaReferences(x) : Resolved(ref, t)
    BY <1>7, OutputExprsOf
  <2>3. z.op # "scan"
    BY <1>1 DEF Unary
  <2> QED
    BY <1>1, <1>2, <2>1, <2>2, <2>3, HasSchemaOf DEF t
<1>9. LowerableNode(z)
  <2>1. KeysResolve(z)
    BY <1>1 DEF KeysResolve, Unary
  <2>2. z.op = "aggregate" => \A a \in ToSet(z.aggregate_expr) : a.fn # "count_distinct"
    BY <1>1 DEF SupportedNode
  <2>3. \A e \in ExpressionsOf(z) : Operators(e) \cap Unplannable = {}
    BY <1>1 DEF SupportedNode, Unplannable
  <2>4. \A e \in ExpressionsOf(z) : \A ref \in References(e) : Resolved(ref, schema(z.input))
    BY <1>1, <1>7 DEF t
  <2> QED
    BY <1>8, <2>1, <2>2, <2>3, <2>4 DEF LowerableNode
<1>10. Lowerable(z)
  BY <1>1, <1>9, NodeByNode
<1>11. CASE x.op \in {"projection", "aggregate"}
  <2>1. Narrowed(x, z)
    BY <1>2, <1>9, NarrowedUnaryKept
  <2>2. NamesItsColumns(x)
    BY <1>11, NamesItsColumnsOf
  <2> QED
    BY <1>10, <2>1, <2>2 DEF Narrowed, ColumnNames
<1>12. CASE x.op \in {"selection", "limit"}
  <2>1. schema(x) = s /\ schema(z) = t
    BY <1>1, <1>12, SchemaCases DEF s, t
  <2> QED
    BY <1>6, <1>10, <2>1
<1> QED
  BY <1>11, <1>12 DEF Unary

\* A join whose inputs still have its keys and the columns that were requested.
LEMMA JoinServed ==
  ASSUME NEW x \in LogicalPlans, x.op = "join", WellFormedNode(x),
         HasSchema(x.left), HasSchema(x.right),
         NEW l \in LogicalPlans, Lowerable(l), NEW r \in LogicalPlans, Lowerable(r),
         NEW m, \A i \in DOMAIN x.on : x.on[i][1] \in m /\ x.on[i][2] \in m,
         m \cap ColumnNames(schema(x.left)) \subseteq ColumnNames(schema(l)),
         m \cap ColumnNames(schema(x.right)) \subseteq ColumnNames(schema(r)),
         NEW z \in LogicalPlans, z = Join(l, r, x.join_type, x.on)
  PROVE  /\ Lowerable(z)
         /\ m \cap ColumnNames(schema(x)) \subseteq ColumnNames(schema(z))
<1> DEFINE sl == schema(x.left)
           sr == schema(x.right)
           tl == schema(l)
           tr == schema(r)
<1>1. /\ z.op = "join" /\ z.left = l /\ z.right = r /\ z.join_type = x.join_type /\ z.on = x.on
      /\ children(z) = {l, r} /\ ExpressionsOf(z) = {} /\ SchemaReferences(z) = {}
  BY DEF Join, children, ExpressionsOf, SchemaReferences
<1>2. x.left \in LogicalPlans /\ x.right \in LogicalPlans
  BY InputsTyped DEF PlanShape
<1>3. HasSchema(l) /\ HasSchema(r)
  BY NodeByNode DEF LowerableNode
<1>4. sl \in Seq(Fields) /\ sr \in Seq(Fields) /\ tl \in Seq(Fields) /\ tr \in Seq(Fields)
  BY <1>2, <1>3, SchemaTyped
<1>5. HasSchema(z)
  BY <1>1, <1>3, HasSchemaOf
<1>6. m \cap ColumnNames(sl) \subseteq ColumnNames(tl) /\ m \cap ColumnNames(sr) \subseteq ColumnNames(tr)
  OBVIOUS
<1>7. \A i \in DOMAIN x.on : position(sl, x.on[i][1]) # 0 /\ position(sr, x.on[i][2]) # 0
  BY DEF WellFormedNode, KeysResolve
<1>8. LowerableNode(z)
  <2> HIDE DEF sl, sr, tl, tr
  <2>1. \A i \in DOMAIN x.on : position(tl, x.on[i][1]) # 0 /\ position(tr, x.on[i][2]) # 0
    <3> TAKE i \in DOMAIN x.on
    <3>1. x.on[i][1] \in ColumnNames(sl) /\ x.on[i][2] \in ColumnNames(sr)
      BY <1>4, <1>7, PositionOfName
    <3>2. x.on[i][1] \in ColumnNames(tl) /\ x.on[i][2] \in ColumnNames(tr)
      BY <1>6, <3>1
    <3> QED
      BY <1>4, <3>2, PositionOfName
  <2>2. KeysResolve(z)
    BY <1>1, <2>1 DEF KeysResolve, tl, tr
  <2> QED
    BY <1>1, <1>5, <2>2 DEF LowerableNode
<1>9. Lowerable(z)
  BY <1>1, <1>8, NodeByNode
<1>10. m \cap ColumnNames(schema(x)) \subseteq ColumnNames(schema(z))
  <2>1. /\ schema(x) = Join_schema(x.join_type, sl, sr, x.on)
        /\ schema(z) = Join_schema(x.join_type, tl, tr, x.on)
    BY <1>1, SchemaCases
  <2> DEFINE type == x.join_type
             on == x.on
  <2> HIDE DEF sl, sr, tl, tr, type, on
  <2>2. ColumnNames(Join_schema(type, sl, sr, on)) =
          IF type = "right" THEN (ColumnNames(sl) \ duplicate_keys(on)) \cup ColumnNames(sr)
          ELSE ColumnNames(sl) \cup (ColumnNames(sr) \ duplicate_keys(on))
    BY <1>4, NamesOfJoin
  <2>3. ColumnNames(Join_schema(type, tl, tr, on)) =
          IF type = "right" THEN (ColumnNames(tl) \ duplicate_keys(on)) \cup ColumnNames(tr)
          ELSE ColumnNames(tl) \cup (ColumnNames(tr) \ duplicate_keys(on))
    BY <1>4, NamesOfJoin
  <2> QED
    BY <1>6, <2>1, <2>2, <2>3 DEF type, on
<1> QED
  BY <1>9, <1>10

\* A query that can be planned before push-down.
ValidPlan(x) ==
    WellFormed(x) /\ Supported(x) /\ ScansEverything(x) /\ StableIndices(x) /\ SortableSources(x)

\* Push-down returns a plan for it that can be lowered and has what was requested, and
\* forgets no request.
PushDownServes(x) ==
    ValidPlan(x) => \A n \in SUBSET STRING :
        /\ ~push_down(x, n).panic
        /\ Lowerable(push_down(x, n).plan)
        /\ n \subseteq push_down(x, n).names
        /\ n \cap ColumnNames(schema(x)) \subseteq ColumnNames(schema(push_down(x, n).plan))

\* It does so for a node if it does for the node's inputs.
LEMMA NodeServed ==
  ASSUME NEW x \in LogicalPlans, \A c \in children(x) : PushDownServes(c)
  PROVE  PushDownServes(x)
<1> DEFINE M == MaxPlanDepth
<1>1. SUFFICES ASSUME ValidPlan(x), NEW n \in SUBSET STRING
               PROVE  /\ ~push_down(x, n).panic
                      /\ Lowerable(push_down(x, n).plan)
                      /\ n \subseteq push_down(x, n).names
                      /\ n \cap ColumnNames(schema(x)) \subseteq
                           ColumnNames(schema(push_down(x, n).plan))
  BY DEF PushDownServes
<1>2. M \in Nat /\ M \in 0..M /\ x \in LogicalPlansWithin(M)
      /\ \A y : y \in LogicalPlansWithin(M) => y \in LogicalPlans
  BY PlanDepthAssumption DEF LogicalPlans
<1>3. /\ PlanShape(x, IF M = 0 THEN {} ELSE LogicalPlansWithin(M - 1))
      /\ M = 0 => children(x) = {}
  BY <1>2, InputsTyped
<1>4. \A k \in 0..M : \A y \in LogicalPlansWithin(k) : y \in LogicalPlans /\ PushDownTyped(y, k)
  BY PlanTower, PushDownType
<1>5. push_down(x, n).plan \in LogicalPlans
  BY <1>2, <1>4 DEF PushDownTyped, PushDownResults
<1>6. /\ WellFormedNode(x) /\ SupportedNode(x) /\ StableNode(x)
      /\ x.op = "scan" => x.projection = <<>> /\ Sortable(x.source)
      /\ \A c \in children(x) : ValidPlan(c)
  BY <1>1, NodeByNode, SortableByNode DEF ValidPlan
<1>7. \A c \in children(x) : c \in LogicalPlans => HasSchema(c) /\ WellFormed(c) /\ Supported(c)
  BY <1>6, NodeByNode DEF ValidPlan, WellFormedNode
<1>8. CASE x.op = "scan"
  <2>1. push_down(x, n) = Pushed(NarrowScan(x, n), n, FALSE)
    BY <1>8, PushDownOf DEF PushDownStep
  <2>2. /\ push_down(x, n).plan = NarrowScan(x, n)
        /\ push_down(x, n).names = n
        /\ push_down(x, n).panic = FALSE
    BY <2>1 DEF Pushed
  <2> QED
    BY <1>6, <1>8, <2>2, ScanServed
<1>9. CASE x.op \in Unary
  <2>1. children(x) = {x.input} /\ x.input \in IF M = 0 THEN {} ELSE LogicalPlansWithin(M - 1)
    BY <1>3, <1>9 DEF PlanShape, Unary
  <2>2. M \in 1..M /\ M - 1 \in 0..M /\ x.input \in LogicalPlansWithin(M - 1)
    BY <1>2, <2>1
  <2>3. PushDownTyped(x.input, M - 1) /\ x.input \in LogicalPlans
    BY <1>4, <2>2
  <2>4. HasSchema(x.input)
    BY <1>7, <2>1, <2>3
  <2>5. ASSUME NEW e \in ExpressionsOf(x) PROVE Extractable(e, x.input)
    <3>1. Operators(e) \cap {"not", "aggregate"} = {}
      BY <1>6 DEF SupportedNode
    <3>2. \A ref \in References(e) : Resolved(ref, schema(x.input))
      BY <1>6 DEF WellFormedNode
    <3> QED
      BY <2>4, <3>1, <3>2 DEF Extractable
  <2>6. \E m \in SUBSET STRING :
          /\ m = n \cup UNION {extract_columns(e, x.input) : e \in ExpressionsOf(x)}
          /\ push_down(x, n).panic = push_down(x.input, m).panic
          /\ push_down(x, n).names = push_down(x.input, m).names
          /\ push_down(x, n).plan = [x EXCEPT !.input = push_down(x.input, m).plan]
    BY <1>2, <1>9, <2>2, <2>3, <2>5, PushDownUnary
  <2>7. PICK m \in SUBSET STRING :
          /\ m = n \cup UNION {extract_columns(e, x.input) : e \in ExpressionsOf(x)}
          /\ push_down(x, n).panic = push_down(x.input, m).panic
          /\ push_down(x, n).names = push_down(x.input, m).names
          /\ push_down(x, n).plan = [x EXCEPT !.input = push_down(x.input, m).plan]
    BY <2>6
  <2>8. n \subseteq m /\ \A e \in ExpressionsOf(x) : extract_columns(e, x.input) \subseteq m
    BY <2>7
  <2> DEFINE q == push_down(x.input, m).plan
             z == push_down(x, n).plan
  <2>9. /\ ~push_down(x.input, m).panic
        /\ Lowerable(q)
        /\ m \subseteq push_down(x.input, m).names
        /\ m \cap ColumnNames(schema(x.input)) \subseteq ColumnNames(schema(q))
    BY <1>6, <2>1 DEF PushDownServes
  <2>10. q \in LogicalPlans
    BY <1>4, <2>2, <2>3 DEF PushDownTyped, PushDownResults
  <2>11. Narrowed(x.input, q)
    BY <1>6, <2>1, <2>3, <2>9, PushDownKept DEF PushDownNarrows, ValidPlan
  <2>12. z = [x EXCEPT !.input = q]
    BY <2>7
  <2> HIDE DEF q, z
  <2>13. /\ Lowerable(z)
         /\ m \cap ColumnNames(schema(x)) \subseteq ColumnNames(schema(z))
    BY <1>5, <1>6, <1>9, <2>4, <2>5, <2>8, <2>9, <2>10, <2>11, <2>12, UnaryServed DEF z
  <2> QED
    BY <2>7, <2>8, <2>9, <2>13 DEF z
<1>10. CASE x.op = "join"
  <2>1. /\ children(x) = {x.left, x.right}
        /\ x.left \in IF M = 0 THEN {} ELSE LogicalPlansWithin(M - 1)
        /\ x.right \in IF M = 0 THEN {} ELSE LogicalPlansWithin(M - 1)
        /\ x.on \in Seq(STRING \X STRING)
    BY <1>3, <1>10 DEF PlanShape
  <2>2. /\ M \in 1..M /\ M - 1 \in 0..M
        /\ x.left \in LogicalPlansWithin(M - 1) /\ x.right \in LogicalPlansWithin(M - 1)
    BY <1>2, <2>1
  <2>3. /\ PushDownTyped(x.left, M - 1) /\ PushDownTyped(x.right, M - 1)
        /\ x.left \in LogicalPlans /\ x.right \in LogicalPlans
    BY <1>4, <2>2
  <2>4. HasSchema(x.left) /\ HasSchema(x.right)
    BY <1>7, <2>1, <2>3
  <2>5. \E m \in SUBSET STRING : \E l \in SUBSET STRING :
          /\ m = JoinColumns(x, n)
          /\ l = push_down(x.left, m).names
          /\ push_down(x, n).panic = (push_down(x.left, m).panic \/ push_down(x.right, l).panic)
          /\ push_down(x, n).names = push_down(x.right, l).names
          /\ push_down(x, n).plan =
               Join(push_down(x.left, m).plan, push_down(x.right, l).plan, x.join_type, x.on)
    BY <1>2, <1>10, <2>2, <2>3, <2>4, PushDownJoin
  <2>6. PICK m \in SUBSET STRING, l \in SUBSET STRING :
          /\ m = JoinColumns(x, n)
          /\ l = push_down(x.left, m).names
          /\ push_down(x, n).panic = (push_down(x.left, m).panic \/ push_down(x.right, l).panic)
          /\ push_down(x, n).names = push_down(x.right, l).names
          /\ push_down(x, n).plan =
               Join(push_down(x.left, m).plan, push_down(x.right, l).plan, x.join_type, x.on)
    BY <2>5
  <2> DEFINE pl == push_down(x.left, m).plan
             pr == push_down(x.right, l).plan
             z == push_down(x, n).plan
  <2>7. n \subseteq m /\ \A i \in DOMAIN x.on : x.on[i][1] \in m /\ x.on[i][2] \in m
    <3>1. \A i \in DOMAIN x.on : ToSet(x.on[i]) \subseteq m
      BY <2>6 DEF JoinColumns
    <3>2. \A i \in DOMAIN x.on : x.on[i][1] \in ToSet(x.on[i]) /\ x.on[i][2] \in ToSet(x.on[i])
      <4> TAKE i \in DOMAIN x.on
      <4>1. x.on[i] \in STRING \X STRING
        BY <2>1
      <4> QED
        BY <4>1 DEF ToSet
    <3>3. n \subseteq m
      BY <2>6 DEF JoinColumns
    <3> QED
      BY <3>1, <3>2, <3>3
  <2>8. /\ ~push_down(x.left, m).panic /\ Lowerable(pl)
        /\ m \subseteq l
        /\ m \cap ColumnNames(schema(x.left)) \subseteq ColumnNames(schema(pl))
    BY <1>6, <2>1, <2>6 DEF PushDownServes
  <2>9. /\ ~push_down(x.right, l).panic /\ Lowerable(pr)
        /\ l \subseteq push_down(x.right, l).names
        /\ l \cap ColumnNames(schema(x.right)) \subseteq ColumnNames(schema(pr))
    BY <1>6, <2>1 DEF PushDownServes
  <2>10. pl \in LogicalPlans /\ pr \in LogicalPlans
    BY <1>4, <2>2, <2>3 DEF PushDownTyped, PushDownResults
  <2>11. z = Join(pl, pr, x.join_type, x.on)
    BY <2>6
  <2> HIDE DEF pl, pr, z
  <2>12. m \cap ColumnNames(schema(x.right)) \subseteq ColumnNames(schema(pr))
    BY <2>8, <2>9
  <2>13. /\ Lowerable(z)
         /\ m \cap ColumnNames(schema(x)) \subseteq ColumnNames(schema(z))
    BY <1>5, <1>6, <1>10, <2>4, <2>7, <2>8, <2>9, <2>10, <2>11, <2>12, JoinServed DEF z
  <2> QED
    BY <2>6, <2>7, <2>8, <2>9, <2>13 DEF z
<1> QED
  BY <1>3, <1>8, <1>9, <1>10 DEF PlanShape, PlanOps, Unary

\* It does so for every plan.
LEMMA PushDownSuffices ==
  \A x \in LogicalPlans : PushDownServes(x)
<1> DEFINE S == {x \in LogicalPlans : PushDownServes(x)}
<1>1. ASSUME NEW x \in LogicalPlans, children(x) \subseteq S PROVE x \in S
  BY <1>1, NodeServed
<1>2. LogicalPlans \subseteq S
  <2> HIDE DEF S
  <2> QED
    BY <1>1, PlanInduction
<1> QED
  BY <1>2

-------------------------------------------------------------------------------
(* A plan that is sent and read back. *)

\* The plan q has the columns of the plan p, and is as good.
ReceivedAs(p, q) ==
    /\ schema(q) = schema(p)
    /\ HasSchema(q) <=> HasSchema(p)
    /\ NamesItsColumns(q) <=> NamesItsColumns(p)
    /\ ScansEverything(q) <=> ScansEverything(p)
    /\ StableIndices(q) <=> StableIndices(p)
    /\ WellFormed(q) <=> WellFormed(p)
    /\ Supported(q) <=> Supported(p)
    /\ SortableSources(q) <=> SortableSources(p)

\* The node z is the node x over the input y, but for a limit's number.
SameNode(x, z, y) ==
    /\ z.op = x.op
    /\ z.input = y
    /\ children(z) = {y}
    /\ ExpressionsOf(z) = ExpressionsOf(x)
    /\ x.op \in {"projection", "aggregate"} => OutputExprs(z) = OutputExprs(x)
    /\ x.op = "aggregate" => z.aggregate_expr = x.aggregate_expr

\* Replacing a node's input leaves the rest of it.
LEMMA OverInput ==
  ASSUME NEW x \in LogicalPlans, x.op \in Unary, NEW y
  PROVE  SameNode(x, [x EXCEPT !.input = y], y)
<1>1. ASSUME NEW z, z = [x EXCEPT !.input = y]
      PROVE  SameNode(x, z, y)
  <2>1. /\ z.op = x.op
        /\ z.input = y
        /\ children(z) = {y}
        /\ ExpressionsOf(z) = ExpressionsOf(x)
        /\ x.op \in {"projection", "aggregate"} => OutputExprs(z) = OutputExprs(x)
        /\ x.op = "aggregate" => z.aggregate_expr = x.aggregate_expr
    BY <1>1, WithInputParts
  <2> QED
    BY <2>1 DEF SameNode
<1> QED
  BY <1>1

\* A scan is read back from the same columns, if the source declared none.
LEMMA ReceivedScan ==
  ASSUME NEW k \in 0..MaxPlanDepth, NEW x \in LogicalPlansWithin(k), x.op = "scan", SurvivesTransferNode(x)
  PROVE  /\ transfer_logical_plan(x) \in LogicalPlansWithin(k)
         /\ ReceivedAs(x, transfer_logical_plan(x))
<1> DEFINE inner == IF k = 0 THEN {} ELSE LogicalPlansWithin(k - 1)
           source == ReceivedSource(x.source)
           z == transfer_logical_plan(x)
<1>1. x \in LogicalPlans /\ LogicalPlansWithin(k) = PlanForms(inner, LogicalExprs)
  BY PlanTower, PlanLevels
<1>2. z = Scan(source, x.projection)
  BY <1>1, TransferPlanOf
<1>3. /\ x.source \in DataSources /\ x.projection \in Seq(STRING) /\ children(x) = {}
  BY <1>1, InputsTyped DEF PlanShape
<1>4. x.source.kind \in {"csv", "parquet"} /\ (x.source.kind = "csv" => x.source.schema = <<>>)
  BY DEF SurvivesTransferNode
<1>5. source \in DataSources /\ source_schema(source) = source_schema(x.source)
  <2>1. CASE x.source.kind = "csv"
    <3>1. x.source.file \in DOMAIN FileSchema /\ x.source.has_headers \in BOOLEAN
      BY <1>3, <2>1 DEF DataSources
    <3>2. source = CsvDataSource(x.source.file, <<>>, x.source.has_headers, ServerBatchSize)
      BY <2>1 DEF ReceivedSource
    <3>3. <<>> \in Seq(Fields) /\ ServerBatchSize \in Nat \ {0}
      BY DEF ServerBatchSize
    <3>4. source \in DataSources
      BY <3>1, <3>2, <3>3 DEF CsvDataSource, DataSources
    <3>5. source.file = x.source.file /\ source.schema = <<>>
      BY <3>2 DEF CsvDataSource
    <3> HIDE DEF source
    <3>6. source_schema(source) = source_schema(x.source)
      BY <1>4, <2>1, <3>5 DEF source_schema, infer_schema
    <3> QED
      BY <3>4, <3>6
  <2>2. CASE x.source.kind = "parquet"
    <3>1. x.source.file \in DOMAIN FileSchema
      BY <1>3, <2>2 DEF DataSources
    <3>2. source = ParquetDataSource(x.source.file)
      BY <2>2 DEF ReceivedSource
    <3>3. source \in DataSources
      BY <3>1, <3>2 DEF ParquetDataSource, DataSources
    <3>4. source.file = x.source.file /\ source.kind = "parquet"
      BY <3>2 DEF ParquetDataSource
    <3> HIDE DEF source
    <3>5. source_schema(source) = source_schema(x.source)
      BY <2>2, <3>4 DEF source_schema, infer_schema
    <3> QED
      BY <3>3, <3>5
  <2> QED
    BY <1>4, <2>1, <2>2
<1> HIDE DEF inner, source, z
<1>6. z \in PlanForms(inner, LogicalExprs)
  BY <1>2, <1>3, <1>5 DEF PlanForms, Scan
<1>7. z.op = "scan" /\ z.source = source /\ z.projection = x.projection
  BY <1>2 DEF Scan
<1>8. z \in LogicalPlans /\ z \in LogicalPlansWithin(k)
  BY <1>1, <1>6, PlanTower
<1>9. children(z) = {} /\ ExpressionsOf(z) = {} /\ ExpressionsOf(x) = {}
      /\ SchemaReferences(z) = {} /\ SchemaReferences(x) = {}
  BY <1>7 DEF children, ExpressionsOf, SchemaReferences
<1>10. schema(z) = schema(x)
  BY <1>1, <1>5, <1>7, <1>8, SchemaOf
<1>11. HasSchema(z) <=> HasSchema(x)
  BY <1>1, <1>3, <1>5, <1>7, <1>8, <1>9, HasSchemaOf
<1>12. ~NamesItsColumns(z) /\ ~NamesItsColumns(x)
  BY <1>1, <1>7, <1>8, NamesItsColumnsOf
<1>13. WellFormed(z) <=> WellFormed(x)
  BY <1>1, <1>3, <1>7, <1>8, <1>9, <1>11, NodeByNode DEF WellFormedNode, KeysResolve
<1>14. /\ ScansEverything(z) <=> ScansEverything(x)
       /\ StableIndices(z) <=> StableIndices(x)
       /\ Supported(z) <=> Supported(x)
  BY <1>1, <1>3, <1>7, <1>8, <1>9, NodeByNode DEF StableNode, SupportedNode
<1>15. SortableSources(z) <=> SortableSources(x)
  <2>1. Sortable(z.source) <=> Sortable(x.source)
    BY <1>5, <1>7 DEF Sortable
  <2> QED
    BY <1>1, <1>3, <1>7, <1>8, <1>9, <2>1, SortableByNode
<1>16. ReceivedAs(x, z)
  BY <1>10, <1>11, <1>12, <1>13, <1>14, <1>15 DEF ReceivedAs
<1> QED
  BY <1>8, <1>16 DEF z

\* A node over an input that was received.
LEMMA ReceivedUnary ==
  ASSUME NEW x \in LogicalPlans, x.op \in Unary,
         NEW y \in LogicalPlans, ReceivedAs(x.input, y),
         NEW z \in LogicalPlans, SameNode(x, z, y)
  PROVE  ReceivedAs(x, z)
<1>1. /\ z.op = x.op
      /\ z.input = y
      /\ children(z) = {y}
      /\ ExpressionsOf(z) = ExpressionsOf(x)
      /\ x.op \in {"projection", "aggregate"} => OutputExprs(z) = OutputExprs(x)
      /\ x.op = "aggregate" => z.aggregate_expr = x.aggregate_expr
  BY DEF SameNode
<1>2. children(x) = {x.input}
  BY InputsTyped DEF PlanShape, Unary
<1>3. /\ schema(y) = schema(x.input)
      /\ HasSchema(y) <=> HasSchema(x.input)
      /\ NamesItsColumns(y) <=> NamesItsColumns(x.input)
      /\ ScansEverything(y) <=> ScansEverything(x.input)
      /\ StableIndices(y) <=> StableIndices(x.input)
      /\ WellFormed(y) <=> WellFormed(x.input)
      /\ Supported(y) <=> Supported(x.input)
      /\ SortableSources(y) <=> SortableSources(x.input)
  BY DEF ReceivedAs
<1>4. x.op \notin {"scan", "join"} /\ x.op \in {"projection", "aggregate", "selection", "limit"}
  BY DEF Unary
<1>5. schema(z) = schema(x)
  <2>1. CASE x.op \in {"projection", "aggregate"}
    <3>1. schema(x) = [i \in DOMAIN OutputExprs(x) |-> to_field(OutputExprs(x)[i], schema(x.input))]
      BY <2>1, SchemaCases
    <3>2. schema(z) = [i \in DOMAIN OutputExprs(z) |-> to_field(OutputExprs(z)[i], schema(z.input))]
      BY <1>1, <2>1, SchemaCases
    <3>3. OutputExprs(z) = OutputExprs(x) /\ schema(z.input) = schema(x.input)
      BY <1>1, <1>3, <2>1
    <3> QED
      BY <3>1, <3>2, <3>3
  <2>2. CASE x.op \in {"selection", "limit"}
    BY <1>1, <1>3, <2>2, SchemaCases
  <2> QED
    BY <1>4, <2>1, <2>2
<1>6. SchemaReferences(z) = SchemaReferences(x)
  BY <1>1 DEF SchemaReferences
<1>7. HasSchema(z) <=> HasSchema(x)
  BY <1>1, <1>2, <1>3, <1>4, <1>6, HasSchemaOf
<1>8. NamesItsColumns(z) <=> NamesItsColumns(x)
  BY <1>1, <1>3, NamesItsColumnsOf
<1>9. ScansEverything(z) <=> ScansEverything(x)
  BY <1>1, <1>2, <1>3, <1>4, NodeByNode
<1>10. StableIndices(z) <=> StableIndices(x)
  BY <1>1, <1>2, <1>3, NodeByNode DEF StableNode
<1>11. WellFormed(z) <=> WellFormed(x)
  <2>1. WellFormedNode(z) <=> WellFormedNode(x)
    BY <1>1, <1>3, <1>4, <1>7 DEF WellFormedNode, KeysResolve
  <2> QED
    BY <1>1, <1>2, <1>3, <2>1, NodeByNode
<1>12. Supported(z) <=> Supported(x)
  <2>1. SupportedNode(z) <=> SupportedNode(x)
    BY <1>1 DEF SupportedNode
  <2> QED
    BY <1>1, <1>2, <1>3, <2>1, NodeByNode
<1>13. SortableSources(z) <=> SortableSources(x)
  BY <1>1, <1>2, <1>3, <1>4, SortableByNode
<1> QED
  BY <1>5, <1>7, <1>8, <1>9, <1>10, <1>11, <1>12, <1>13 DEF ReceivedAs

\* A node with one input is read back as it was, over what was read back of its input.
LEMMA TransferUnary ==
  ASSUME NEW k \in 1..MaxPlanDepth, NEW x \in LogicalPlansWithin(k), x.op \in Unary, SurvivesTransferNode(x),
         transfer_logical_plan(x.input) \in LogicalPlansWithin(k - 1)
  PROVE  /\ transfer_logical_plan(x) \in LogicalPlansWithin(k)
         /\ SameNode(x, transfer_logical_plan(x), transfer_logical_plan(x.input))
<1> DEFINE y == transfer_logical_plan(x.input)
           z == transfer_logical_plan(x)
           e == [x EXCEPT !.input = y]
<1>0. k \in 0..MaxPlanDepth /\ x \in LogicalPlans
  BY PlanDepthAssumption, PlanTower
<1>1. PlanShape(x, LogicalPlans)
  BY <1>0, InputsTyped
<1>2. \A f \in ExpressionsOf(x) : transfer_logical_expr(f) = f
  BY <1>0, OutputExprsOf, ExprSurvives DEF SurvivesTransferNode
<1> HIDE DEF y
<1>3. y \in LogicalPlansWithin(k - 1)
  BY DEF y
<1>4. e \in LogicalPlansWithin(k)
  BY <1>3, WithInput
<1>5. SameNode(x, e, y)
  BY <1>0, OverInput
<1>6. CASE x.op = "selection"
  <2>1. z = Selection(y, transfer_logical_expr(x.expr))
    BY <1>0, <1>6, TransferPlanOf DEF y
  <2>2. transfer_logical_expr(x.expr) = x.expr
    BY <1>2, <1>6 DEF ExpressionsOf
  <2>3. x = Selection(x.input, x.expr)
    BY <1>1, <1>6 DEF PlanShape
  <2>4. z = e
    BY <2>1, <2>2, <2>3 DEF Selection
  <2> QED
    BY <1>4, <1>5, <2>4 DEF y
<1>7. CASE x.op = "projection"
  <2>1. z = Projection(y, transfer_logical_exprs(x.exprs))
    BY <1>0, <1>7, TransferPlanOf DEF y
  <2>2. x = Projection(x.input, x.exprs) /\ x.exprs \in Seq(LogicalExprs)
    BY <1>1, <1>7 DEF PlanShape
  <2>3. transfer_logical_exprs(x.exprs) = x.exprs
    <3>1. \A i \in DOMAIN x.exprs : transfer_logical_expr(x.exprs[i]) = x.exprs[i]
      BY <1>2, <1>7 DEF ExpressionsOf, ToSet
    <3>2. x.exprs = [i \in DOMAIN x.exprs |-> x.exprs[i]]
      BY <2>2
    <3> QED
      BY <3>1, <3>2 DEF transfer_logical_exprs
  <2>4. z = e
    BY <2>1, <2>2, <2>3 DEF Projection
  <2> QED
    BY <1>4, <1>5, <2>4 DEF y
<1>8. CASE x.op = "aggregate"
  <2> DEFINE aggr == [i \in DOMAIN x.aggregate_expr |->
                        aggregate_expr(x.aggregate_expr[i].fn,
                                       transfer_logical_expr(x.aggregate_expr[i].expr))]
  <2>1. z = Aggregate(y, transfer_logical_exprs(x.group_expr), aggr)
    BY <1>0, <1>8, TransferPlanOf DEF y
  <2>2. /\ x = Aggregate(x.input, x.group_expr, x.aggregate_expr)
        /\ x.group_expr \in Seq(LogicalExprs) /\ x.aggregate_expr \in Seq(AggregateExprs)
    BY <1>1, <1>8 DEF PlanShape
  <2>3. transfer_logical_exprs(x.group_expr) = x.group_expr
    <3>1. \A i \in DOMAIN x.group_expr : transfer_logical_expr(x.group_expr[i]) = x.group_expr[i]
      BY <1>2, <1>8 DEF ExpressionsOf, ToSet
    <3>2. x.group_expr = [i \in DOMAIN x.group_expr |-> x.group_expr[i]]
      BY <2>2
    <3> QED
      BY <3>1, <3>2 DEF transfer_logical_exprs
  <2>4. aggr = x.aggregate_expr
    <3>1. ASSUME NEW i \in DOMAIN x.aggregate_expr
          PROVE  aggregate_expr(x.aggregate_expr[i].fn, transfer_logical_expr(x.aggregate_expr[i].expr))
                   = x.aggregate_expr[i]
      <4> DEFINE a == x.aggregate_expr[i]
      <4>1. a \in LogicalExprs /\ a.op = "aggregate"
        BY <2>2 DEF AggregateExprs
      <4>2. a.expr \in ExpressionsOf(x)
        BY <1>8 DEF ExpressionsOf
      <4>3. transfer_logical_expr(a.expr) = a.expr
        BY <1>2, <4>2
      <4>4. a = aggregate_expr(a.fn, a.expr)
        BY <4>1, OperandsTyped DEF ExprShape
      <4> QED
        BY <4>3, <4>4
    <3>2. x.aggregate_expr = [i \in DOMAIN x.aggregate_expr |-> x.aggregate_expr[i]]
      BY <2>2
    <3> QED
      BY <3>1, <3>2
  <2> HIDE DEF aggr
  <2>5. z = e
    BY <2>1, <2>2, <2>3, <2>4 DEF Aggregate
  <2> QED
    BY <1>4, <1>5, <2>5 DEF y
<1>9. CASE x.op = "limit"
  <2> DEFINE n == Wrap(x.limit % (2 * Half))
             inner == LogicalPlansWithin(k - 1)
  <2>1. z = Limit(y, n)
    BY <1>0, <1>9, TransferPlanOf DEF y
  <2>2. n \in Int
    <3>1. x.limit \in Int
      BY <1>1, <1>9 DEF PlanShape
    <3>2. Half \in Nat /\ Half # 0
      BY WidthAssumption
    <3>3. 2 * Half \in Int /\ 2 * Half > 0
      BY <3>2
    <3> DEFINE w == 2 * Half
    <3> HIDE DEF w
    <3>4. x.limit % w \in Int
      BY <3>1, <3>3 DEF w
    <3>5. (((x.limit % w) + Half) % w) \in Int
      BY <3>2, <3>3, <3>4 DEF w
    <3> QED
      BY <3>2, <3>5 DEF Wrap, w
  <2>3. LogicalPlansWithin(k) = PlanForms(inner, LogicalExprs)
    <3>1. k # 0
      OBVIOUS
    <3> QED
      BY <1>0, <3>1, PlanLevels
  <2> HIDE DEF n, inner, z
  <2>4. y \in inner
    BY <1>3 DEF inner
  <2>5. z \in LogicalPlansWithin(k)
    BY <2>1, <2>2, <2>3, <2>4 DEF PlanForms, Limit
  <2>6. SameNode(x, z, y)
    BY <1>9, <2>1 DEF SameNode, Limit, children, ExpressionsOf
  <2> QED
    BY <2>5, <2>6 DEF y, z
<1> QED
  BY <1>6, <1>7, <1>8, <1>9 DEF Unary

\* A plan that can be sent, and read where it arrives, arrives as good as it was, if its
\* CSV sources declare no schema.
LEMMA PlanReceived ==
  \A x \in LogicalPlans : SurvivesTransfer(x) =>
    transfer_logical_plan(x) \in LogicalPlans /\ ReceivedAs(x, transfer_logical_plan(x))
<1> DEFINE T(x) == transfer_logical_plan(x)
           S == {x \in LogicalPlans : SurvivesTransfer(x) =>
                   \A k \in 0..MaxPlanDepth : x \in LogicalPlansWithin(k) =>
                     T(x) \in LogicalPlansWithin(k) /\ ReceivedAs(x, T(x))}
<1>1. ASSUME NEW x \in LogicalPlans, children(x) \subseteq S PROVE x \in S
  <2>1. SUFFICES ASSUME SurvivesTransfer(x), NEW k \in 0..MaxPlanDepth, x \in LogicalPlansWithin(k)
                 PROVE  T(x) \in LogicalPlansWithin(k) /\ ReceivedAs(x, T(x))
    BY <1>1
  <2>2. SurvivesTransferNode(x) /\ \A c \in children(x) : SurvivesTransfer(c)
    BY <2>1, NodeByNode
  <2>3. PlanShape(x, IF k = 0 THEN {} ELSE LogicalPlansWithin(k - 1))
    BY <2>1, InputsTyped
  <2>4. CASE x.op = "scan"
    BY <2>1, <2>2, <2>4, ReceivedScan
  <2>5. CASE x.op \in Unary
    <3>1. children(x) = {x.input} /\ x.input \in IF k = 0 THEN {} ELSE LogicalPlansWithin(k - 1)
      BY <2>3, <2>5 DEF PlanShape, Unary
    <3>2. k \in 1..MaxPlanDepth /\ k - 1 \in 0..MaxPlanDepth /\ x.input \in LogicalPlansWithin(k - 1)
      BY <2>1, <3>1, PlanDepthAssumption
    <3>3. T(x.input) \in LogicalPlansWithin(k - 1) /\ ReceivedAs(x.input, T(x.input))
      BY <1>1, <2>2, <3>1, <3>2
    <3>4. T(x) \in LogicalPlansWithin(k) /\ SameNode(x, T(x), T(x.input))
      BY <2>1, <2>2, <2>5, <3>2, <3>3, TransferUnary
    <3>5. T(x) \in LogicalPlans /\ T(x.input) \in LogicalPlans
      BY <3>2, <3>3, <3>4, PlanTower
    <3> HIDE DEF T
    <3>6. ReceivedAs(x, T(x))
      BY <2>5, <3>3, <3>4, <3>5, ReceivedUnary
    <3> QED
      BY <3>4, <3>6
  <2>6. x.op # "join"
    BY <2>2 DEF SurvivesTransferNode
  <2> QED
    BY <2>3, <2>4, <2>5, <2>6 DEF PlanShape, PlanOps, Unary
<1>2. LogicalPlans \subseteq S
  <2> HIDE DEF S
  <2> QED
    BY <1>1, PlanInduction
<1>3. MaxPlanDepth \in 0..MaxPlanDepth
  BY PlanDepthAssumption
<1> QED
  BY <1>2, <1>3 DEF LogicalPlans

-------------------------------------------------------------------------------
(* The states of a query. *)

\* What was received is the plan of the DataFrame, or what the server read of it.
ReceivedInv ==
    \/ context \in {"local", "distributed"} /\ received = plan
    \/ /\ context = "flight"
       /\ CanSerializePlan(plan) /\ CanDeserializePlan(plan)
       /\ received = transfer_logical_plan(plan)

\* A query that failed while it was planned: push-down panicked, or what it left has no
\* physical form.
Unplanned ==
    optimize(received).panic \/ ~Lowerable(optimize(received).plan)

\* The plans of a query, phase by phase: the plan is of a depth that its operations
\* bound, and each later plan comes of the one before it.  A query that failed while it
\* was planned has ended in a panic, or for the client of a server without a batch.
QueryInv ==
    /\ ops \in 0..MaxOps
    /\ plan \in LogicalPlansWithin(MaxPlanDepth - MaxOps + ops)
    /\ ScansEverything(plan)
    /\ SortableSources(plan)
    /\ phase = "building" => received = NoPlan
    /\ phase \in {"received", "optimized", "planned", "sent", "done"} => ReceivedInv
    /\ phase \in {"optimized", "planned", "sent"} =>
         ~optimize(received).panic /\ optimized = optimize(received).plan
    /\ phase \in {"planned", "sent"} =>
         Lowerable(optimized) /\ (received \in LogicalPlans => physical # NoPlan)
    /\ phase # "done" => output = <<>>
    /\ phase = "done" /\ (context = "flight" => output # <<>>) => ~Unplanned
    /\ phase \in {"done", "panicked"} /\ received # NoPlan =>
         ReceivedInv /\ (received \in LogicalPlans /\ physical = NoPlan => Unplanned)

\* The depth that n operations bound.
LEMMA Depths ==
  /\ MaxOps \in Nat
  /\ \A n \in 0..MaxOps : MaxPlanDepth - MaxOps + n \in 0..MaxPlanDepth
  /\ \A n \in 0..MaxOps :
       /\ n < MaxOps => MaxPlanDepth - MaxOps + (n + 1) \in 1..MaxPlanDepth
       /\ MaxPlanDepth - MaxOps + (n + 1) - 1 = MaxPlanDepth - MaxOps + n
BY QueryAssumption, PlanDepthAssumption

\* The plans that a DataFrame is joined with are no deeper than its own.
LEMMA JoinedDepth ==
  \A n \in 0..MaxOps :
    LogicalPlansWithin(MaxPlanDepth - MaxOps) \subseteq LogicalPlansWithin(MaxPlanDepth - MaxOps + n)
<1> DEFINE d == MaxPlanDepth - MaxOps
           D == {n \in 0..MaxOps : LogicalPlansWithin(d) \subseteq LogicalPlansWithin(d + n)}
<1>1. MaxOps \in Nat /\ MaxPlanDepth \in Nat /\ MaxOps <= MaxPlanDepth
  BY QueryAssumption, PlanDepthAssumption
<1>2. 0 \in D
  <2>1. 0 \in 0..MaxOps /\ d + 0 = d
    BY <1>1
  <2> QED
    BY <2>1
<1>3. ASSUME NEW n \in 1..MaxOps, n - 1 \in D PROVE n \in D
  <2>1. n \in 0..MaxOps /\ d + n \in 1..MaxPlanDepth /\ (d + n) - 1 = d + (n - 1)
    BY <1>1
  <2>2. LogicalPlansWithin((d + n) - 1) \subseteq LogicalPlansWithin(d + n)
    BY <2>1, PlanTower
  <2> QED
    BY <1>3, <2>1, <2>2
<1>4. 0..MaxOps \subseteq D
  <2> HIDE DEF D
  <2>1. \A n \in 1..MaxOps : n - 1 \in D => n \in D
    BY <1>3
  <2> QED
    BY <1>1, <1>2, <2>1, LevelInduction
<1> QED
  BY <1>4

\* Every operation of a DataFrame puts one more node on its plan.
LEMMA OneDeeper ==
  ASSUME NEW n \in 0..MaxOps, n < MaxOps, NEW p \in LogicalPlansWithin(MaxPlanDepth - MaxOps + n)
  PROVE  LET d == MaxPlanDepth - MaxOps + (n + 1)
         IN  /\ \A exprs \in Projections : Projection(p, exprs) \in LogicalPlansWithin(d)
             /\ \A e \in Predicates : Selection(p, e) \in LogicalPlansWithin(d)
             /\ \A a \in Aggregates : Aggregate(p, a[1], a[2]) \in LogicalPlansWithin(d)
             /\ \A l \in Limits : Limit(p, l) \in LogicalPlansWithin(d)
             /\ \A j \in Joins : Join(p, j[1], j[2], j[3]) \in LogicalPlansWithin(d)
<1> DEFINE d == MaxPlanDepth - MaxOps + (n + 1)
           inner == LogicalPlansWithin(d - 1)
<1>1. d \in 1..MaxPlanDepth /\ d - 1 = MaxPlanDepth - MaxOps + n
  <2>1. MaxOps \in 0..MaxPlanDepth /\ MaxPlanDepth \in Nat
    BY QueryAssumption, PlanDepthAssumption
  <2> QED
    BY <2>1
<1>2. d \in 0..MaxPlanDepth /\ d # 0
  BY <1>1, PlanDepthAssumption
<1>3. LogicalPlansWithin(d) = PlanForms(inner, LogicalExprs)
  <2> HIDE DEF d
  <2> QED
    BY <1>2, PlanLevels
<1>4. p \in inner /\ LogicalPlansWithin(MaxPlanDepth - MaxOps) \subseteq inner
  BY <1>1, JoinedDepth
<1> HIDE DEF d, inner
<1>5. ASSUME NEW exprs \in Projections PROVE Projection(p, exprs) \in PlanForms(inner, LogicalExprs)
  BY <1>4, QueryAssumption DEF PlanForms, Projection
<1>6. ASSUME NEW e \in Predicates PROVE Selection(p, e) \in PlanForms(inner, LogicalExprs)
  BY <1>4, QueryAssumption DEF PlanForms, Selection
<1>7. ASSUME NEW a \in Aggregates PROVE Aggregate(p, a[1], a[2]) \in PlanForms(inner, LogicalExprs)
  <2>1. a[1] \in Seq(LogicalExprs) /\ a[2] \in Seq(AggregateExprs)
    BY QueryAssumption
  <2> QED
    BY <1>4, <2>1 DEF PlanForms, Aggregate, AggregateExprs
<1>8. ASSUME NEW l \in Limits PROVE Limit(p, l) \in PlanForms(inner, LogicalExprs)
  BY <1>4, QueryAssumption DEF PlanForms, Limit
<1>9. ASSUME NEW j \in Joins PROVE Join(p, j[1], j[2], j[3]) \in PlanForms(inner, LogicalExprs)
  <2>1. /\ j[1] \in LogicalPlansWithin(MaxPlanDepth - MaxOps) /\ j[2] \in JoinTypes
        /\ j[3] \in Seq(STRING \X STRING)
    BY QueryAssumption
  <2> QED
    BY <1>4, <2>1 DEF PlanForms, Join
<1> QED
  BY <1>3, <1>5, <1>6, <1>7, <1>8, <1>9 DEF d

\* What push-down returns is a plan.
LEMMA OptimizedTyped ==
  ASSUME NEW p \in LogicalPlans
  PROVE  optimize(p).plan \in LogicalPlans
<1>1. MaxPlanDepth \in 0..MaxPlanDepth /\ {} \in SUBSET STRING
  BY PlanDepthAssumption
<1>2. push_down(p, {}) \in PushDownResults(MaxPlanDepth)
  BY <1>1, PushDownType DEF PushDownTyped, LogicalPlans
<1> QED
  BY <1>2 DEF PushDownResults, LogicalPlans, optimize

\* The first plan of a DataFrame.
LEMMA FirstPlan ==
  ASSUME NEW source \in Sources
  PROVE  /\ Scan(source, <<>>) \in LogicalPlansWithin(MaxPlanDepth - MaxOps + 0)
         /\ ScansEverything(Scan(source, <<>>))
         /\ SortableSources(Scan(source, <<>>))
<1> DEFINE d == MaxPlanDepth - MaxOps + 0
           p == Scan(source, <<>>)
           inner == IF d = 0 THEN {} ELSE LogicalPlansWithin(d - 1)
<1>1. d \in 0..MaxPlanDepth
  BY Depths
<1> HIDE DEF d
<1>2. LogicalPlansWithin(d) = PlanForms(inner, LogicalExprs)
  BY <1>1, PlanLevels
<1>3. source \in DataSources /\ <<>> \in Seq(STRING)
  BY QueryAssumption
<1> HIDE DEF inner
<1>4. p \in PlanForms(inner, LogicalExprs)
  BY <1>3 DEF PlanForms, Scan
<1>5. p \in LogicalPlans
  BY <1>1, <1>2, <1>4, PlanTower
<1>6. p.op = "scan" /\ p.source = source /\ p.projection = <<>> /\ children(p) = {}
  BY DEF Scan, children
<1> HIDE DEF p
<1>7. ScansEverything(p)
  BY <1>5, <1>6, NodeByNode
<1>8. SortableSources(p)
  <2>1. Sortable(source)
    BY QueryAssumption
  <2> QED
    BY <1>5, <1>6, <2>1, SortableByNode
<1> QED
  BY <1>2, <1>4, <1>7, <1>8 DEF d, p

\* An operation of a DataFrame adds no scan, but for those of a plan it is joined with.
LEMMA StillScansEverything ==
  ASSUME NEW p \in LogicalPlans, ScansEverything(p), SortableSources(p),
         NEW z \in LogicalPlans, z.op # "scan",
         \A c \in children(z) : c = p \/ \E j \in Joins : c = j[1]
  PROVE  ScansEverything(z) /\ SortableSources(z)
<1>1. ScansEverything(z)
  BY NodeByNode, QueryAssumption
<1>2. \A j \in Joins : SortableSources(j[1])
  <2>1. ASSUME NEW j \in Joins, NEW source \in SourcesOf(j[1]) PROVE Sortable(source)
    BY <2>1, QueryAssumption
  <2> QED
    BY <2>1 DEF SortableSources
<1>3. SortableSources(z)
  BY <1>2, SortableByNode
<1> QED
  BY <1>1, <1>3

\* The invariant holds of an operation's result.
LEMMA ExtendKeeps ==
  ASSUME NEW new, Extend(new), QueryInv,
         new \in LogicalPlansWithin(MaxPlanDepth - MaxOps + (ops + 1)),
         ScansEverything(new), SortableSources(new)
  PROVE  QueryInv'
<1>1. /\ ops' = ops + 1 /\ plan' = new /\ phase' = phase /\ phase = "building" /\ ops < MaxOps
      /\ received' = received /\ output' = output
  BY DEF Extend
<1>2. ops \in 0..MaxOps /\ MaxOps \in Nat
  BY Depths DEF QueryInv
<1>3. ops' \in 0..MaxOps
  BY <1>1, <1>2
<1>4. /\ phase' \notin {"received", "optimized", "planned", "sent", "done", "panicked"}
      /\ received' = NoPlan /\ output' = <<>>
  BY <1>1 DEF QueryInv
<1> QED
  BY <1>1, <1>3, <1>4 DEF QueryInv

\* The plans of a query are of the depth its operations bound, and come of one another.
LEMMA QueryInvariant == Spec => []QueryInv
<1>1. Init => QueryInv
  <2>1. SUFFICES ASSUME Init PROVE QueryInv
    OBVIOUS
  <2>2. PICK source \in Sources : plan = Scan(source, <<>>)
    BY <2>1 DEF Init
  <2>3. ops = 0 /\ phase = "building" /\ received = NoPlan /\ output = <<>>
    BY <2>1 DEF Init
  <2>4. /\ plan \in LogicalPlansWithin(MaxPlanDepth - MaxOps + ops)
        /\ ScansEverything(plan) /\ SortableSources(plan)
    BY <2>2, <2>3, FirstPlan
  <2>5. ops \in 0..MaxOps
    BY <2>3, Depths
  <2> QED
    BY <2>3, <2>4, <2>5 DEF QueryInv
<1>2. QueryInv /\ [Next]_vars => QueryInv'
  <2> SUFFICES ASSUME QueryInv, [Next]_vars PROVE QueryInv'
    OBVIOUS
  <2> DEFINE d == MaxPlanDepth - MaxOps + (ops + 1)
  <2>1. /\ ops \in 0..MaxOps /\ plan \in LogicalPlansWithin(MaxPlanDepth - MaxOps + ops)
        /\ ScansEverything(plan) /\ SortableSources(plan)
    BY DEF QueryInv
  <2>2. plan \in LogicalPlans
    BY <2>1, Depths, PlanTower
  <2>3. ops < MaxOps => \A z \in LogicalPlansWithin(d) : z \in LogicalPlans
    <3>1. ops < MaxOps => d \in 0..MaxPlanDepth
      BY <2>1, Depths, PlanDepthAssumption
    <3> HIDE DEF d
    <3> QED
      BY <3>1, PlanTower
  <2>4. CASE Project
    <3>1. PICK exprs \in Projections : Extend(Projection(plan, exprs))
      BY <2>4 DEF Project
    <3> DEFINE new == Projection(plan, exprs)
    <3>2. ops < MaxOps
      BY <3>1 DEF Extend
    <3>3. new \in LogicalPlansWithin(d)
      BY <2>1, <3>2, OneDeeper
    <3>4. new.op # "scan" /\ children(new) = {plan}
      BY DEF Projection, children
    <3> HIDE DEF new
    <3>5. ScansEverything(new) /\ SortableSources(new)
      BY <2>1, <2>2, <2>3, <3>2, <3>3, <3>4, StillScansEverything
    <3> QED
      BY <3>1, <3>3, <3>5, ExtendKeeps DEF new
  <2>5. CASE Filter
    <3>1. PICK expr \in Predicates : Extend(Selection(plan, expr))
      BY <2>5 DEF Filter
    <3> DEFINE new == Selection(plan, expr)
    <3>2. ops < MaxOps
      BY <3>1 DEF Extend
    <3>3. new \in LogicalPlansWithin(d)
      BY <2>1, <3>2, OneDeeper
    <3>4. new.op # "scan" /\ children(new) = {plan}
      BY DEF Selection, children
    <3> HIDE DEF new
    <3>5. ScansEverything(new) /\ SortableSources(new)
      BY <2>1, <2>2, <2>3, <3>2, <3>3, <3>4, StillScansEverything
    <3> QED
      BY <3>1, <3>3, <3>5, ExtendKeeps DEF new
  <2>6. CASE DoAggregate
    <3>1. PICK a \in Aggregates : Extend(Aggregate(plan, a[1], a[2]))
      BY <2>6 DEF DoAggregate
    <3> DEFINE new == Aggregate(plan, a[1], a[2])
    <3>2. ops < MaxOps
      BY <3>1 DEF Extend
    <3>3. new \in LogicalPlansWithin(d)
      BY <2>1, <3>2, OneDeeper
    <3>4. new.op # "scan" /\ children(new) = {plan}
      BY DEF Aggregate, children
    <3> HIDE DEF new
    <3>5. ScansEverything(new) /\ SortableSources(new)
      BY <2>1, <2>2, <2>3, <3>2, <3>3, <3>4, StillScansEverything
    <3> QED
      BY <3>1, <3>3, <3>5, ExtendKeeps DEF new
  <2>7. CASE DoLimit
    <3>1. PICK n \in Limits : Extend(Limit(plan, n))
      BY <2>7 DEF DoLimit
    <3> DEFINE new == Limit(plan, n)
    <3>2. ops < MaxOps
      BY <3>1 DEF Extend
    <3>3. new \in LogicalPlansWithin(d)
      BY <2>1, <3>2, OneDeeper
    <3>4. new.op # "scan" /\ children(new) = {plan}
      BY DEF Limit, children
    <3> HIDE DEF new
    <3>5. ScansEverything(new) /\ SortableSources(new)
      BY <2>1, <2>2, <2>3, <3>2, <3>3, <3>4, StillScansEverything
    <3> QED
      BY <3>1, <3>3, <3>5, ExtendKeeps DEF new
  <2>8. CASE DoJoin
    <3>1. PICK j \in Joins : Extend(Join(plan, j[1], j[2], j[3]))
      BY <2>8 DEF DoJoin
    <3> DEFINE new == Join(plan, j[1], j[2], j[3])
    <3>2. ops < MaxOps
      BY <3>1 DEF Extend
    <3>3. new \in LogicalPlansWithin(d)
      BY <2>1, <3>2, OneDeeper
    <3>4. new.op # "scan" /\ children(new) = {plan, j[1]}
      BY DEF Join, children
    <3> HIDE DEF new
    <3>5. ScansEverything(new) /\ SortableSources(new)
      BY <2>1, <2>2, <2>3, <3>2, <3>3, <3>4, StillScansEverything
    <3> QED
      BY <3>1, <3>3, <3>5, ExtendKeeps DEF new
  <2>9. CASE ExecuteHere
    <3>1. /\ phase' = "received" /\ received' = plan /\ context' \in {"local", "distributed"}
          /\ plan' = plan /\ ops' = ops /\ output' = output /\ phase = "building"
      BY <2>9 DEF ExecuteHere
    <3> QED
      BY <2>1, <3>1 DEF QueryInv, ReceivedInv
  <2>10. CASE ExecuteOnServer
    <3>1. /\ plan' = plan /\ ops' = ops /\ context' = "flight"
          /\ output' = output /\ phase = "building"
      BY <2>10 DEF ExecuteOnServer
    <3>4. output' = <<>>
      BY <3>1 DEF QueryInv
    <3>2. CASE CanSerializePlan(plan) /\ CanDeserializePlan(plan)
      <4>1. phase' = "received" /\ received' = transfer_logical_plan(plan)
        BY <2>10, <3>2 DEF ExecuteOnServer
      <4> QED
        BY <2>1, <3>1, <3>2, <3>4, <4>1 DEF QueryInv, ReceivedInv
    <3>3. CASE ~(CanSerializePlan(plan) /\ CanDeserializePlan(plan))
      <4>1. phase' = "panicked" /\ phase = "building" /\ received' = received
        BY <2>10, <3>3 DEF ExecuteOnServer
      <4>2. received' = NoPlan
        BY <4>1 DEF QueryInv
      <4> QED
        BY <2>1, <3>1, <3>4, <4>1, <4>2 DEF QueryInv
    <3> QED
      BY <3>2, <3>3
  <2>11. CASE Optimize
    <3>1. /\ plan' = plan /\ ops' = ops /\ context' = context /\ received' = received
          /\ phase = "received"
      BY <2>11 DEF Optimize
    <3>2. ReceivedInv /\ output = <<>>
      BY <3>1 DEF QueryInv
    <3>3. ReceivedInv'
      BY <3>1, <3>2 DEF ReceivedInv
    <3>4. CASE optimize(received).panic
      <4>1. Unplanned'
        BY <3>1, <3>3, <3>4 DEF Unplanned
      <4>2. PlanningPanics
        BY <2>11, <3>4 DEF Optimize
      <4>3. /\ phase' = (IF context = "flight" THEN "done" ELSE "panicked")
            /\ output' = <<>>
        BY <3>2, <4>2 DEF PlanningPanics, EndsStream, ReachesCaller
      <4> QED
        BY <2>1, <3>1, <3>3, <4>1, <4>3 DEF QueryInv
    <3>5. CASE ~optimize(received).panic
      <4>1. phase' = "optimized" /\ optimized' = optimize(received).plan /\ output' = output
        BY <2>11, <3>5 DEF Optimize
      <4> QED
        BY <2>1, <3>1, <3>2, <3>3, <3>5, <4>1 DEF QueryInv
    <3> QED
      BY <3>4, <3>5
  <2>12. CASE CreatePhysicalPlan
    <3>1. /\ plan' = plan /\ ops' = ops /\ context' = context /\ received' = received
          /\ optimized' = optimized /\ phase = "optimized"
      BY <2>12 DEF CreatePhysicalPlan
    <3>2. /\ ReceivedInv /\ ~optimize(received).panic /\ optimized = optimize(received).plan
          /\ output = <<>>
      BY <3>1 DEF QueryInv
    <3>3. ReceivedInv'
      BY <3>1, <3>2 DEF ReceivedInv
    <3>4. CASE Lowerable(optimized)
      <4>1. /\ phase' = "planned" /\ physical' = create_physical_plan(optimized)
            /\ output' = output
        BY <2>12, <3>4 DEF CreatePhysicalPlan
      <4>2. received \in LogicalPlans => physical' # NoPlan
        <5>1. SUFFICES ASSUME received \in LogicalPlans PROVE physical' # NoPlan
          OBVIOUS
        <5>2. optimized \in LogicalPlans
          BY <3>2, <5>1, OptimizedTyped
        <5>3. physical'.op = optimized.op /\ optimized.op \in PlanOps
          BY <4>1, <5>2, LoweredOp, InputsTyped DEF PlanShape
        <5> QED
          BY <5>3 DEF PlanOps, NoPlan
      <4> QED
        BY <2>1, <3>1, <3>2, <3>3, <3>4, <4>1, <4>2 DEF QueryInv
    <3>5. CASE ~Lowerable(optimized)
      <4>1. Unplanned'
        BY <3>1, <3>2, <3>3, <3>5 DEF Unplanned
      <4>2. PlanningPanics
        BY <2>12, <3>5 DEF CreatePhysicalPlan
      <4>3. /\ phase' = (IF context = "flight" THEN "done" ELSE "panicked")
            /\ output' = <<>>
        BY <3>2, <4>2 DEF PlanningPanics, EndsStream, ReachesCaller
      <4> QED
        BY <2>1, <3>1, <3>3, <4>1, <4>3 DEF QueryInv
    <3> QED
      BY <3>4, <3>5
  <2>13. CASE SendTasks \/ Execute
    <3>1. /\ plan' = plan /\ ops' = ops /\ context' = context /\ received' = received
          /\ optimized' = optimized /\ physical' = physical /\ phase \in {"planned", "sent"}
      BY <2>13 DEF SendTasks, Execute
    <3>2. /\ ReceivedInv /\ ~optimize(received).panic /\ optimized = optimize(received).plan
          /\ Lowerable(optimized) /\ (received \in LogicalPlans => physical # NoPlan)
          /\ output = <<>>
      BY <3>1 DEF QueryInv
    <3>3. ReceivedInv' /\ ~Unplanned'
      BY <3>1, <3>2 DEF ReceivedInv, Unplanned
    <3>4. ASSUME NEW x, Drain(x)
          PROVE  (phase' = "panicked" /\ output' = output) \/ phase' = "done"
      <4>1. PICK stream \in Executions(x, db) :
              \/ ReachesCaller
              \/ EndsStream(stream.batches)
              \/ phase' = "done"
        BY <3>4 DEF Drain
      <4> QED
        BY <4>1 DEF ReachesCaller, EndsStream
    <3>5. (phase' \in {"sent", "panicked"} /\ output' = output) \/ phase' = "done"
      <4>1. CASE SendTasks
        BY <4>1 DEF SendTasks
      <4>2. CASE Execute
        <5>1. ReachesCaller \/ \E x : Drain(x)
          BY <4>2 DEF Execute
        <5> QED
          BY <3>4, <5>1 DEF ReachesCaller
      <4> QED
        BY <2>13, <4>1, <4>2
    <3> QED
      BY <2>1, <3>1, <3>2, <3>3, <3>5 DEF QueryInv
  <2>14. CASE UNCHANGED vars \/ Finished
    <3>1. /\ plan' = plan /\ ops' = ops /\ context' = context /\ received' = received
          /\ optimized' = optimized /\ physical' = physical /\ phase' = phase
          /\ output' = output
      BY <2>14 DEF Finished, vars
    <3> QED
      BY <3>1 DEF QueryInv, ReceivedInv, Unplanned
  <2> QED
    BY <2>4, <2>5, <2>6, <2>7, <2>8, <2>9, <2>10, <2>11, <2>12, <2>13, <2>14 DEF Next
<1> QED
  BY <1>1, <1>2, PTL DEF Spec

\* A query that returned rows is well formed.
LEMMA AnsweredIsWellFormed == QueryInv => OnlyWellFormedAnswered
<1>1. SUFFICES ASSUME QueryInv, phase = "done", context = "flight" => output # <<>>,
                      StableIndices(plan), ReadAsWritten(plan)
               PROVE  WellFormed(plan) /\ Supported(plan)
  BY DEF OnlyWellFormedAnswered
<1>2. /\ ops \in 0..MaxOps /\ plan \in LogicalPlansWithin(MaxPlanDepth - MaxOps + ops)
      /\ ScansEverything(plan) /\ ReceivedInv
      /\ ~optimize(received).panic /\ Lowerable(optimize(received).plan)
  BY <1>1 DEF QueryInv, Unplanned
<1>3. plan \in LogicalPlans
  BY <1>2, Depths, PlanTower
<1>4. ASSUME NEW p \in LogicalPlans, p = received, ScansEverything(p), StableIndices(p)
      PROVE  WellFormed(p) /\ Supported(p)
  <2>1. {} \in SUBSET STRING
    OBVIOUS
  <2>2. Narrowed(p, push_down(p, {}).plan)
    BY <1>2, <1>4, <2>1, PushDownKept DEF PushDownNarrows, optimize
  <2> QED
    BY <2>2 DEF Narrowed
<1>5. CASE received = plan
  BY <1>1, <1>2, <1>3, <1>4, <1>5
<1>6. CASE /\ context = "flight"
           /\ CanSerializePlan(plan) /\ CanDeserializePlan(plan)
           /\ received = transfer_logical_plan(plan)
  <2>1. SurvivesTransfer(plan)
    <3>1. ASSUME NEW n \in Nodes(plan), n.op = "scan", n.source.kind = "csv"
          PROVE  n.source.schema = <<>>
      <4>1. n.source \in SourcesOf(plan)
        BY <3>1 DEF SourcesOf
      <4> QED
        BY <1>1, <1>6, <3>1, <4>1 DEF ReadAsWritten
    <3> QED
      BY <1>6, <3>1 DEF SurvivesTransfer, SurvivesTransferNode, CanSerializePlan, CanDeserializePlan
  <2>2. received \in LogicalPlans /\ ReceivedAs(plan, received)
    BY <1>3, <1>6, <2>1, PlanReceived
  <2>3. WellFormed(received) /\ Supported(received)
    BY <1>1, <1>2, <1>4, <2>2 DEF ReceivedAs
  <2> QED
    BY <2>2, <2>3 DEF ReceivedAs
<1> QED
  BY <1>2, <1>5, <1>6 DEF ReceivedInv

\* push_down, create_physical_plan and the plan's way to a server: in each context, only
\* a query whose every name and index refers to a column of the input it is written
\* for, and which uses supported operators, returns rows.
THEOREM WellFormedAnswers == Spec => []OnlyWellFormedAnswered
<1>1. QueryInv => OnlyWellFormedAnswered
  BY AnsweredIsWellFormed
<1> QED
  BY <1>1, QueryInvariant, PTL

\* A valid query is not refused while it is planned.
LEMMA ValidIsNotRefused == QueryInv => ValidIsPlanned
<1>1. SUFFICES ASSUME QueryInv, phase \in {"panicked", "done"},
                      received # NoPlan, physical = NoPlan,
                      WellFormed(plan), Supported(plan), StableIndices(plan), KeepsSchemas(plan)
               PROVE  FALSE
  BY DEF ValidIsPlanned
<1>2. /\ ops \in 0..MaxOps /\ plan \in LogicalPlansWithin(MaxPlanDepth - MaxOps + ops)
      /\ ScansEverything(plan) /\ SortableSources(plan) /\ ReceivedInv
      /\ received \in LogicalPlans => Unplanned
  BY <1>1 DEF QueryInv
<1>3. plan \in LogicalPlans
  BY <1>2, Depths, PlanTower
<1>4. ASSUME NEW p \in LogicalPlans, p = received, ValidPlan(p)
      PROVE  FALSE
  <2>1. {} \in SUBSET STRING
    OBVIOUS
  <2>2. ~push_down(p, {}).panic /\ Lowerable(push_down(p, {}).plan)
    BY <1>4, <2>1, PushDownSuffices DEF PushDownServes
  <2> QED
    BY <1>2, <1>4, <2>2 DEF Unplanned, optimize
<1>5. ValidPlan(plan)
  BY <1>1, <1>2 DEF ValidPlan
<1>6. CASE received = plan
  BY <1>3, <1>4, <1>5, <1>6
<1>7. CASE /\ context = "flight"
           /\ CanSerializePlan(plan) /\ CanDeserializePlan(plan)
           /\ received = transfer_logical_plan(plan)
  <2>1. SurvivesTransfer(plan)
    <3>1. ASSUME NEW n \in Nodes(plan), n.op = "scan", n.source.kind = "csv"
          PROVE  n.source.schema = <<>>
      <4>1. n.source \in SourcesOf(plan)
        BY <3>1 DEF SourcesOf
      <4> QED
        BY <1>1, <1>7, <3>1, <4>1 DEF KeepsSchemas
    <3> QED
      BY <1>7, <3>1 DEF SurvivesTransfer, SurvivesTransferNode, CanSerializePlan, CanDeserializePlan
  <2>2. received \in LogicalPlans /\ ReceivedAs(plan, received)
    BY <1>3, <1>7, <2>1, PlanReceived
  <2>3. ValidPlan(received)
    BY <1>5, <2>2 DEF ReceivedAs, ValidPlan
  <2> QED
    BY <1>4, <2>2, <2>3
<1> QED
  BY <1>2, <1>6, <1>7 DEF ReceivedInv

\* push_down and create_physical_plan, the other way round: in each context, a query whose
\* every name and index refers to a column of the input it is written for, and which uses
\* supported operators, is planned once it is where it runs; push-down leaves every column
\* that an expression, a join key or an output above it needs.
THEOREM ValidQueriesArePlanned == Spec => []ValidIsPlanned
<1>1. QueryInv => ValidIsPlanned
  BY ValidIsNotRefused
<1> QED
  BY <1>1, QueryInvariant, PTL
===============================================================================
