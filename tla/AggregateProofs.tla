---------------------------- MODULE AggregateProofs ----------------------------
(***************************************************************************)
(* What the accumulators of HashAggregate compute: each is a reduction in  *)
(* a commutative monoid, so that partial results can be merged.            *)
(***************************************************************************)
EXTENDS ParallelAggregate, Reductions

-------------------------------------------------------------------------------
(* Wrapping integers and cells. *)

\* The remainder is the only number in the range that differs by multiples of K.
LEMMA Remainder ==
  ASSUME NEW K \in Nat \ {0}, NEW x \in Int, NEW q \in Int, NEW r \in 0..(K - 1), x = K * q + r
  PROVE  x % K = r
  OBVIOUS

\* Wrapping gives a number in range that differs by a multiple of the width.
LEMMA WrapRange ==
  ASSUME NEW n \in Int
  PROVE  /\ Wrap(n) \in -Half..(Half - 1)
         /\ \E q \in Int : n = (2 * Half) * q + Wrap(n)
<1> DEFINE K == 2 * Half
           x == n + Half
<1>1. K \in Nat \ {0} /\ Half \in Nat /\ x \in Int /\ K = Half + Half
  BY WidthAssumption
<1>2. Wrap(n) = (x % K) - Half
  BY DEF Wrap
<1> HIDE DEF K
<1>3. x % K \in 0..(K - 1) /\ x \div K \in Int /\ x = K * (x \div K) + (x % K)
  <2> HIDE DEF x
  <2>1. x % K \in 0..(K - 1) /\ x \div K \in Int
    BY <1>1
  <2>2. x = K * (x \div K) + (x % K)
    BY <1>1
  <2> QED
    BY <2>1, <2>2
<1>4. n = K * (x \div K) + Wrap(n)
  <2> DEFINE p == K * (x \div K)
             y == x % K
  <2>1. p \in Int /\ y \in Int /\ x = p + y /\ Wrap(n) = y - Half
    BY <1>1, <1>2, <1>3
  <2> HIDE DEF p, y
  <2>2. n = p + Wrap(n)
    BY <1>1, <2>1
  <2> QED
    BY <2>2 DEF p
<1>5. Wrap(n) \in -Half..(Half - 1)
  <2> DEFINE y == x % K
  <2>1. y \in 0..(K - 1) /\ Wrap(n) = y - Half
    BY <1>2, <1>3
  <2> HIDE DEF y, x
  <2> QED
    BY <1>1, <2>1
<1> QED
  BY <1>3, <1>4, <1>5 DEF K

\* Only one number in range does.
LEMMA WrapUnique ==
  ASSUME NEW n \in Int, NEW q \in Int, NEW r \in -Half..(Half - 1), n = (2 * Half) * q + r
  PROVE  Wrap(n) = r
<1> DEFINE K == 2 * Half
           x == n + Half
           y == r + Half
<1>1. K \in Nat \ {0} /\ Half \in Nat /\ K = Half + Half
  BY WidthAssumption
<1>2. x \in Int /\ y \in 0..(K - 1) /\ Wrap(n) = (x % K) - Half
  BY <1>1 DEF Wrap
<1>3. x = K * q + y
  <2> DEFINE p == K * q
  <2>1. p \in Int /\ n = p + r
    BY <1>1
  <2> HIDE DEF p
  <2>2. x = p + y
    BY <1>1, <2>1
  <2> QED
    BY <2>2 DEF p
<1>4. x % K = y
  <2> HIDE DEF x, y, K
  <2> QED
    BY <1>1, <1>2, <1>3, Remainder
<1> QED
  BY <1>1, <1>2, <1>4

\* Wrapping once is wrapping after every addition.
LEMMA WrapSum ==
  ASSUME NEW a \in Int, NEW b \in Int
  PROVE  Wrap(Wrap(a) + b) = Wrap(a + b)
<1> DEFINE K == 2 * Half
<1>1. K \in Int /\ Half \in Nat
  BY WidthAssumption
<1>2. PICK q1 \in Int : a = K * q1 + Wrap(a)
  BY WrapRange
<1>3. a + b \in Int
  OBVIOUS
<1>4. PICK q2 \in Int : a + b = K * q2 + Wrap(a + b)
  BY <1>3, WrapRange
<1>5. Wrap(a) \in -Half..(Half - 1) /\ Wrap(a + b) \in -Half..(Half - 1)
  BY <1>3, WrapRange
<1> HIDE DEF K
<1>6. K * (q2 - q1) = K * q2 - K * q1
  BY <1>1
<1> DEFINE n == Wrap(a) + b
           r == Wrap(a + b)
<1>7. n \in Int /\ q2 - q1 \in Int /\ n = K * (q2 - q1) + r
  <2> DEFINE p1 == K * q1
             p2 == K * q2
             w == Wrap(a)
  <2>1. p1 \in Int /\ p2 \in Int /\ a = p1 + w /\ a + b = p2 + r /\ w \in Int /\ r \in Int
    BY <1>1, <1>2, <1>4, <1>5
  <2> HIDE DEF p1, p2, w, r
  <2>2. w + b = (p2 - p1) + r
    BY <2>1
  <2> QED
    BY <1>1, <1>6, <2>1, <2>2 DEF p1, p2, w
<1>8. Wrap(n) = r
  <2> HIDE DEF n, r
  <2>1. r \in -Half..(Half - 1)
    BY <1>5 DEF r
  <2> QED
    BY <1>7, <2>1, WrapUnique DEF K
<1> QED
  BY <1>8

\* Numbers in range do not wrap.
LEMMA WrapSame ==
  ASSUME NEW n \in -Half..(Half - 1)
  PROVE  Wrap(n) = n
<1>1. n \in Int /\ 0 \in Int /\ n = (2 * Half) * 0 + n
  BY WidthAssumption
<1> QED
  BY <1>1, WrapUnique

-------------------------------------------------------------------------------
(* What each function makes of the values of a group, and how the results of   *)
(* two parts of a group combine.                                               *)

\* What a function may have made of values of type T.
Carrier(fn, T) ==
    CASE fn = "count" -> Nat
      [] fn = "avg" -> {m \in [sum : Int, count : Nat] : m.count = 0 => m.sum = 0}
      [] fn \in {"sum", "min", "max"} -> Cells(T)

\* Of no value, and of one.
Unit(fn) ==
    CASE fn = "count" -> 0
      [] fn = "avg" -> [sum |-> 0, count |-> 0]
      [] fn \in {"sum", "min", "max"} -> Null

\* What one cell contributes.
Contribution(fn, v) ==
    IF is_null(v) THEN Unit(fn)
    ELSE CASE fn = "count" -> 1
           [] fn = "avg" -> [sum |-> v.n, count |-> 1]
           [] fn \in {"sum", "min", "max"} -> v

\* The summary of two parts of a group, from theirs.
Combined(fn, T, x, y) ==
    CASE fn = "count" -> x + y
      [] fn = "avg" -> [sum |-> x.sum + y.sum, count |-> x.count + y.count]
      [] fn = "sum" -> IF is_null(x) THEN y ELSE IF is_null(y) THEN x ELSE Scalar(T, Wrap(x.n + y.n))
      [] fn \in {"min", "max"} ->
           IF is_null(x) THEN y ELSE IF is_null(y) THEN x ELSE IF Better(fn, y, x) THEN y ELSE x

\* The same as an operation on the carrier.
Combine(fn, T) == [x \in Carrier(fn, T) |-> [y \in Carrier(fn, T) |-> Combined(fn, T, x, y)]]

\* A function that takes values of type T.
Takes(fn, T) == fn \in AggregateFunctions /\ T \in ColumnTypes /\ Supports(fn, T)

\* A cell that is not null has the type of its column and its parts in range.
LEMMA CellProperties ==
  ASSUME NEW T \in ColumnTypes, NEW v \in Cells(T), v # Null
  PROVE  /\ ~is_null(v) /\ v.type = T /\ v.n \in Int /\ v.d \in {0, 1}
         /\ v = [type |-> T, n |-> v.n, d |-> v.d]
         /\ T # "utf8" => v.d = 1
         /\ T \in {"i32", "i64"} => v.n \in -Half..(Half - 1)
<1>1. v \in Scalars /\ v.type = T
  BY DEF Cells
<1>2. v = [type |-> v.type, n |-> v.n, d |-> v.d] /\ v.n \in Int /\ v.d \in {0, 1}
  BY <1>1 DEF Scalars
<1>3. T # "null"
  BY DEF ColumnTypes
<1> QED
  BY <1>1, <1>2, <1>3 DEF Cells, is_null

\* Every column may hold a null.
LEMMA NullCell ==
  ASSUME NEW T \in ColumnTypes
  PROVE  Null \in Cells(T) /\ is_null(Null)
  BY DEF Cells, Scalars, Null, Scalar, is_null

\* Sums.
LEMMA SumCell ==
  ASSUME NEW T \in {"i32", "i64"}, NEW n \in Int
  PROVE  Scalar(T, Wrap(n)) \in Cells(T) /\ ~is_null(Scalar(T, Wrap(n))) /\ Scalar(T, Wrap(n)) # Null
<1>1. Wrap(n) \in -Half..(Half - 1)
  BY WrapRange
<1> QED
  BY <1>1, WidthAssumption DEF Cells, Scalars, Scalar, ColumnTypes, is_null, Null

\* Wrapping addition is associative and commutative: SUM does not depend on the order.
LEMMA SumMonoid ==
  ASSUME NEW T \in {"i32", "i64"}
  PROVE  Monoid(Carrier("sum", T), Combine("sum", T), Unit("sum"))
<1> DEFINE S == Carrier("sum", T)
           op == Combine("sum", T)
<1>1. S = Cells(T) /\ Unit("sum") = Null /\ T \in ColumnTypes
  BY DEF Carrier, Unit, ColumnTypes
<1>2. ASSUME NEW x \in S, NEW y \in S
      PROVE  op[x][y] = IF x = Null THEN y ELSE IF y = Null THEN x ELSE Scalar(T, Wrap(x.n + y.n))
  <2>1. (is_null(x) <=> x = Null) /\ (is_null(y) <=> y = Null)
    BY <1>1, CellProperties, NullCell
  <2>2. op[x][y] = Combined("sum", T, x, y)
    BY DEF Combine
  <2> QED
    BY <2>1, <2>2 DEF Combined
<1>3. \A x \in S : x # Null => x.n \in -Half..(Half - 1) /\ x.n \in Int /\ x = Scalar(T, x.n)
  BY <1>1, CellProperties, WidthAssumption DEF Scalar
<1>4. \A n \in Int : Scalar(T, Wrap(n)) \in S /\ Scalar(T, Wrap(n)) # Null
  BY <1>1, SumCell
<1>5. \A x, y \in S : Combined("sum", T, x, y) \in S
  <2>1. ASSUME NEW x \in S, NEW y \in S PROVE Combined("sum", T, x, y) \in S
    <3>1. op[x][y] = Combined("sum", T, x, y)
      BY DEF Combine
    <3>2. x # Null /\ y # Null => x.n + y.n \in Int
      BY <1>3
    <3> QED
      BY <1>2, <1>4, <3>1, <3>2
  <2> QED
    BY <2>1
<1>6. op \in [S -> [S -> S]]
  BY <1>5 DEF Combine
<1> HIDE DEF op, S
<1>7. Null \in S
  BY <1>1, NullCell
<1>8. ASSUME NEW x \in S PROVE op[Null][x] = x
  BY <1>2, <1>7
<1>9. ASSUME NEW x \in S, NEW y \in S PROVE op[x][y] = op[y][x]
  <2>1. x # Null /\ y # Null => x.n + y.n = y.n + x.n
    BY <1>3
  <2> QED
    BY <1>2, <2>1
<1>10. ASSUME NEW x \in S, NEW y \in S, NEW z \in S PROVE op[op[x][y]][z] = op[x][op[y][z]]
  <2>1. op[x][y] \in S /\ op[y][z] \in S
    <3>1. op[x] \in [S -> S] /\ op[y] \in [S -> S]
      BY <1>6
    <3> QED
      BY <3>1
  <2>2. CASE x = Null \/ y = Null \/ z = Null
    BY <1>2, <2>1, <2>2
  <2>3. CASE x # Null /\ y # Null /\ z # Null
    <3>1. x.n \in Int /\ y.n \in Int /\ z.n \in Int /\ x.n + y.n \in Int /\ y.n + z.n \in Int
      BY <1>3, <2>3
    <3>2. op[x][y] = Scalar(T, Wrap(x.n + y.n)) /\ op[y][z] = Scalar(T, Wrap(y.n + z.n))
      BY <1>2, <2>3
    <3>3. op[x][y] # Null /\ op[y][z] # Null
      BY <1>4, <3>1, <3>2
    <3>4. op[x][y].n = Wrap(x.n + y.n) /\ op[y][z].n = Wrap(y.n + z.n)
      BY <3>2 DEF Scalar
    <3>5. op[op[x][y]][z] = Scalar(T, Wrap(Wrap(x.n + y.n) + z.n))
      BY <1>2, <2>1, <2>3, <3>3, <3>4
    <3>6. op[x][op[y][z]] = Scalar(T, Wrap(x.n + Wrap(y.n + z.n)))
      BY <1>2, <2>1, <2>3, <3>3, <3>4
    <3>7. Wrap(Wrap(x.n + y.n) + z.n) = Wrap((x.n + y.n) + z.n)
      BY <3>1, WrapSum
    <3>8. Wrap(Wrap(y.n + z.n) + x.n) = Wrap((y.n + z.n) + x.n) /\ Wrap(y.n + z.n) \in Int
      <4>1. Wrap(Wrap(y.n + z.n) + x.n) = Wrap((y.n + z.n) + x.n)
        BY <3>1, WrapSum
      <4>2. Wrap(y.n + z.n) \in -Half..(Half - 1)
        BY <3>1, WrapRange
      <4> QED
        BY <4>1, <4>2, WidthAssumption
    <3>9. /\ (x.n + y.n) + z.n = (y.n + z.n) + x.n
          /\ x.n + Wrap(y.n + z.n) = Wrap(y.n + z.n) + x.n
      BY <3>1, <3>8
    <3> QED
      BY <3>5, <3>6, <3>7, <3>8, <3>9
  <2> QED
    BY <2>2, <2>3
<1> QED
  BY <1>1, <1>6, <1>7, <1>8, <1>9, <1>10 DEF Monoid, IsUnit, Commutes, Associates, op, S

\* Minima and maxima: the order of a column's values is total.
LEMMA BetterTotal ==
  ASSUME NEW fn \in {"min", "max"}, NEW T \in ColumnTypes,
         NEW x \in Cells(T), NEW y \in Cells(T), NEW z \in Cells(T), x # Null, y # Null, z # Null
  PROVE  /\ x = y \/ Better(fn, x, y) \/ Better(fn, y, x)
         /\ ~(Better(fn, x, y) /\ Better(fn, y, x))
         /\ Better(fn, x, y) /\ Better(fn, y, z) => Better(fn, x, z)
         /\ ~Better(fn, x, x)
<1>1. /\ x.n \in Int /\ x.d \in {0, 1} /\ x = [type |-> T, n |-> x.n, d |-> x.d]
      /\ y.n \in Int /\ y.d \in {0, 1} /\ y = [type |-> T, n |-> y.n, d |-> y.d]
      /\ z.n \in Int /\ z.d \in {0, 1} /\ z = [type |-> T, n |-> z.n, d |-> z.d]
  BY CellProperties
<1> DEFINE before(l, r) == (l.d = 1 /\ r.d = 0) \/ (l.d = r.d /\ l.n < r.n)
<1>2. ASSUME NEW l \in {x, y, z}, NEW r \in {x, y, z} PROVE Less(l, r) <=> before(l, r)
  <2>1. l.n \in Int /\ r.n \in Int /\ l.d \in {0, 1} /\ r.d \in {0, 1}
    BY <1>1
  <2>2. CASE l.d = 0 \/ r.d = 0
    BY <2>1, <2>2 DEF Less
  <2>3. CASE l.d = 1 /\ r.d = 1
    BY <2>1, <2>3 DEF Less
  <2> QED
    BY <2>1, <2>2, <2>3
<1>3. /\ Less(x, y) <=> before(x, y)
      /\ Less(y, x) <=> before(y, x)
      /\ Less(y, z) <=> before(y, z)
      /\ Less(z, y) <=> before(z, y)
      /\ Less(x, z) <=> before(x, z)
      /\ Less(z, x) <=> before(z, x)
      /\ Less(x, x) <=> before(x, x)
  BY <1>2
<1>4. x = y \/ before(x, y) \/ before(y, x)
  <2>1. x.d = y.d /\ x.n = y.n => x = y
    BY <1>1
  <2> QED
    BY <1>1, <2>1
<1>5. ~(before(x, y) /\ before(y, x)) /\ ~before(x, x)
  BY <1>1
<1>6. before(x, y) /\ before(y, z) => before(x, z)
  BY <1>1
<1>7. before(z, y) /\ before(y, x) => before(z, x)
  BY <1>1
<1> HIDE DEF before
<1> QED
  BY <1>3, <1>4, <1>5, <1>6, <1>7 DEF Better

\* So is taking the lesser, or the greater, of two values.
LEMMA ExtremeMonoid ==
  ASSUME NEW fn \in {"min", "max"}, NEW T \in ColumnTypes
  PROVE  Monoid(Carrier(fn, T), Combine(fn, T), Unit(fn))
<1> DEFINE S == Carrier(fn, T)
           op == Combine(fn, T)
<1>1. S = Cells(T) /\ Unit(fn) = Null
  BY DEF Carrier, Unit
<1>2. ASSUME NEW x \in S, NEW y \in S
      PROVE  op[x][y] = IF x = Null THEN y ELSE IF y = Null THEN x ELSE IF Better(fn, y, x) THEN y ELSE x
  <2>1. (is_null(x) <=> x = Null) /\ (is_null(y) <=> y = Null)
    BY <1>1, CellProperties, NullCell
  <2>2. op[x][y] = Combined(fn, T, x, y)
    BY DEF Combine
  <2> QED
    BY <2>1, <2>2 DEF Combined
<1>3. \A x, y \in S : Combined(fn, T, x, y) \in S
  <2>1. ASSUME NEW x \in S, NEW y \in S PROVE Combined(fn, T, x, y) \in S
    <3>1. op[x][y] = Combined(fn, T, x, y)
      BY DEF Combine
    <3> QED
      BY <1>2, <3>1
  <2> QED
    BY <2>1
<1>4. op \in [S -> [S -> S]]
  BY <1>3 DEF Combine
<1> HIDE DEF op, S
<1>5. Null \in S
  BY <1>1, NullCell
<1>6. ASSUME NEW x \in S PROVE op[Null][x] = x
  BY <1>2, <1>5
<1>7. ASSUME NEW x \in S, NEW y \in S PROVE op[x][y] = op[y][x]
  <2>1. CASE x = Null \/ y = Null
    BY <1>2, <2>1
  <2>2. CASE x # Null /\ y # Null
    <3>1. (x = y \/ Better(fn, x, y) \/ Better(fn, y, x)) /\ ~(Better(fn, x, y) /\ Better(fn, y, x))
      BY <1>1, <2>2, BetterTotal
    <3> QED
      BY <1>2, <2>2, <3>1
  <2> QED
    BY <2>1, <2>2
<1>8. ASSUME NEW x \in S, NEW y \in S, NEW z \in S PROVE op[op[x][y]][z] = op[x][op[y][z]]
  <2>1. op[x][y] \in S /\ op[y][z] \in S
    <3>1. op[x] \in [S -> S] /\ op[y] \in [S -> S]
      BY <1>4
    <3> QED
      BY <3>1
  <2>2. CASE x = Null \/ y = Null \/ z = Null
    BY <1>2, <2>1, <2>2
  <2>3. CASE x # Null /\ y # Null /\ z # Null
    <3>1. /\ x = y \/ Better(fn, x, y) \/ Better(fn, y, x)
          /\ ~(Better(fn, x, y) /\ Better(fn, y, x))
          /\ Better(fn, x, y) /\ Better(fn, y, z) => Better(fn, x, z)
      BY <1>1, <2>3, BetterTotal
    <3>2. /\ y = z \/ Better(fn, y, z) \/ Better(fn, z, y)
          /\ ~(Better(fn, y, z) /\ Better(fn, z, y))
          /\ Better(fn, z, y) /\ Better(fn, y, x) => Better(fn, z, x)
      BY <1>1, <2>3, BetterTotal
    <3>3. ~(Better(fn, x, z) /\ Better(fn, z, x))
      BY <1>1, <2>3, BetterTotal
    <3>4. /\ op[x][y] = IF Better(fn, y, x) THEN y ELSE x
          /\ op[y][z] = IF Better(fn, z, y) THEN z ELSE y
          /\ op[x][z] = IF Better(fn, z, x) THEN z ELSE x
      BY <1>2, <2>3
    <3> QED
      BY <3>1, <3>2, <3>3, <3>4
  <2> QED
    BY <2>2, <2>3
<1> QED
  BY <1>1, <1>4, <1>5, <1>6, <1>7, <1>8 DEF Monoid, IsUnit, Commutes, Associates, op, S

\* Counts and averages.
LEMMA CountMonoid ==
  ASSUME NEW T
  PROVE  Monoid(Carrier("count", T), Combine("count", T), Unit("count"))
<1> DEFINE op == Combine("count", T)
<1>1. Carrier("count", T) = Nat /\ Unit("count") = 0
  BY DEF Carrier, Unit
<1>2. op = [x \in Nat |-> [y \in Nat |-> x + y]]
  BY <1>1 DEF Combine, Combined
<1> HIDE DEF op
<1>3. \A x, y \in Nat : op[x][y] = x + y /\ x + y \in Nat
  BY <1>2
<1>4. op \in [Nat -> [Nat -> Nat]]
  BY <1>2
<1>5. IsUnit(Nat, op, 0) /\ Commutes(Nat, op)
  BY <1>3 DEF IsUnit, Commutes
<1>6. ASSUME NEW x \in Nat, NEW y \in Nat, NEW z \in Nat PROVE op[op[x][y]][z] = op[x][op[y][z]]
  <2>1. op[op[x][y]][z] = (x + y) + z
    BY <1>3
  <2>2. op[x][op[y][z]] = x + (y + z)
    BY <1>3
  <2> QED
    BY <2>1, <2>2
<1>7. Monoid(Nat, op, 0)
  BY <1>4, <1>5, <1>6 DEF Monoid, Associates
<1> QED
  BY <1>1, <1>7 DEF op

\* So is adding sums and counts.
LEMMA AvgMonoid ==
  ASSUME NEW T
  PROVE  Monoid(Carrier("avg", T), Combine("avg", T), Unit("avg"))
<1> DEFINE S == {m \in [sum : Int, count : Nat] : m.count = 0 => m.sum = 0}
           op == Combine("avg", T)
           add(x, y) == [sum |-> x.sum + y.sum, count |-> x.count + y.count]
<1>1. Carrier("avg", T) = S /\ Unit("avg") = [sum |-> 0, count |-> 0] /\ Unit("avg") \in S
  BY DEF Carrier, Unit
<1>2. op = [x \in S |-> [y \in S |-> add(x, y)]]
  BY <1>1 DEF Combine, Combined
<1>3. \A x, y \in S : add(x, y) \in S
  OBVIOUS
<1>4. \A x \in S : x.sum \in Int /\ x.count \in Nat /\ x = [sum |-> x.sum, count |-> x.count]
  OBVIOUS
<1> HIDE DEF op, S
<1>5. op \in [S -> [S -> S]] /\ \A x, y \in S : op[x][y] = add(x, y) /\ op[x][y] \in S
  BY <1>2, <1>3
<1>6. IsUnit(S, op, Unit("avg"))
  BY <1>1, <1>4, <1>5 DEF IsUnit
<1>7. Commutes(S, op)
  <2>1. ASSUME NEW x \in S, NEW y \in S PROVE add(x, y) = add(y, x)
    <3>1. x.sum + y.sum = y.sum + x.sum /\ x.count + y.count = y.count + x.count
      BY <1>4
    <3> QED
      BY <3>1
  <2> HIDE DEF add
  <2> QED
    BY <1>5, <2>1 DEF Commutes
<1>8. ASSUME NEW x \in S, NEW y \in S, NEW z \in S PROVE op[op[x][y]][z] = op[x][op[y][z]]
  <2>1. op[op[x][y]][z] = add(add(x, y), z) /\ op[x][op[y][z]] = add(x, add(y, z))
    <3> HIDE DEF add
    <3>1. op[op[x][y]][z] = add(op[x][y], z) /\ op[x][y] = add(x, y)
      BY <1>5
    <3>2. op[x][op[y][z]] = add(x, op[y][z]) /\ op[y][z] = add(y, z)
      BY <1>5
    <3> QED
      BY <3>1, <3>2
  <2>2. (x.sum + y.sum) + z.sum = x.sum + (y.sum + z.sum)
    BY <1>4
  <2>3. (x.count + y.count) + z.count = x.count + (y.count + z.count)
    BY <1>4
  <2> QED
    BY <2>1, <2>2, <2>3
<1>9. Associates(S, op)
  BY <1>8 DEF Associates
<1>10. Monoid(S, op, Unit("avg"))
  BY <1>1, <1>5, <1>6, <1>7, <1>9 DEF Monoid
<1> QED
  BY <1>1, <1>10 DEF op

\* Every function combines its summaries in a commutative monoid.
LEMMA FunctionMonoid ==
  ASSUME NEW fn, NEW T, Takes(fn, T)
  PROVE  Monoid(Carrier(fn, T), Combine(fn, T), Unit(fn))
<1>1. fn \in {"sum", "count", "avg", "min", "max"} /\ T \in ColumnTypes
  BY DEF Takes, AggregateFunctions
<1>2. fn = "sum" => T \in {"i32", "i64"}
  BY DEF Takes, Supports
<1> QED
  BY <1>1, <1>2, SumMonoid, ExtremeMonoid, CountMonoid, AvgMonoid

-------------------------------------------------------------------------------
(* The accumulators compute these summaries.                                   *)

\* The accumulator that holds a summary.
StateOf(fn, m) ==
    CASE fn = "count" -> [create_accumulator EXCEPT !.count = m]
      [] fn = "avg" -> [value |-> Null, sum |-> Scalar("f64", m.sum), count |-> m.count]
      [] fn \in {"sum", "min", "max"} -> [create_accumulator EXCEPT !.value = m]

\* What a partial aggregate can write, and the summary it stands for.
PartialCells(fn, T) ==
    CASE fn = "count" -> {Scalar("i32", n) : n \in Nat}
      [] fn = "avg" -> {Null}
      [] fn \in {"sum", "min", "max"} -> Cells(T)

\* The summary that a cell of a partial row stands for.
Unwritten(fn, c) ==
    CASE fn = "count" -> c.n
      [] fn = "avg" -> Unit("avg")
      [] fn \in {"sum", "min", "max"} -> c

\* Whole doubles are in lowest terms.
LEMMA DoubleOne ==
  ASSUME NEW n \in Int
  PROVE  Double(n, 1) = Scalar("f64", n)
<1> DEFINE common == {k \in 1..(1 * 1) : 1 % k = 0 /\ n % k = 0}
           g == CHOOSE k \in common : \A j \in common : j <= k
<1>1. common = {1}
  OBVIOUS
<1>2. g = 1
  <2> HIDE DEF common
  <2> QED
    BY <1>1
<1>3. (1 * n) \div 1 = n /\ (1 * 1) \div 1 = 1 /\ ~(1 < 0)
  OBVIOUS
<1>4. Double(n, 1) = [type |-> "f64", n |-> (1 * n) \div g, d |-> (1 * 1) \div g]
  BY DEF Double
<1> HIDE DEF g
<1> QED
  BY <1>2, <1>3, <1>4 DEF Scalar

\* A new accumulator has the summary of no value.
LEMMA EmptyState ==
  ASSUME NEW fn \in AggregateFunctions
  PROVE  create_accumulator = StateOf(fn, Unit(fn))
<1>1. Double(0, 1) = Scalar("f64", 0)
  BY DoubleOne
<1> QED
  BY <1>1 DEF StateOf, Unit, create_accumulator, AggregateFunctions

\* No cell is a panic.
LEMMA NoPanic ==
  ASSUME NEW T \in ColumnTypes, NEW v \in Cells(T)
  PROVE  v # Panic /\ Null # Panic
<1>1. Panic.type = "panic" /\ Null.type = "null"
  BY DEF Panic, Null, Scalar
<1>2. v # Null => v.type \in ColumnTypes
  BY CellProperties
<1> QED
  BY <1>1, <1>2 DEF ColumnTypes

\* What a cell contributes is a summary.
LEMMA ContributionType ==
  ASSUME NEW fn, NEW T, Takes(fn, T), NEW v \in Cells(T)
  PROVE  Contribution(fn, v) \in Carrier(fn, T)
<1>1. T \in ColumnTypes /\ fn \in {"sum", "min", "max", "count", "avg"}
  BY DEF Takes, AggregateFunctions
<1>2. v # Null => v.n \in Int /\ ~is_null(v)
  BY <1>1, CellProperties
<1>3. is_null(Null) /\ Null \in Cells(T)
  BY <1>1, NullCell
<1> QED
  BY <1>1, <1>2, <1>3 DEF Contribution, Carrier, Unit

\* One value more.
LEMMA StepAccumulates ==
  ASSUME NEW fn, NEW T, Takes(fn, T), NEW m \in Carrier(fn, T), NEW v \in Cells(T)
  PROVE  accumulate(fn, StateOf(fn, m), v) = StateOf(fn, Combine(fn, T)[m][Contribution(fn, v)])
<1>1. T \in ColumnTypes /\ fn \in {"sum", "min", "max", "count", "avg"} /\ Supports(fn, T)
  BY DEF Takes, AggregateFunctions
<1>2. Combine(fn, T)[m][Contribution(fn, v)] = Combined(fn, T, m, Contribution(fn, v))
  BY ContributionType DEF Combine
<1>3. v # Null => v.n \in Int /\ ~is_null(v) /\ v.type = T /\ (T # "utf8" => v.d = 1)
  BY <1>1, CellProperties
<1>4. CASE v = Null
  <2>1. is_null(v) /\ Contribution(fn, v) = Unit(fn)
    BY <1>4, <1>1, NullCell DEF Contribution
  <2>2. accumulate(fn, StateOf(fn, m), v) = StateOf(fn, m)
    BY <2>1 DEF accumulate
  <2>3. Combine(fn, T)[m][Unit(fn)] = m
    BY FunctionMonoid, MonoidUnit
  <2> QED
    BY <2>1, <2>2, <2>3
<1>5. CASE v # Null
  <2>1. Contribution(fn, v) = CASE fn = "count" -> 1
                                [] fn = "avg" -> [sum |-> v.n, count |-> 1]
                                [] fn \in {"sum", "min", "max"} -> v
    BY <1>3, <1>5 DEF Contribution
  <2>2. CASE fn = "sum"
    <3>1. T \in {"i32", "i64"}
      BY <1>1, <2>2 DEF Supports
    <3>2. m \in Cells(T)
      BY <2>2 DEF Carrier
    <3>3. m # Panic /\ Null # Panic
      BY <1>1, <3>2, NoPanic
    <3>4. StateOf(fn, m) = [value |-> m, sum |-> Double(0, 1), count |-> 0]
      BY <2>2 DEF StateOf, create_accumulator
    <3>5. is_null(m) <=> m = Null
      BY <1>1, <3>2, CellProperties, NullCell
    <3>6. accumulate(fn, StateOf(fn, m), v)
            = [value |-> IF is_null(m) THEN v ELSE scalar_add(m, v), sum |-> Double(0, 1), count |-> 0]
      BY <1>3, <1>5, <2>2, <3>3, <3>4 DEF accumulate
    <3>7. m # Null => scalar_add(m, v) = Scalar(T, Wrap(m.n + v.n))
      <4>1. m # Null => m.type = T
        BY <1>1, <3>2, CellProperties
      <4> QED
        BY <1>3, <1>5, <3>1, <4>1 DEF scalar_add
    <3>8. Combined(fn, T, m, v) = IF is_null(m) THEN v ELSE Scalar(T, Wrap(m.n + v.n))
      BY <1>3, <1>5, <2>2 DEF Combined
    <3>9. \A x : StateOf(fn, x) = [value |-> x, sum |-> Double(0, 1), count |-> 0]
      BY <2>2 DEF StateOf, create_accumulator
    <3> QED
      BY <1>2, <2>1, <2>2, <3>5, <3>6, <3>7, <3>8, <3>9
  <2>3. CASE fn \in {"min", "max"}
    <3>1. T # "bool"
      BY <1>1, <2>3 DEF Supports
    <3>2. m \in Cells(T)
      BY <2>3 DEF Carrier
    <3>3. m # Panic /\ Null # Panic
      BY <1>1, <3>2, NoPanic
    <3>4. \A x : StateOf(fn, x) = [value |-> x, sum |-> Double(0, 1), count |-> 0]
      BY <2>3 DEF StateOf, create_accumulator
    <3>5. accumulate(fn, StateOf(fn, m), v)
            = [value |-> KeepBetter(fn, m, v), sum |-> Double(0, 1), count |-> 0]
      <4>1. StateOf(fn, m) = [value |-> m, sum |-> Double(0, 1), count |-> 0]
        BY <3>4
      <4> QED
        BY <1>3, <1>5, <2>3, <3>3, <4>1 DEF accumulate
    <3>6. KeepBetter(fn, m, v) = IF is_null(m) THEN v ELSE IF Better(fn, v, m) THEN v ELSE m
      <4>1. ~is_null(m) => m.type = T
        BY <1>1, <3>2, CellProperties, NullCell
      <4> QED
        BY <1>3, <1>5, <3>1, <4>1 DEF KeepBetter
    <3>7. Combined(fn, T, m, v) = IF is_null(m) THEN v ELSE IF Better(fn, v, m) THEN v ELSE m
      BY <1>3, <1>5, <2>3 DEF Combined
    <3> QED
      BY <1>2, <2>1, <2>3, <3>4, <3>5, <3>6, <3>7
  <2>4. CASE fn = "count"
    <3>1. m \in Nat /\ Null # Panic
      BY <1>1, <2>4, NoPanic DEF Carrier
    <3>2. \A x : StateOf(fn, x) = [value |-> Null, sum |-> Double(0, 1), count |-> x]
      BY <2>4 DEF StateOf, create_accumulator
    <3>3. accumulate(fn, StateOf(fn, m), v) = [value |-> Null, sum |-> Double(0, 1), count |-> m + 1]
      <4>1. StateOf(fn, m) = [value |-> Null, sum |-> Double(0, 1), count |-> m]
        BY <3>2
      <4> QED
        BY <1>3, <1>5, <2>4, <3>1, <4>1 DEF accumulate
    <3>4. Combined(fn, T, m, 1) = m + 1
      BY <2>4 DEF Combined
    <3> QED
      BY <1>2, <2>1, <2>4, <3>2, <3>3, <3>4
  <2>5. CASE fn = "avg"
    <3>1. T \in Integral /\ T \in Numeric /\ T # "utf8" /\ Null # Panic
      BY <1>1, <2>5, NoPanic DEF Supports, Integral, Numeric
    <3>2. m.sum \in Int /\ m.count \in Nat /\ m.sum + v.n \in Int
      BY <1>3, <1>5, <2>5 DEF Carrier
    <3>3. \A x : StateOf(fn, x) = [value |-> Null, sum |-> Scalar("f64", x.sum), count |-> x.count]
      BY <2>5 DEF StateOf
    <3>4. double_math("add", Scalar("f64", m.sum), to_f64(v)) = Scalar("f64", m.sum + v.n)
      <4>1. to_f64(v) = Scalar("f64", v.n)
        BY <1>3, <1>5, <3>1, DoubleOne DEF to_f64
      <4>2. double_math("add", Scalar("f64", m.sum), Scalar("f64", v.n)) = Double(m.sum * 1 + v.n * 1, 1 * 1)
        BY DEF double_math, Scalar
      <4>3. m.sum * 1 + v.n * 1 = m.sum + v.n /\ 1 * 1 = 1
        BY <1>3, <1>5, <3>2
      <4>4. Double(m.sum + v.n, 1) = Scalar("f64", m.sum + v.n)
        BY <3>2, DoubleOne
      <4> QED
        BY <4>1, <4>2, <4>3, <4>4
    <3>5. accumulate(fn, StateOf(fn, m), v)
            = [value |-> Null, sum |-> Scalar("f64", m.sum + v.n), count |-> m.count + 1]
      <4>1. StateOf(fn, m) = [value |-> Null, sum |-> Scalar("f64", m.sum), count |-> m.count]
        BY <3>3
      <4>2. ~is_null(v) /\ v.type \in Numeric
        BY <1>3, <1>5, <3>1
      <4>3. accumulate(fn, StateOf(fn, m), v)
              = [value |-> Null, sum |-> double_math("add", Scalar("f64", m.sum), to_f64(v)),
                 count |-> m.count + 1]
        <5> DEFINE A == StateOf(fn, m)
                   w == to_f64(v)
        <5>1. A.value = Null /\ A.sum = Scalar("f64", m.sum) /\ A.count = m.count
          BY <4>1
        <5> HIDE DEF A, w
        <5>2. accumulate(fn, A, v)
                = [value |-> A.value, sum |-> double_math("add", A.sum, w), count |-> A.count + 1]
          BY <2>5, <3>1, <4>2, <5>1 DEF accumulate, w
        <5> QED
          BY <5>1, <5>2 DEF A, w
      <4> QED
        BY <3>4, <4>3
    <3>6. Combined(fn, T, m, [sum |-> v.n, count |-> 1]) = [sum |-> m.sum + v.n, count |-> m.count + 1]
      BY <2>5 DEF Combined
    <3>7. StateOf(fn, [sum |-> m.sum + v.n, count |-> m.count + 1])
            = [value |-> Null, sum |-> Scalar("f64", m.sum + v.n), count |-> m.count + 1]
      BY <3>3
    <3>8. Contribution(fn, v) = [sum |-> v.n, count |-> 1]
      BY <2>1, <2>5
    <3> QED
      BY <1>2, <3>5, <3>6, <3>7, <3>8
  <2> QED
    BY <1>1, <2>2, <2>3, <2>4, <2>5
<1> QED
  BY <1>4, <1>5

\* One partial result more.
LEMMA StepMerges ==
  ASSUME NEW fn, NEW T, Takes(fn, T), NEW m \in Carrier(fn, T), NEW c \in PartialCells(fn, T)
  PROVE  merge(fn, StateOf(fn, m), c) = StateOf(fn, Combine(fn, T)[m][Unwritten(fn, c)])
<1>1. T \in ColumnTypes /\ fn \in {"sum", "min", "max", "count", "avg"}
  BY DEF Takes, AggregateFunctions
<1>2. CASE fn \in {"sum", "min", "max"}
  <2>1. c \in Cells(T) /\ Unwritten(fn, c) = c
    BY <1>2 DEF PartialCells, Unwritten
  <2>2. merge(fn, StateOf(fn, m), c) = accumulate(fn, StateOf(fn, m), c)
    BY <1>2 DEF merge, accumulate
  <2>3. Contribution(fn, c) = c
    <3>1. is_null(c) => c = Null
      BY <1>1, <2>1, CellProperties
    <3> QED
      BY <1>2, <3>1 DEF Contribution, Unit
  <2> QED
    BY <2>1, <2>2, <2>3, StepAccumulates
<1>3. CASE fn = "count"
  <2>1. m \in Nat /\ c.n \in Nat /\ c.type = "i32" /\ Unwritten(fn, c) = c.n
    BY <1>3 DEF Carrier, PartialCells, Unwritten, Scalar
  <2>2. \A x : StateOf(fn, x) = [value |-> Null, sum |-> Double(0, 1), count |-> x]
    BY <1>3 DEF StateOf, create_accumulator
  <2>3. to_i64(c) = c.n /\ ~is_null(c)
    BY <2>1 DEF to_i64, Integral, is_null
  <2>4. Null # Panic
    BY <1>1, NoPanic, NullCell
  <2>5. merge(fn, StateOf(fn, m), c) = [value |-> Null, sum |-> Double(0, 1), count |-> m + c.n]
    <3>1. StateOf(fn, m) = [value |-> Null, sum |-> Double(0, 1), count |-> m]
      BY <2>2
    <3> QED
      BY <1>3, <2>1, <2>3, <2>4, <3>1 DEF merge
  <2>6. Combine(fn, T)[m][c.n] = m + c.n
    BY <1>3, <2>1 DEF Combine, Combined, Carrier
  <2> QED
    BY <2>1, <2>2, <2>5, <2>6
<1>4. CASE fn = "avg"
  <2>1. is_null(c) /\ Unwritten(fn, c) = Unit(fn)
    BY <1>1, <1>4, NullCell DEF PartialCells, Unwritten
  <2>2. merge(fn, StateOf(fn, m), c) = StateOf(fn, m)
    BY <2>1 DEF merge
  <2>3. Combine(fn, T)[m][Unit(fn)] = m
    BY FunctionMonoid, MonoidUnit
  <2> QED
    BY <2>1, <2>2, <2>3
<1> QED
  BY <1>1, <1>2, <1>3, <1>4

\* The partial output is the summary, or nothing can carry it.
LEMMA PartialOutput ==
  ASSUME NEW fn, NEW T, Takes(fn, T), NEW m \in Carrier(fn, T)
  PROVE  LET out == Output("partial", fn, StateOf(fn, m))
         IN  \/ out = Panic /\ fn = "avg"
             \/ out \in PartialCells(fn, T) /\ Unwritten(fn, out) = m
<1>1. T \in ColumnTypes /\ fn \in {"sum", "min", "max", "count", "avg"}
  BY DEF Takes, AggregateFunctions
<1> DEFINE out == Output("partial", fn, StateOf(fn, m))
<1>2. out = intermediate_value(fn, StateOf(fn, m)) /\ Null # Panic
  BY <1>1, NoPanic, NullCell DEF Output
<1>3. CASE fn \in {"sum", "min", "max"}
  <2>1. m \in Cells(T) /\ StateOf(fn, m).value = m
    BY <1>3 DEF Carrier, StateOf, create_accumulator
  <2>2. m # Panic
    BY <1>1, <2>1, NoPanic
  <2>3. out = m
    BY <1>2, <1>3, <2>1, <2>2 DEF intermediate_value, final_value
  <2> QED
    BY <1>3, <2>1, <2>3 DEF PartialCells, Unwritten
<1>4. CASE fn = "count"
  <2>1. m \in Nat /\ StateOf(fn, m).value = Null /\ StateOf(fn, m).count = m
    BY <1>4 DEF Carrier, StateOf, create_accumulator
  <2>2. out = Scalar("i32", m)
    BY <1>2, <1>4, <2>1 DEF intermediate_value, final_value
  <2> QED
    BY <1>4, <2>1, <2>2 DEF PartialCells, Unwritten, Scalar
<1>5. CASE fn = "avg"
  <2>1. m.count \in Nat /\ m = [sum |-> m.sum, count |-> m.count] /\ (m.count = 0 => m.sum = 0)
    BY <1>5 DEF Carrier
  <2>2. StateOf(fn, m).value = Null /\ StateOf(fn, m).count = m.count
    BY <1>5 DEF StateOf
  <2>3. CASE m.count > 0
    BY <1>2, <1>5, <2>2, <2>3 DEF intermediate_value
  <2>4. CASE m.count = 0
    <3>1. out = Null
      BY <1>2, <1>5, <2>2, <2>4 DEF intermediate_value, final_value
    <3> QED
      BY <1>5, <2>1, <2>4, <3>1 DEF PartialCells, Unwritten, Unit
  <2> QED
    BY <2>1, <2>3, <2>4
<1> QED
  BY <1>1, <1>3, <1>4, <1>5

\* The final output fits its column.
LEMMA FinalOutput ==
  ASSUME NEW fn, NEW T, Takes(fn, T), NEW m \in Carrier(fn, T), NEW mode \in {"complete", "final"}
  PROVE  LET out == Output(mode, fn, StateOf(fn, m))
         IN  is_null(out) \/ out.type = ResultType(fn, T)
<1>1. T \in ColumnTypes /\ fn \in {"sum", "min", "max", "count", "avg"}
  BY DEF Takes, AggregateFunctions
<1> DEFINE out == Output(mode, fn, StateOf(fn, m))
<1>2. out = final_value(fn, StateOf(fn, m)) /\ Null # Panic /\ is_null(Null)
  BY <1>1, NoPanic, NullCell DEF Output
<1>3. CASE fn \in {"sum", "min", "max"}
  <2>1. m \in Cells(T) /\ StateOf(fn, m).value = m
    BY <1>3 DEF Carrier, StateOf, create_accumulator
  <2>2. m # Panic /\ (m # Null => m.type = T)
    BY <1>1, <2>1, NoPanic, CellProperties
  <2>3. out = m
    BY <1>2, <1>3, <2>1, <2>2 DEF final_value
  <2> QED
    BY <1>2, <1>3, <2>2, <2>3 DEF ResultType
<1>4. CASE fn = "count"
  <2>1. StateOf(fn, m).value = Null
    BY <1>4 DEF StateOf, create_accumulator
  <2>2. out = Scalar("i32", StateOf(fn, m).count)
    BY <1>2, <1>4, <2>1 DEF final_value
  <2> QED
    BY <1>4, <2>2 DEF ResultType, Scalar
<1>5. CASE fn = "avg"
  <2>1. StateOf(fn, m).value = Null
    BY <1>5 DEF StateOf
  <2>2. CASE StateOf(fn, m).count = 0
    BY <1>2, <1>5, <2>1, <2>2 DEF final_value
  <2>3. CASE StateOf(fn, m).count # 0
    <3>1. out = double_math("div", StateOf(fn, m).sum, Double(StateOf(fn, m).count, 1))
      BY <1>2, <1>5, <2>1, <2>3 DEF final_value
    <3>2. \A n, d : Double(n, d).type = "f64"
      BY DEF Double
    <3>3. \A l, r : double_math("div", l, r).type = "f64"
      BY <3>2 DEF double_math
    <3> QED
      BY <1>5, <3>1, <3>3 DEF ResultType
  <2> QED
    BY <2>2, <2>3
<1> QED
  BY <1>1, <1>3, <1>4, <1>5

-------------------------------------------------------------------------------
(* The reductions are the aggregates of the reference: what they make of the    *)
(* rows at some places, of which column c holds the values.                     *)

\* The places among the first n rows.
Upto(places, n) == {i \in places : i <= n}

\* How these places grow with n.
UptoLaws(places, N) ==
    /\ Upto(places, 0) = {} /\ Cardinality(Upto(places, 0)) = 0
    /\ Upto(places, N) = places
    /\ \A n \in 1..N :
         /\ n - 1 \in 0..N /\ n \in 0..N
         /\ Upto(places, n) = IF n \in places THEN Upto(places, n - 1) \cup {n} ELSE Upto(places, n - 1)
         /\ Cardinality(Upto(places, n - 1)) \in Nat
         /\ Cardinality(Upto(places, n))
              = IF n \in places THEN Cardinality(Upto(places, n - 1)) + 1 ELSE Cardinality(Upto(places, n - 1))
    /\ Cardinality(places) \in Nat
    /\ (Cardinality(places) = 0 <=> places = {})

\* One place more.
LEMMA UptoSteps ==
  ASSUME NEW N \in Nat, NEW places, places \subseteq 1..N
  PROVE  UptoLaws(places, N)
<1>0. \A i \in places : i \in Nat /\ 1 <= i /\ i <= N
  OBVIOUS
<1>1. Upto(places, 0) = {} /\ Upto(places, N) = places
  <2>1. \A i \in places : ~(i <= 0) /\ i <= N
    BY <1>0
  <2>2. Upto(places, 0) = {}
    BY <2>1 DEF Upto
  <2>3. Upto(places, N) = places
    BY <2>1 DEF Upto
  <2> QED
    BY <2>2, <2>3
<1>2. IsFiniteSet(places)
  <2>1. IsFiniteSet(1..N)
    BY FS_Interval
  <2> QED
    BY <2>1, FS_Subset
<1>3. ASSUME NEW n \in 1..N
      PROVE  /\ n - 1 \in 0..N /\ n \in 0..N
             /\ Upto(places, n) = IF n \in places THEN Upto(places, n - 1) \cup {n} ELSE Upto(places, n - 1)
             /\ n \notin Upto(places, n - 1)
  <2>1. n - 1 \in 0..N /\ n \in 0..N
    OBVIOUS
  <2>2. n \notin Upto(places, n - 1)
    BY DEF Upto
  <2>3. \A i \in places : i <= n <=> (i <= n - 1 \/ i = n)
    BY <1>0
  <2>4. Upto(places, n) = IF n \in places THEN Upto(places, n - 1) \cup {n} ELSE Upto(places, n - 1)
    <3>1. \A i : i \in Upto(places, n) <=> (i \in Upto(places, n - 1) \/ (i = n /\ n \in places))
      BY <2>3 DEF Upto
    <3> QED
      BY <3>1
  <2> QED
    BY <2>1, <2>2, <2>4
<1>4. ASSUME NEW n PROVE IsFiniteSet(Upto(places, n)) /\ Cardinality(Upto(places, n)) \in Nat
  <2>1. Upto(places, n) \subseteq places
    BY DEF Upto
  <2>2. IsFiniteSet(Upto(places, n))
    BY <1>2, <2>1, FS_Subset
  <2> QED
    BY <2>2, FS_CardinalityType
<1>5. ASSUME NEW n \in 1..N
      PROVE  Cardinality(Upto(places, n))
               = IF n \in places THEN Cardinality(Upto(places, n - 1)) + 1 ELSE Cardinality(Upto(places, n - 1))
  <2> DEFINE P == Upto(places, n - 1)
  <2>1. IsFiniteSet(P) /\ n \notin P /\ Upto(places, n) = IF n \in places THEN P \cup {n} ELSE P
    BY <1>3, <1>4
  <2> HIDE DEF P
  <2>2. Cardinality(P \cup {n}) = Cardinality(P) + 1
    BY <2>1, FS_AddElement
  <2> QED
    BY <2>1, <2>2 DEF P
<1>6. Cardinality({}) = 0
  BY FS_EmptySet
<1>7. Cardinality(places) \in Nat /\ (Cardinality(places) = 0 <=> places = {})
  BY <1>2, FS_CardinalityType, FS_EmptySet
<1> QED
  BY <1>1, <1>3, <1>4, <1>5, <1>6, <1>7 DEF UptoLaws

\* The rows at some places have a value of type T in column c.
HasValues(rows, c, places, T) ==
    /\ places \subseteq 1..Len(rows)
    /\ \A i \in places : rows[i][c] \in Cells(T) /\ rows[i][c] # Null

\* The running totals of column c over some places of rows.
RunningTotals(t, rows, c, places) ==
    /\ t \in [0..Len(rows) -> Int]
    /\ t[0] = 0
    /\ \A n \in 1..Len(rows) : t[n] = IF n \in places THEN t[n - 1] + rows[n][c].n ELSE t[n - 1]
    /\ \A n \in 0..Len(rows) : Upto(places, n) = {} => t[n] = 0
    /\ TotalOf(rows, c, places) = t[Len(rows)]

\* There are running totals, and the last of them is the total.
LEMMA Totals ==
  ASSUME NEW T \in ColumnTypes, NEW rows, Len(rows) \in Nat, NEW c, NEW places,
         HasValues(rows, c, places, T)
  PROVE  \E t : RunningTotals(t, rows, c, places)
<1> DEFINE N == Len(rows)
<1> DEFINE G == [n \in 1..N |-> [x \in Int |-> x + IF n \in places THEN rows[n][c].n ELSE 0]]
           E(f) == [n \in 0..Len(rows) |->
                      IF n = 0 THEN 0 ELSE f[n - 1] + IF n \in places THEN rows[n][c].n ELSE 0]
           total == CHOOSE f : f = E(f)
<1>0. \A n \in 1..N :
        Upto(places, n) = IF n \in places THEN Upto(places, n - 1) \cup {n} ELSE Upto(places, n - 1)
  <2>1. places \subseteq 1..N
    BY DEF HasValues
  <2>2. UptoLaws(places, N)
    BY <2>1, UptoSteps
  <2> QED
    BY <2>2 DEF UptoLaws
<1>1. TotalOf(rows, c, places) = total[Len(rows)]
  BY DEF TotalOf
<1>2. \A n \in places : rows[n][c].n \in Int
  BY CellProperties DEF HasValues
<1>3. G \in [1..N -> [Int -> Int]]
  BY <1>2
<1>4. PICK t \in [0..N -> Int] : IsLoop(t, N, 0, G)
  <2> DEFINE S == Int
             b == 0
  <2>1. b \in S /\ G \in [1..N -> [S -> S]]
    BY <1>3
  <2> HIDE DEF G, S, b
  <2>2. \E t \in [0..N -> S] : IsLoop(t, N, b, G)
    BY <2>1, LoopExists
  <2> QED
    BY <2>2 DEF S, b
<1>5. t[0] = 0
  BY <1>4 DEF IsLoop
<1>6. ASSUME NEW n \in 1..N
      PROVE  /\ n - 1 \in 0..N /\ t[n - 1] \in Int
             /\ t[n] = t[n - 1] + IF n \in places THEN rows[n][c].n ELSE 0
             /\ t[n] = IF n \in places THEN t[n - 1] + rows[n][c].n ELSE t[n - 1]
  <2>1. n - 1 \in 0..N
    OBVIOUS
  <2>2. t[n - 1] \in Int
    BY <2>1
  <2>3. t[n] = G[n][t[n - 1]]
    <3> HIDE DEF G
    <3> QED
      BY <1>4 DEF IsLoop
  <2>4. t[n] = t[n - 1] + IF n \in places THEN rows[n][c].n ELSE 0
    BY <2>2, <2>3
  <2> QED
    BY <2>1, <2>2, <2>4
<1>7. t = E(t)
  <2>1. ASSUME NEW n \in 0..N PROVE t[n] = E(t)[n]
    BY <1>5, <1>6
  <2> HIDE DEF G
  <2> QED
    BY <2>1
<1>8. total = E(total)
  <2> HIDE DEF E
  <2> QED
    BY <1>7
<1> HIDE DEF total, G
<1> DEFINE D == {n \in Nat : n <= N => total[n] = t[n] /\ (Upto(places, n) = {} => t[n] = 0)}
<1>9. 0 \in D
  <2>1. 0 \in 0..Len(rows)
    OBVIOUS
  <2>2. total[0] = 0
    BY <1>8, <2>1
  <2> QED
    BY <1>5, <2>2
<1>10. ASSUME NEW n \in Nat, n \in D PROVE n + 1 \in D
  <2> SUFFICES ASSUME n + 1 <= N
               PROVE  total[n + 1] = t[n + 1] /\ (Upto(places, n + 1) = {} => t[n + 1] = 0)
    OBVIOUS
  <2>1. /\ n + 1 \in 0..Len(rows) /\ n + 1 \in 1..N /\ n + 1 # 0 /\ (n + 1) - 1 = n
        /\ total[n] = t[n] /\ (Upto(places, n) = {} => t[n] = 0)
    BY <1>10
  <2>2. total[n + 1] = total[n] + IF n + 1 \in places THEN rows[n + 1][c].n ELSE 0
    BY <1>8, <2>1
  <2>3. /\ t[n + 1] = t[n] + IF n + 1 \in places THEN rows[n + 1][c].n ELSE 0
        /\ t[n + 1] = IF n + 1 \in places THEN t[n] + rows[n + 1][c].n ELSE t[n]
    BY <1>6, <2>1
  <2>5. Upto(places, n + 1) = IF n + 1 \in places THEN Upto(places, n) \cup {n + 1} ELSE Upto(places, n)
    <3> DEFINE k == n + 1
    <3>1. k \in 1..N /\ k - 1 = n
      BY <2>1
    <3> HIDE DEF k
    <3> QED
      BY <1>0, <3>1 DEF k
  <2> QED
    BY <2>1, <2>2, <2>3, <2>5
<1>11. Nat \subseteq D
  <2> HIDE DEF D
  <2> QED
    BY <1>9, <1>10, NatSetInduction
<1>12. total[N] = t[N] /\ \A n \in 0..N : Upto(places, n) = {} => t[n] = 0
  BY <1>11
<1>13. RunningTotals(t, rows, c, places)
  BY <1>1, <1>5, <1>6, <1>12 DEF RunningTotals
<1> QED
  BY <1>13

\* What each row contributes.
Contributions(fn, rows, c, places) ==
    [n \in 1..Len(rows) |-> IF n \in places THEN Contribution(fn, rows[n][c]) ELSE Unit(fn)]

\* What the rows contribute are summaries, one for each row.
LEMMA ContributionsType ==
  ASSUME NEW fn, NEW T, Takes(fn, T), NEW rows, Len(rows) \in Nat, NEW c, NEW places,
         HasValues(rows, c, places, T)
  PROVE  /\ Contributions(fn, rows, c, places) \in Seq(Carrier(fn, T))
         /\ Len(Contributions(fn, rows, c, places)) = Len(rows)
         /\ Monoid(Carrier(fn, T), Combine(fn, T), Unit(fn))
         /\ UptoLaws(places, Len(rows))
         /\ T \in ColumnTypes
<1> DEFINE S == Carrier(fn, T)
           N == Len(rows)
           s == Contributions(fn, rows, c, places)
<1>1. Monoid(S, Combine(fn, T), Unit(fn)) /\ T \in ColumnTypes
  BY FunctionMonoid DEF Takes
<1>2. Unit(fn) \in S
  BY <1>1 DEF Monoid
<1>3. ASSUME NEW n \in places PROVE Contribution(fn, rows[n][c]) \in S
  <2> DEFINE v == rows[n][c]
  <2>1. v \in Cells(T)
    BY DEF HasValues
  <2> HIDE DEF v
  <2>2. Contribution(fn, v) \in S
    BY <2>1, ContributionType
  <2> QED
    BY <2>2 DEF v
<1> HIDE DEF S
<1>4. s \in [1..N -> S]
  BY <1>2, <1>3 DEF Contributions
<1> HIDE DEF s
<1>5. s \in Seq(S) /\ Len(s) = N
  BY <1>4
<1>6. UptoLaws(places, N)
  BY UptoSteps DEF HasValues
<1> QED
  BY <1>1, <1>5, <1>6 DEF S, s

\* A loop over the contributions is their reduction.
LEMMA ContributionsReduce ==
  ASSUME NEW fn, NEW T, Takes(fn, T), NEW rows, Len(rows) \in Nat, NEW c, NEW places,
         HasValues(rows, c, places, T), NEW f, f[0] = Unit(fn),
         \A n \in 1..Len(rows) :
           f[n] = IF n \in places THEN Combine(fn, T)[f[n - 1]][Contribution(fn, rows[n][c])] ELSE f[n - 1],
         \A n \in 0..Len(rows) : f[n] \in Carrier(fn, T)
  PROVE  f[Len(rows)] = Reduce(Combine(fn, T), Unit(fn), Contributions(fn, rows, c, places))
<1> DEFINE S == Carrier(fn, T)
           op == Combine(fn, T)
           e == Unit(fn)
           s == Contributions(fn, rows, c, places)
           N == Len(rows)
<1>1. s \in Seq(S) /\ Len(s) = N /\ Monoid(S, op, e)
  BY ContributionsType
<1>2. e \in S /\ op \in [S -> [S -> S]]
  BY <1>1 DEF Monoid
<1>3. ASSUME NEW n \in 1..N PROVE f[n] = op[f[n - 1]][s[n]]
  <2>1. n - 1 \in 0..N
    OBVIOUS
  <2>2. f[n - 1] \in S
    BY <2>1
  <2>3. op[f[n - 1]][e] = f[n - 1]
    <3> HIDE DEF op, e, S
    <3> QED
      BY <1>1, <2>2, MonoidUnit
  <2>4. s[n] = IF n \in places THEN Contribution(fn, rows[n][c]) ELSE e
    BY DEF Contributions
  <2> QED
    BY <2>3, <2>4
<1>4. Reduces(f, op, e, s, N)
  BY <1>3 DEF Reduces
<1> HIDE DEF op, e, S, s, N
<1>5. IsReduction(f, S, op, e, s, N)
  BY <1>1, <1>2, <1>4 DEF IsReduction
<1>6. f[N] = Reduce(op, e, s)
  BY <1>5, ReduceUnique
<1> QED
  BY <1>6 DEF op, e, s, N

\* COUNT: the number of places.
LEMMA CountReference ==
  ASSUME NEW T \in ColumnTypes, NEW rows, Len(rows) \in Nat, NEW c, NEW places, HasValues(rows, c, places, T)
  PROVE  Reduce(Combine("count", T), Unit("count"), Contributions("count", rows, c, places)) = Cardinality(places)
<1> DEFINE N == Len(rows)
           f == [n \in 0..N |-> Cardinality(Upto(places, n))]
<1>1. Takes("count", T)
  BY DEF Takes, AggregateFunctions, Supports
<1>2. UptoLaws(places, N)
  BY <1>1, ContributionsType
<1>3. Carrier("count", T) = Nat /\ Unit("count") = 0
  BY DEF Carrier, Unit
<1>4. \A n \in 0..N : Cardinality(Upto(places, n)) \in Nat
  <2>1. ASSUME NEW n \in 0..N PROVE Cardinality(Upto(places, n)) \in Nat
    <3>1. CASE n = 0
      BY <1>2, <3>1 DEF UptoLaws
    <3>2. CASE n # 0
      <4>1. n \in 1..N
        BY <3>2
      <4> QED
        BY <1>2, <4>1 DEF UptoLaws
    <3> QED
      BY <3>1, <3>2
  <2> QED
    BY <2>1
<1>5. f[0] = 0
  BY <1>2 DEF UptoLaws
<1>6. ASSUME NEW n \in 1..N
      PROVE  f[n] = IF n \in places THEN Combine("count", T)[f[n - 1]][Contribution("count", rows[n][c])] ELSE f[n - 1]
  <2>1. n - 1 \in 0..N /\ n \in 0..N
    OBVIOUS
  <2>2. f[n - 1] \in Nat
    BY <1>4, <2>1
  <2>3. f[n] = IF n \in places THEN f[n - 1] + 1 ELSE f[n - 1]
    BY <1>2, <2>1 DEF UptoLaws
  <2> HIDE DEF f
  <2>4. n \in places => Contribution("count", rows[n][c]) = 1
    BY CellProperties DEF HasValues, Contribution
  <2>5. Combine("count", T)[f[n - 1]][1] = f[n - 1] + 1
    BY <1>3, <2>2 DEF Combine, Combined
  <2> QED
    BY <2>3, <2>4, <2>5
<1>7. \A n \in 0..N : f[n] \in Carrier("count", T)
  BY <1>3, <1>4
<1>8. f[N] = Cardinality(places)
  BY <1>2 DEF UptoLaws
<1> HIDE DEF f
<1> QED
  BY <1>1, <1>3, <1>5, <1>6, <1>7, <1>8, ContributionsReduce

\* SUM: null, or the exact total wrapped once.
LEMMA SumReference ==
  ASSUME NEW T \in {"i32", "i64"}, NEW rows, Len(rows) \in Nat, NEW c, NEW places, HasValues(rows, c, places, T)
  PROVE  Reduce(Combine("sum", T), Unit("sum"), Contributions("sum", rows, c, places))
           = IF places = {} THEN Null ELSE Scalar(T, Wrap(TotalOf(rows, c, places)))
<1> DEFINE N == Len(rows)
<1>1. Takes("sum", T) /\ T \in ColumnTypes
  BY DEF Takes, AggregateFunctions, Supports, ColumnTypes
<1>2. UptoLaws(places, N)
  BY <1>1, ContributionsType
<1>3. Carrier("sum", T) = Cells(T) /\ Unit("sum") = Null
  BY DEF Carrier, Unit
<1>0. PICK t : RunningTotals(t, rows, c, places)
  BY <1>1, Totals
<1>4. /\ t \in [0..N -> Int] /\ t[0] = 0
      /\ \A n \in 1..N : t[n] = IF n \in places THEN t[n - 1] + rows[n][c].n ELSE t[n - 1]
      /\ \A n \in 0..N : Upto(places, n) = {} => t[n] = 0
      /\ TotalOf(rows, c, places) = t[N]
  BY <1>0 DEF RunningTotals
<1> DEFINE f == [n \in 0..N |-> IF Upto(places, n) = {} THEN Null ELSE Scalar(T, Wrap(t[n]))]
<1>5. \A n \in 0..N : f[n] \in Cells(T)
  BY <1>1, <1>4, SumCell, NullCell
<1>6. f[0] = Null
  BY <1>2 DEF UptoLaws
<1>7. ASSUME NEW n \in 1..N
      PROVE  f[n] = IF n \in places THEN Combine("sum", T)[f[n - 1]][Contribution("sum", rows[n][c])] ELSE f[n - 1]
  <2> DEFINE x == f[n - 1]
             v == rows[n][c]
             t0 == t[n - 1]
             empty == Upto(places, n - 1) = {}
  <2>1. n - 1 \in 0..N /\ n \in 0..N
    OBVIOUS
  <2>2. x \in Cells(T) /\ t0 \in Int /\ x = IF empty THEN Null ELSE Scalar(T, Wrap(t0))
    BY <1>4, <1>5, <2>1
  <2>3. CASE n \notin places
    <3>1. Upto(places, n) = Upto(places, n - 1) /\ t[n] = t0
      BY <1>2, <1>4, <2>3 DEF UptoLaws
    <3> QED
      BY <2>1, <2>3, <3>1
  <2>4. CASE n \in places
    <3>1. Upto(places, n) # {} /\ t[n] = t0 + v.n /\ (empty => t0 = 0)
      <4>1. Upto(places, n) = Upto(places, n - 1) \cup {n}
        BY <1>2, <2>4 DEF UptoLaws
      <4> QED
        BY <1>4, <2>1, <2>4, <4>1
    <3>2. f[n] = Scalar(T, Wrap(t0 + v.n))
      BY <2>1, <3>1
    <3>3. v \in Cells(T) /\ v # Null
      BY <2>4 DEF HasValues
    <3> HIDE DEF f, x, v, t0, empty
    <3>4. v.n \in -Half..(Half - 1) /\ ~is_null(v) /\ v = Scalar(T, v.n) /\ v.n \in Int
      BY <1>1, <3>3, CellProperties, WidthAssumption DEF Scalar
    <3>5. Contribution("sum", v) = v
      BY <3>4 DEF Contribution
    <3>6. Combine("sum", T)[x][v] = Combined("sum", T, x, v)
      BY <1>3, <2>2, <3>3 DEF Combine
    <3>7. CASE empty
      <4>1. Combined("sum", T, x, v) = v
        BY <2>2, <3>7 DEF Combined, is_null, Null, Scalar
      <4>2. t0 + v.n = v.n /\ Wrap(v.n) = v.n
        BY <3>1, <3>4, <3>7, WrapSame
      <4> QED
        BY <2>4, <3>2, <3>4, <3>5, <3>6, <4>1, <4>2 DEF x, v
    <3>8. CASE ~empty
      <4>1. x = Scalar(T, Wrap(t0)) /\ ~is_null(x) /\ x.n = Wrap(t0)
        BY <2>2, <3>8, SumCell DEF Scalar
      <4>2. Combined("sum", T, x, v) = Scalar(T, Wrap(Wrap(t0) + v.n))
        BY <3>4, <4>1 DEF Combined
      <4>3. Wrap(Wrap(t0) + v.n) = Wrap(t0 + v.n)
        BY <2>2, <3>4, WrapSum
      <4> QED
        BY <2>4, <3>2, <3>5, <3>6, <4>2, <4>3 DEF x, v
    <3> QED
      BY <3>7, <3>8
  <2> QED
    BY <2>3, <2>4
<1>8. f[N] = IF places = {} THEN Null ELSE Scalar(T, Wrap(TotalOf(rows, c, places)))
  BY <1>2, <1>4 DEF UptoLaws
<1> HIDE DEF f
<1> QED
  BY <1>1, <1>3, <1>5, <1>6, <1>7, <1>8, ContributionsReduce

\* AVG: the exact total and the number of places.
LEMMA AvgReference ==
  ASSUME NEW T \in Integral, NEW rows, Len(rows) \in Nat, NEW c, NEW places, HasValues(rows, c, places, T)
  PROVE  Reduce(Combine("avg", T), Unit("avg"), Contributions("avg", rows, c, places))
           = [sum |-> TotalOf(rows, c, places), count |-> Cardinality(places)]
<1> DEFINE N == Len(rows)
<1>1. Takes("avg", T) /\ T \in ColumnTypes
  BY DEF Takes, AggregateFunctions, Supports, ColumnTypes, Integral
<1>2. UptoLaws(places, N)
  BY <1>1, ContributionsType
<1>3. /\ Carrier("avg", T) = {m \in [sum : Int, count : Nat] : m.count = 0 => m.sum = 0}
      /\ Unit("avg") = [sum |-> 0, count |-> 0]
  BY DEF Carrier, Unit
<1>0. PICK t : RunningTotals(t, rows, c, places)
  BY <1>1, Totals
<1>4. /\ t \in [0..N -> Int] /\ t[0] = 0
      /\ \A n \in 1..N : t[n] = IF n \in places THEN t[n - 1] + rows[n][c].n ELSE t[n - 1]
      /\ \A n \in 0..N : Upto(places, n) = {} => t[n] = 0
      /\ TotalOf(rows, c, places) = t[N]
  BY <1>0 DEF RunningTotals
<1> DEFINE card == [n \in 0..N |-> Cardinality(Upto(places, n))]
           f == [n \in 0..N |-> [sum |-> t[n], count |-> card[n]]]
<1>5. /\ card[0] = 0
      /\ \A n \in 1..N : card[n] = IF n \in places THEN card[n - 1] + 1 ELSE card[n - 1]
      /\ \A n \in 0..N : card[n] \in Nat /\ (card[n] = 0 => Upto(places, n) = {})
  <2>1. \A n \in 1..N : card[n] = IF n \in places THEN card[n - 1] + 1 ELSE card[n - 1]
    BY <1>2 DEF UptoLaws
  <2>2. card[0] = 0 /\ Upto(places, 0) = {}
    BY <1>2 DEF UptoLaws
  <2>3. ASSUME NEW n \in 0..N PROVE card[n] \in Nat /\ (card[n] = 0 => Upto(places, n) = {})
    <3>1. IsFiniteSet(Upto(places, n))
      <4>1. IsFiniteSet(places)
        <5>1. IsFiniteSet(1..N)
          BY FS_Interval
        <5> QED
          BY <5>1, FS_Subset DEF HasValues
      <4>2. Upto(places, n) \subseteq places
        BY DEF Upto
      <4> QED
        BY <4>1, <4>2, FS_Subset
    <3> QED
      BY <3>1, FS_CardinalityType, FS_EmptySet
  <2> HIDE DEF card
  <2> QED
    BY <2>1, <2>2, <2>3
<1> HIDE DEF card
<1>6. \A n \in 0..N : f[n] \in Carrier("avg", T)
  BY <1>3, <1>4, <1>5
<1>7. f[0] = Unit("avg")
  BY <1>3, <1>4, <1>5
<1>8. ASSUME NEW n \in 1..N
      PROVE  f[n] = IF n \in places THEN Combine("avg", T)[f[n - 1]][Contribution("avg", rows[n][c])] ELSE f[n - 1]
  <2> DEFINE x == f[n - 1]
             v == rows[n][c]
  <2>1. n - 1 \in 0..N /\ n \in 0..N
    OBVIOUS
  <2>2. x \in Carrier("avg", T) /\ x = [sum |-> t[n - 1], count |-> card[n - 1]]
    BY <1>6, <2>1
  <2>3. CASE n \notin places
    BY <1>4, <1>5, <2>1, <2>3
  <2>4. CASE n \in places
    <3>1. f[n] = [sum |-> t[n - 1] + v.n, count |-> card[n - 1] + 1]
      BY <1>4, <1>5, <2>1, <2>4
    <3>2. v \in Cells(T) /\ v # Null
      BY <2>4 DEF HasValues
    <3> HIDE DEF f, x, v
    <3>3. v.n \in Int /\ ~is_null(v)
      BY <1>1, <3>2, CellProperties
    <3> DEFINE y == [sum |-> v.n, count |-> 1]
    <3>4. Contribution("avg", v) = y /\ y \in Carrier("avg", T)
      BY <1>3, <3>3 DEF Contribution
    <3>5. Combine("avg", T)[x][y] = Combined("avg", T, x, y)
      BY <2>2, <3>4 DEF Combine
    <3>6. Combined("avg", T, x, y) = [sum |-> t[n - 1] + v.n, count |-> card[n - 1] + 1]
      BY <2>2 DEF Combined
    <3> QED
      BY <2>4, <3>1, <3>4, <3>5, <3>6 DEF x, v
  <2> QED
    BY <2>3, <2>4
<1>9. f[N] = [sum |-> TotalOf(rows, c, places), count |-> Cardinality(places)]
  BY <1>2, <1>4 DEF UptoLaws, card
<1> HIDE DEF f
<1> QED
  BY <1>1, <1>6, <1>7, <1>8, <1>9, ContributionsReduce
\* The least or greatest of the values that column c has at some places; null without places.
IsBest(fn, rows, c, places, v) ==
    IF places = {} THEN v = Null
    ELSE v \in {rows[i][c] : i \in places} /\ \A i \in places : ~Better(fn, rows[i][c], v)

\* Combining the best of some places with one value more gives the best of them all.
LEMMA BestStep ==
  ASSUME NEW fn \in {"min", "max"}, NEW T \in ColumnTypes, NEW rows, NEW c, NEW places, NEW n,
         \A i \in places \cup {n} : rows[i][c] \in Cells(T) /\ rows[i][c] # Null,
         NEW x \in Cells(T), IsBest(fn, rows, c, places, x)
  PROVE  IsBest(fn, rows, c, places \cup {n}, Combine(fn, T)[x][Contribution(fn, rows[n][c])])
<1> DEFINE y == rows[n][c]
           all == places \cup {n}
           z == IF x = Null THEN y ELSE IF Better(fn, y, x) THEN y ELSE x
<1>1. y \in Cells(T) /\ y # Null /\ ~is_null(y)
  <2>1. y \in Cells(T) /\ y # Null
    OBVIOUS
  <2> HIDE DEF y
  <2> QED
    BY <2>1, CellProperties
<1>2. is_null(x) <=> x = Null
  BY CellProperties, NullCell
<1>3. Combine(fn, T)[x][Contribution(fn, y)] = z
  <2> HIDE DEF y
  <2>1. Contribution(fn, y) = y /\ Carrier(fn, T) = Cells(T)
    BY <1>1 DEF Contribution, Carrier
  <2>2. Combine(fn, T)[x][y] = Combined(fn, T, x, y)
    BY <1>1, <2>1 DEF Combine
  <2> QED
    BY <1>1, <1>2, <2>1, <2>2 DEF Combined
<1>4. IsBest(fn, rows, c, all, z)
  <2>1. CASE places = {}
    <3>1. z = y /\ all = {n}
      BY <2>1 DEF IsBest
    <3>2. ~Better(fn, y, y)
      <4> HIDE DEF y
      <4> QED
        BY <1>1, BetterTotal
    <3>3. \A i \in all : rows[i][c] = y
      BY <3>1
    <3>4. y \in {rows[i][c] : i \in all} /\ all # {}
      BY <3>1
    <3> HIDE DEF all, y, z
    <3> QED
      BY <3>1, <3>2, <3>3, <3>4 DEF IsBest
  <2>2. CASE places # {}
    <3>1. x \in {rows[i][c] : i \in places} /\ \A i \in places : ~Better(fn, rows[i][c], x)
      BY <2>2 DEF IsBest
    <3>2. x # Null
      BY <3>1
    <3>3. z \in {rows[i][c] : i \in all} /\ all # {} /\ z \in Cells(T) /\ z # Null
      BY <1>1, <3>1, <3>2
    <3>4. ASSUME NEW i \in all PROVE ~Better(fn, rows[i][c], z)
      <4> DEFINE v == rows[i][c]
      <4>1. v \in Cells(T) /\ v # Null
        OBVIOUS
      <4>2. i \in places => ~Better(fn, v, x)
        BY <3>1
      <4>3. i \notin places => v = y
        OBVIOUS
      <4>4. z = IF Better(fn, y, x) THEN y ELSE x
        BY <3>2
      <4> HIDE DEF v, y, z
      <4>5. /\ v = x \/ Better(fn, v, x) \/ Better(fn, x, v)
            /\ Better(fn, v, y) /\ Better(fn, y, x) => Better(fn, v, x)
            /\ ~Better(fn, y, y) /\ ~(Better(fn, v, x) /\ Better(fn, x, v))
        BY <1>1, <3>2, <4>1, BetterTotal
      <4> QED
        BY <4>2, <4>3, <4>4, <4>5 DEF v
    <3> HIDE DEF all, z
    <3> QED
      BY <3>3, <3>4 DEF IsBest
  <2> QED
    BY <2>1, <2>2
<1> QED
  BY <1>3, <1>4

\* The best value is the only one.
LEMMA BestIsExtreme ==
  ASSUME NEW fn \in {"min", "max"}, NEW T \in ColumnTypes, NEW rows, NEW c, NEW places, places # {},
         \A i \in places : rows[i][c] \in Cells(T) /\ rows[i][c] # Null,
         NEW x, IsBest(fn, rows, c, places, x)
  PROVE  Extreme(fn, rows, c, places) = x
<1> DEFINE best(v) == v \in {rows[i][c] : i \in places} /\ \A i \in places : ~Better(fn, rows[i][c], v)
           w == CHOOSE v \in {rows[i][c] : i \in places} : \A i \in places : ~Better(fn, rows[i][c], v)
<1>1. best(x)
  BY DEF IsBest
<1>2. best(w)
  BY <1>1
<1>3. PICK i \in places : x = rows[i][c]
  BY <1>1
<1>4. PICK j \in places : w = rows[j][c]
  BY <1>2
<1>5. ~Better(fn, w, x) /\ ~Better(fn, x, w)
  BY <1>1, <1>2, <1>3, <1>4
<1>6. x \in Cells(T) /\ w \in Cells(T) /\ x # Null /\ w # Null
  BY <1>3, <1>4
<1>7. Extreme(fn, rows, c, places) = w
  BY DEF Extreme
<1> HIDE DEF w
<1>8. w = x
  BY <1>5, <1>6, BetterTotal
<1> QED
  BY <1>7, <1>8

\* MIN and MAX: the least or the greatest value, or null.
LEMMA ExtremeReference ==
  ASSUME NEW fn \in {"min", "max"}, NEW T, Takes(fn, T), NEW rows, Len(rows) \in Nat, NEW c, NEW places,
         HasValues(rows, c, places, T)
  PROVE  Reduce(Combine(fn, T), Unit(fn), Contributions(fn, rows, c, places))
           = IF places = {} THEN Null ELSE Extreme(fn, rows, c, places)
<1> DEFINE N == Len(rows)
           S == Carrier(fn, T)
           op == Combine(fn, T)
           e == Unit(fn)
           s == Contributions(fn, rows, c, places)
           r == Reductions(op, e, s)
<1>1. s \in Seq(S) /\ Len(s) = N /\ Monoid(S, op, e) /\ UptoLaws(places, N) /\ T \in ColumnTypes
  BY ContributionsType
<1>2. S = Cells(T) /\ e = Null
  BY DEF Carrier, Unit
<1>3. e \in S /\ op \in [S -> [S -> S]]
  BY <1>1 DEF Monoid
<1>4. r \in [0..N -> S] /\ Reduces(r, op, e, s, N)
  <2> HIDE DEF S, op, e, s, N
  <2> QED
    BY <1>1, <1>3, ReductionsLoop DEF r
<1>5. r[0] = Null
  BY <1>2, <1>4 DEF Reduces
<1>6. ASSUME NEW n \in 1..N
      PROVE  r[n] = IF n \in places THEN op[r[n - 1]][Contribution(fn, rows[n][c])] ELSE r[n - 1]
  <2>1. r[n] = op[r[n - 1]][s[n]]
    <3> HIDE DEF op, e, s, r, N
    <3> QED
      BY <1>4 DEF Reduces
  <2>2. r[n - 1] \in S
    <3>1. n - 1 \in 0..N
      OBVIOUS
    <3> HIDE DEF r, S
    <3> QED
      BY <1>4, <3>1
  <2>3. op[r[n - 1]][e] = r[n - 1]
    <3> HIDE DEF op, e, S, r
    <3> QED
      BY <1>1, <2>2, MonoidUnit
  <2>4. s[n] = IF n \in places THEN Contribution(fn, rows[n][c]) ELSE e
    BY DEF Contributions
  <2> HIDE DEF op, e, s, r
  <2> QED
    BY <2>1, <2>3, <2>4
<1>7. Reduce(op, e, s) = r[N]
  BY <1>1 DEF Reduce
<1> HIDE DEF r, op, e, s
<1> DEFINE D == {n \in Nat : n <= N => IsBest(fn, rows, c, Upto(places, n), r[n])}
<1>8. 0 \in D
  BY <1>1, <1>5 DEF UptoLaws, IsBest
<1>9. ASSUME NEW n \in Nat, n \in D PROVE n + 1 \in D
  <2> SUFFICES ASSUME n + 1 <= N PROVE IsBest(fn, rows, c, Upto(places, n + 1), r[n + 1])
    OBVIOUS
  <2> DEFINE k == n + 1
  <2>1. k \in 1..N /\ k - 1 = n /\ n \in 0..N
    OBVIOUS
  <2>2. IsBest(fn, rows, c, Upto(places, n), r[n])
    BY <1>9
  <2> HIDE DEF k
  <2>3. Upto(places, k) = IF k \in places THEN Upto(places, n) \cup {k} ELSE Upto(places, n)
    BY <1>1, <2>1 DEF UptoLaws
  <2>4. r[k] = IF k \in places THEN op[r[n]][Contribution(fn, rows[k][c])] ELSE r[n]
    BY <1>6, <2>1
  <2>5. CASE k \notin places
    BY <2>2, <2>3, <2>4, <2>5 DEF k
  <2>6. CASE k \in places
    <3> DEFINE P == Upto(places, n)
               x == r[n]
    <3>1. \A i \in P \cup {k} : rows[i][c] \in Cells(T) /\ rows[i][c] # Null
      BY <2>6 DEF Upto, HasValues
    <3>2. x \in Cells(T) /\ IsBest(fn, rows, c, P, x)
      BY <1>2, <1>4, <2>1, <2>2
    <3> HIDE DEF P, x
    <3>3. IsBest(fn, rows, c, P \cup {k}, Combine(fn, T)[x][Contribution(fn, rows[k][c])])
      BY <1>1, <3>1, <3>2, BestStep
    <3> QED
      BY <2>3, <2>4, <2>6, <3>3 DEF P, x, op, k
  <2> QED
    BY <2>5, <2>6
<1>10. Nat \subseteq D
  <2> HIDE DEF D
  <2> QED
    BY <1>8, <1>9, NatSetInduction
<1>11. IsBest(fn, rows, c, places, r[N])
  <2>1. N \in D /\ Upto(places, N) = places
    BY <1>1, <1>10 DEF UptoLaws
  <2> QED
    BY <2>1
<1>12. CASE places = {}
  BY <1>7, <1>11, <1>12 DEF IsBest, op, e, s
<1>13. CASE places # {}
  <2>1. \A i \in places : rows[i][c] \in Cells(T) /\ rows[i][c] # Null
    BY DEF HasValues
  <2>2. Extreme(fn, rows, c, places) = r[N]
    BY <1>1, <1>11, <1>13, <2>1, BestIsExtreme
  <2> QED
    BY <1>7, <1>13, <2>2 DEF op, e, s
<1> QED
  BY <1>12, <1>13
\* Every function: the final value of the reduction is the aggregate of the reference.
LEMMA AggregateReference ==
  ASSUME NEW c \in 1..Len(InputTypes), NEW fn, Takes(fn, InputTypes[c]), NEW rows, Len(rows) \in Nat,
         NEW places, HasValues(rows, c, places, InputTypes[c]), NEW mode \in {"complete", "final"}
  PROVE  Output(mode, fn,
                StateOf(fn, Reduce(Combine(fn, InputTypes[c]), Unit(fn), Contributions(fn, rows, c, places))))
           = AggregateOf(fn, rows, c, places)
<1> DEFINE T == InputTypes[c]
           m == Reduce(Combine(fn, T), Unit(fn), Contributions(fn, rows, c, places))
           out == Output(mode, fn, StateOf(fn, m))
<1> SUFFICES out = AggregateOf(fn, rows, c, places)
  OBVIOUS
<1>1. T \in ColumnTypes /\ fn \in {"sum", "min", "max", "count", "avg"} /\ Supports(fn, T)
  BY DEF Takes, AggregateFunctions
<1>2. Takes(fn, T) /\ HasValues(rows, c, places, T)
  OBVIOUS
<1>3. UptoLaws(places, Len(rows))
  <2> HIDE DEF T
  <2> QED
    BY <1>2, ContributionsType
<1>4. Cardinality(places) \in Nat /\ (Cardinality(places) = 0 <=> places = {})
  BY <1>3 DEF UptoLaws
<1>5. out = final_value(fn, StateOf(fn, m)) /\ Null # Panic
  <2>1. Null # Panic
    BY <1>1, NoPanic, NullCell
  <2> HIDE DEF m
  <2> QED
    BY <2>1 DEF Output
<1>6. m \in Carrier(fn, T)
  <2> HIDE DEF T
  <2> DEFINE S == Carrier(fn, T)
             op == Combine(fn, T)
             e == Unit(fn)
             s == Contributions(fn, rows, c, places)
  <2>1. Monoid(S, op, e) /\ s \in Seq(S)
    BY <1>2, ContributionsType
  <2>2. e \in S /\ op \in [S -> [S -> S]]
    BY <2>1 DEF Monoid
  <2> HIDE DEF S, op, e, s
  <2>3. Reduce(op, e, s) \in S
    BY <2>1, <2>2, ReduceType
  <2> QED
    BY <2>3 DEF S, op, e, s
<1>7. CASE fn = "count"
  <2>1. m = Cardinality(places)
    <3> HIDE DEF T
    <3> QED
      BY <1>1, <1>2, <1>7, CountReference DEF m
  <2> HIDE DEF m
  <2>2. StateOf(fn, m).value = Null /\ StateOf(fn, m).count = m
    BY <1>7 DEF StateOf, create_accumulator
  <2>3. out = Scalar("i32", m)
    BY <1>5, <1>7, <2>2 DEF final_value
  <2> QED
    BY <1>7, <2>1, <2>3 DEF AggregateOf
<1>8. CASE fn \in {"sum", "min", "max"}
  <2>1. m = IF places = {} THEN Null
            ELSE IF fn = "sum" THEN Scalar(T, Wrap(TotalOf(rows, c, places))) ELSE Extreme(fn, rows, c, places)
    <3>1. fn = "sum" => T \in {"i32", "i64"}
      BY <1>1 DEF Supports
    <3> HIDE DEF T
    <3>2. CASE fn = "sum"
      BY <1>2, <3>1, <3>2, SumReference DEF m
    <3>3. CASE fn \in {"min", "max"}
      BY <1>2, <3>3, ExtremeReference DEF m
    <3> QED
      BY <1>8, <3>2, <3>3
  <2>2. m \in Cells(T)
    BY <1>6, <1>8 DEF Carrier
  <2>3. m # Panic
    <3> HIDE DEF T, m
    <3> QED
      BY <1>1, <2>2, NoPanic
  <2> HIDE DEF m
  <2>4. StateOf(fn, m).value = m
    BY <1>8 DEF StateOf, create_accumulator
  <2>5. out = m
    BY <1>5, <1>8, <2>3, <2>4 DEF final_value
  <2> QED
    BY <1>8, <2>1, <2>5 DEF AggregateOf
<1>9. CASE fn = "avg"
  <2> DEFINE sum == TotalOf(rows, c, places)
             card == Cardinality(places)
  <2>1. m = [sum |-> sum, count |-> card]
    <3>1. T \in Integral
      BY <1>1, <1>9 DEF Supports
    <3> HIDE DEF T
    <3> QED
      BY <1>2, <1>9, <3>1, AvgReference DEF m
  <2> HIDE DEF m
  <2>2. m.sum \in Int
    BY <1>6, <1>9 DEF Carrier
  <2>3. m.sum = sum /\ m.count = card /\ sum \in Int
    BY <2>1, <2>2
  <2> HIDE DEF sum, card
  <2>4. StateOf(fn, m).value = Null /\ StateOf(fn, m).sum = Scalar("f64", sum) /\ StateOf(fn, m).count = card
    BY <1>9, <2>3 DEF StateOf
  <2>5. CASE places = {}
    <3>1. card = 0
      BY <1>4, <2>5 DEF card
    <3>2. out = Null
      BY <1>5, <1>9, <2>4, <3>1 DEF final_value
    <3> QED
      BY <1>9, <2>5, <3>2 DEF AggregateOf
  <2>6. CASE places # {}
    <3>1. card # 0 /\ card \in Nat
      BY <1>4, <2>6 DEF card
    <3>2. out = double_math("div", Scalar("f64", sum), Double(card, 1))
      BY <1>5, <1>9, <2>4, <3>1 DEF final_value
    <3>3. Double(card, 1) = Scalar("f64", card)
      BY <3>1, DoubleOne
    <3>4. double_math("div", Scalar("f64", sum), Scalar("f64", card)) = Double(sum, card)
      <4>1. sum * 1 = sum /\ 1 * card = card
        BY <2>3, <3>1
      <4> QED
        BY <4>1 DEF double_math, Scalar
    <3> QED
      BY <1>9, <2>6, <3>2, <3>3, <3>4 DEF AggregateOf, sum, card
  <2> QED
    BY <2>5, <2>6
<1> QED
  BY <1>1, <1>7, <1>8, <1>9
===============================================================================
