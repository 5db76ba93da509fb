------------------------- MODULE ParallelAggregateProofs -------------------------
(***************************************************************************)
(* Dealing the batches to any number of workers and merging their partial  *)
(* results gives the rows of GROUP BY, for every aligned plan and every    *)
(* input; only an average can make such a query panic.                     *)
(***************************************************************************)
EXTENDS ExecuteProofs

-------------------------------------------------------------------------------
(* Dealing. *)

\* d[n] is what the workers have once n batches are dealt.
DealsInTurn(d, R) ==
    /\ d \in [0..Len(input) -> [Workers -> Seq(Seq(R))]]
    /\ d[0] = [w \in Workers |-> <<>>]
    /\ \A n \in 1..Len(input) :
         /\ (n - 1) % parallelism \in Workers
         /\ d[n] = [d[n - 1] EXCEPT ![(n - 1) % parallelism] = Append(@, input[n])]

\* Dealt is the end of such a deal.
LEMMA DealtLoop ==
  ASSUME NEW R, input \in Seq(Seq(R)), parallelism \in Nat, parallelism > 1
  PROVE  \E d : DealsInTurn(d, R) /\ Dealt = d[Len(input)]
<1> DEFINE N == Len(input)
           S == [Workers -> Seq(Seq(R))]
           b == [w \in Workers |-> <<>>]
           next(n, x) == [x EXCEPT ![(n - 1) % parallelism] = Append(@, input[n])]
           G == [n \in 1..N |-> [x \in S |-> next(n, x)]]
           E(f) == [n \in 0..Len(input) |-> IF n = 0 THEN b ELSE next(n, f[n - 1])]
           dealt == CHOOSE f : f = E(f)
<1>1. Dealt = dealt[Len(input)]
  BY DEF Dealt
<1>2. N \in Nat /\ \A n \in 1..N : input[n] \in Seq(R)
  OBVIOUS
<1>3. b \in S
  OBVIOUS
<1>4. ASSUME NEW n \in 1..N PROVE (n - 1) % parallelism \in Workers
  BY DEF Workers
<1>5. ASSUME NEW n \in 1..N, NEW x \in S PROVE next(n, x) \in S
  <2> DEFINE w == (n - 1) % parallelism
  <2>1. w \in Workers /\ x[w] \in Seq(Seq(R)) /\ input[n] \in Seq(R)
    BY <1>2, <1>4
  <2>2. Append(x[w], input[n]) \in Seq(Seq(R))
    BY <2>1
  <2> HIDE DEF w
  <2> QED
    BY <2>1, <2>2 DEF w
<1> HIDE DEF b, next, S
<1>6. G \in [1..N -> [S -> S]]
  BY <1>5
<1>7. PICK t \in [0..N -> S] : IsLoop(t, N, b, G)
  <2> HIDE DEF G
  <2> QED
    BY <1>2, <1>3, <1>6, LoopExists
<1>8. t[0] = b
  BY <1>7 DEF IsLoop
<1>9. ASSUME NEW n \in 1..N PROVE n - 1 \in 0..N /\ t[n - 1] \in S /\ t[n] = next(n, t[n - 1])
  <2>1. n - 1 \in 0..N
    BY <1>2
  <2>2. t[n - 1] \in S
    BY <1>7, <2>1
  <2>3. t[n] = G[n][t[n - 1]]
    <3> HIDE DEF G
    <3> QED
      BY <1>7 DEF IsLoop
  <2> QED
    BY <2>1, <2>2, <2>3
<1>10. t = E(t)
  <2>1. ASSUME NEW n \in 0..N PROVE t[n] = E(t)[n]
    <3>1. CASE n = 0
      BY <1>8, <3>1
    <3>2. CASE n # 0
      <4>1. n \in 1..N
        BY <1>2, <3>2
      <4> QED
        BY <1>9, <3>2, <4>1
    <3> QED
      BY <3>1, <3>2
  <2> HIDE DEF G
  <2> QED
    BY <1>7, <2>1
<1>11. dealt = E(dealt)
  <2> HIDE DEF E
  <2> QED
    BY <1>10
<1> HIDE DEF dealt, G
<1> DEFINE D == {n \in Nat : n <= N => dealt[n] = t[n]}
<1>12. 0 \in D
  <2>1. 0 \in 0..Len(input)
    BY <1>2
  <2>2. dealt[0] = b
    BY <1>11, <2>1
  <2> QED
    BY <1>8, <2>2
<1>13. ASSUME NEW n \in Nat, n \in D PROVE n + 1 \in D
  <2> SUFFICES ASSUME n + 1 <= N PROVE dealt[n + 1] = t[n + 1]
    OBVIOUS
  <2> DEFINE k == n + 1
  <2>1. k \in 0..Len(input) /\ k \in 1..N /\ k # 0 /\ k - 1 = n /\ dealt[n] = t[n]
    BY <1>2, <1>13
  <2> HIDE DEF k
  <2>2. dealt[k] = next(k, dealt[k - 1])
    BY <1>11, <2>1
  <2>3. t[k] = next(k, t[k - 1])
    BY <1>9, <2>1
  <2> QED
    BY <2>1, <2>2, <2>3 DEF k
<1>14. Nat \subseteq D
  <2> HIDE DEF D
  <2> QED
    BY <1>12, <1>13, NatSetInduction
<1>15. dealt[N] = t[N]
  BY <1>2, <1>14
<1>16. DealsInTurn(t, R)
  <2>1. t \in [0..N -> [Workers -> Seq(Seq(R))]]
    BY <1>7 DEF S
  <2>2. \A n \in 1..N : t[n] = [t[n - 1] EXCEPT ![(n - 1) % parallelism] = Append(@, input[n])]
    BY <1>9 DEF next
  <2> QED
    BY <1>4, <1>8, <2>1, <2>2 DEF DealsInTurn, b
<1> QED
  BY <1>1, <1>15, <1>16

\* The measures of what the workers were dealt.
Shares(op, e, g, d) == [i \in 1..parallelism |-> Whole(op, e, g, d[i - 1])]

\* However the batches are dealt, the measures of the shares reduce to the measure of all.
LEMMA DealtMeasure ==
  ASSUME NEW S, NEW e, NEW op, Monoid(S, op, e), NEW R, NEW g, Maps(g, R, S),
         input \in Seq(Seq(R)), parallelism \in Nat, parallelism > 1
  PROVE  /\ Dealt \in [Workers -> Seq(Seq(R))]
         /\ Shares(op, e, g, Dealt) \in Seq(S)
         /\ Len(Shares(op, e, g, Dealt)) = parallelism
         /\ Reduce(op, e, Shares(op, e, g, Dealt)) = Whole(op, e, g, input)
<1> DEFINE N == Len(input)
           s == Measures(op, e, g, input)
<1>1. PICK d : DealsInTurn(d, R) /\ Dealt = d[N]
  BY DealtLoop
<1>2. /\ d \in [0..N -> [Workers -> Seq(Seq(R))]]
      /\ d[0] = [w \in Workers |-> <<>>]
      /\ \A n \in 1..N :
           /\ (n - 1) % parallelism \in Workers
           /\ d[n] = [d[n - 1] EXCEPT ![(n - 1) % parallelism] = Append(@, input[n])]
  BY <1>1 DEF DealsInTurn
<1>3. N \in Nat /\ \A n \in 1..N : input[n] \in Seq(R)
  OBVIOUS
<1>4. s \in Seq(S) /\ Len(s) = N /\ Whole(op, e, g, input) = Reduce(op, e, s)
  BY WholeReduces
<1>5. \A i \in 1..parallelism : i - 1 \in Workers
  BY DEF Workers
<1>6. e \in S /\ op \in [S -> [S -> S]]
  BY DEF Monoid
<1>7. ASSUME NEW x \in [Workers -> Seq(Seq(R))]
      PROVE  /\ Shares(op, e, g, x) \in Seq(S)
             /\ Len(Shares(op, e, g, x)) = parallelism
             /\ \A i \in 1..parallelism : Shares(op, e, g, x)[i] = Whole(op, e, g, x[i - 1])
  <2>1. \A i \in 1..parallelism : Whole(op, e, g, x[i - 1]) \in S
    BY <1>5, WholeType
  <2> QED
    BY <2>1 DEF Shares
<1> DEFINE f == [n \in 0..N |-> Reduce(op, e, Shares(op, e, g, d[n]))]
<1>8. f[0] = e
  <2> DEFINE t == Shares(op, e, g, d[0])
  <2>1. 0 \in 0..N /\ f[0] = Reduce(op, e, t)
    BY <1>3
  <2>2. d[0] \in [Workers -> Seq(Seq(R))]
    BY <1>2, <2>1
  <2>3. \A i \in 1..parallelism : Whole(op, e, g, d[0][i - 1]) = e
    BY <1>2, <1>5, WholeEmpty
  <2>4. t \in Seq(S) /\ Len(t) = parallelism /\ \A i \in 1..parallelism : t[i] = Whole(op, e, g, d[0][i - 1])
    BY <1>7, <2>2
  <2> HIDE DEF f, t
  <2>5. \A i \in 1..Len(t) : t[i] = e
    BY <2>3, <2>4
  <2> QED
    BY <2>1, <2>4, <2>5, ReduceUnits
<1>9. ASSUME NEW n \in 1..N PROVE f[n] = op[f[n - 1]][s[n]]
  <2> DEFINE x == d[n - 1]
             y == d[n]
             w == (n - 1) % parallelism
             i == w + 1
             sx == Shares(op, e, g, x)
             sy == Shares(op, e, g, y)
             batch == input[n]
  <2>1. n - 1 \in 0..N /\ n \in 0..N /\ f[n] = Reduce(op, e, sy) /\ f[n - 1] = Reduce(op, e, sx)
    BY <1>3
  <2>2. x \in [Workers -> Seq(Seq(R))] /\ y \in [Workers -> Seq(Seq(R))] /\ w \in Workers
    BY <1>2, <2>1
  <2>3. y = [x EXCEPT ![w] = Append(x[w], batch)] /\ batch \in Seq(R)
    BY <1>2, <1>3
  <2>4. s[n] = Measure(op, e, g, batch)
    BY DEF Measures
  <2>5. i \in 1..parallelism /\ i - 1 = w
    BY <2>2 DEF Workers
  <2> HIDE DEF x, y, w, i, batch
  <2>6. /\ sx \in Seq(S) /\ Len(sx) = parallelism /\ sy \in Seq(S) /\ Len(sy) = parallelism
        /\ \A j \in 1..parallelism : sx[j] = Whole(op, e, g, x[j - 1]) /\ sy[j] = Whole(op, e, g, y[j - 1])
    BY <1>7, <2>2
  <2> HIDE DEF sx, sy, s, f
  <2>7. sy[i] = op[sx[i]][s[n]]
    <3>1. x[w] \in Seq(Seq(R)) /\ y[w] = Append(x[w], batch)
      BY <2>2, <2>3
    <3>2. Whole(op, e, g, Append(x[w], batch)) = op[Whole(op, e, g, x[w])][Measure(op, e, g, batch)]
      BY <2>3, <3>1, WholeAppend
    <3> QED
      BY <2>4, <2>5, <2>6, <3>1, <3>2
  <2>8. ASSUME NEW j \in 1..Len(sx), j # i PROVE sy[j] = sx[j]
    <3>1. j - 1 \in Workers /\ j - 1 # w
      BY <1>5, <2>2, <2>5, <2>6, <2>8 DEF Workers
    <3>2. y[j - 1] = x[j - 1]
      BY <2>2, <2>3, <3>1
    <3> QED
      BY <2>6, <3>2
  <2>9. s[n] \in S /\ i \in 1..Len(sx) /\ Len(sy) = Len(sx)
    BY <1>4, <2>5, <2>6
  <2>10. Reduce(op, e, sy) = op[Reduce(op, e, sx)][s[n]]
    <3>1. Updates(op, sx, sy, i, s[n])
      BY <2>7, <2>8, <2>9 DEF Updates
    <3> QED
      BY <2>6, <2>9, <3>1, ReduceUpdate
  <2> QED
    BY <2>1, <2>10
<1> HIDE DEF f, s
<1>10. Reduces(f, op, e, s, N)
  BY <1>8, <1>9 DEF Reduces
<1>11. f[N] = Reduce(op, e, s)
  <2> HIDE DEF N
  <2>1. IsReduction(f, S, op, e, s, N)
    BY <1>4, <1>6, <1>10 DEF IsReduction
  <2> QED
    BY <2>1, ReduceUnique
<1>12. f[N] = Reduce(op, e, Shares(op, e, g, d[N])) /\ d[N] \in [Workers -> Seq(Seq(R))]
  BY <1>2, <1>3 DEF f
<1> QED
  BY <1>1, <1>4, <1>7, <1>11, <1>12

-------------------------------------------------------------------------------
(* Collecting. *)

\* The partial rows of the workers that were dealt something come from R.
Collectable(R) == \A w \in Workers : bucket[w] # <<>> => SetToSeq(partial[w]) \in Seq(R)

\* c[n] is what n workers have left.
CollectsInTurn(c, R) ==
    /\ c \in [0..parallelism -> Seq(Seq(R))]
    /\ c[0] = <<>>
    /\ \A n \in 1..parallelism :
         c[n] = IF bucket[n - 1] = <<>> THEN c[n - 1] ELSE Append(c[n - 1], SetToSeq(partial[n - 1]))

\* PartialBatches is the end of such a collection.
LEMMA PartialBatchesLoop ==
  ASSUME NEW R, Collectable(R), parallelism \in Nat
  PROVE  \E c : CollectsInTurn(c, R) /\ PartialBatches = c[parallelism]
<1> DEFINE N == parallelism
           S == Seq(Seq(R))
           b == <<>>
           next(n, x) == IF bucket[n - 1] = <<>> THEN x ELSE Append(x, SetToSeq(partial[n - 1]))
           G == [n \in 1..N |-> [x \in S |-> next(n, x)]]
           E(f) == [n \in 0..parallelism |->
                      IF n = 0 THEN <<>>
                      ELSE IF bucket[n - 1] = <<>> THEN f[n - 1]
                      ELSE Append(f[n - 1], SetToSeq(partial[n - 1]))]
           collected == CHOOSE f : f = E(f)
<1>1. PartialBatches = collected[parallelism]
  BY DEF PartialBatches
<1>2. N \in Nat /\ b \in S
  OBVIOUS
<1>3. ASSUME NEW n \in 1..N, NEW x \in S PROVE next(n, x) \in S
  <2>1. bucket[n - 1] # <<>> => SetToSeq(partial[n - 1]) \in Seq(R)
    BY DEF Collectable, Workers
  <2> QED
    BY <2>1
<1> HIDE DEF b, S
<1>4. G \in [1..N -> [S -> S]]
  BY <1>3
<1>5. PICK t \in [0..N -> S] : IsLoop(t, N, b, G)
  <2> HIDE DEF G, N
  <2> QED
    BY <1>2, <1>4, LoopExists
<1>6. t[0] = b
  BY <1>5 DEF IsLoop
<1>7. ASSUME NEW n \in 1..N PROVE n - 1 \in 0..N /\ t[n - 1] \in S /\ t[n] = next(n, t[n - 1])
  <2>1. n - 1 \in 0..N
    BY <1>2
  <2>2. t[n - 1] \in S
    BY <1>5, <2>1
  <2>3. t[n] = G[n][t[n - 1]]
    <3> HIDE DEF G
    <3> QED
      BY <1>5 DEF IsLoop
  <2> QED
    BY <2>1, <2>2, <2>3
<1>8. t = E(t)
  <2>1. ASSUME NEW n \in 0..N PROVE t[n] = E(t)[n]
    <3>1. CASE n = 0
      BY <1>6, <3>1 DEF b
    <3>2. CASE n # 0
      <4>1. n \in 1..N
        BY <1>2, <3>2
      <4> QED
        BY <1>7, <3>2, <4>1
    <3> QED
      BY <3>1, <3>2
  <2> HIDE DEF G
  <2> QED
    BY <1>5, <2>1
<1>9. collected = E(collected)
  <2> HIDE DEF E
  <2> QED
    BY <1>8
<1> HIDE DEF collected, G
<1> DEFINE D == {n \in Nat : n <= N => collected[n] = t[n]}
<1>10. 0 \in D
  <2>1. 0 \in 0..parallelism
    BY <1>2
  <2>2. collected[0] = <<>>
    BY <1>9, <2>1
  <2> QED
    BY <1>6, <2>2 DEF b
<1>11. ASSUME NEW n \in Nat, n \in D PROVE n + 1 \in D
  <2> SUFFICES ASSUME n + 1 <= N PROVE collected[n + 1] = t[n + 1]
    OBVIOUS
  <2> DEFINE k == n + 1
  <2>1. k \in 0..parallelism /\ k \in 1..N /\ k # 0 /\ k - 1 = n /\ collected[n] = t[n]
    BY <1>2, <1>11
  <2> HIDE DEF k
  <2>2. collected[k] = next(k, collected[k - 1])
    BY <1>9, <2>1
  <2>3. t[k] = next(k, t[k - 1])
    BY <1>7, <2>1
  <2> HIDE DEF next
  <2> QED
    BY <2>1, <2>2, <2>3 DEF k
<1>12. Nat \subseteq D
  <2> HIDE DEF D
  <2> QED
    BY <1>10, <1>11, NatSetInduction
<1>13. collected[N] = t[N]
  BY <1>2, <1>12
<1>14. CollectsInTurn(t, R)
  <2>1. t \in [0..N -> Seq(Seq(R))]
    BY <1>5 DEF S
  <2>2. \A n \in 1..N : t[n] = IF bucket[n - 1] = <<>> THEN t[n - 1] ELSE Append(t[n - 1], SetToSeq(partial[n - 1]))
    BY <1>7
  <2> QED
    BY <1>6, <2>1, <2>2 DEF CollectsInTurn, b
<1> QED
  BY <1>1, <1>13, <1>14

\* What g makes of a worker's batches h makes of its partial rows.
Represents(op, e, g, h) ==
    \A w \in Workers : bucket[w] # <<>> => Measure(op, e, h, SetToSeq(partial[w])) = Whole(op, e, g, bucket[w])

\* If so for every worker, then for the whole input and all partial batches.
LEMMA SplitMeasure ==
  ASSUME NEW S, NEW e, NEW op, Monoid(S, op, e), NEW A, NEW g, Maps(g, A, S), NEW B, NEW h, Maps(h, B, S),
         input \in Seq(Seq(A)), parallelism \in Nat, parallelism > 1,
         bucket = Dealt, Collectable(B), Represents(op, e, g, h)
  PROVE  /\ PartialBatches \in Seq(Seq(B))
         /\ Whole(op, e, h, PartialBatches) = Whole(op, e, g, input)
<1> DEFINE P == parallelism
           s == Shares(op, e, g, bucket)
<1>1. PICK c : CollectsInTurn(c, B) /\ PartialBatches = c[P]
  BY PartialBatchesLoop
<1>2. /\ c \in [0..P -> Seq(Seq(B))]
      /\ c[0] = <<>>
      /\ \A n \in 1..P :
           c[n] = IF bucket[n - 1] = <<>> THEN c[n - 1] ELSE Append(c[n - 1], SetToSeq(partial[n - 1]))
  BY <1>1 DEF CollectsInTurn
<1>3. s \in Seq(S) /\ Len(s) = P /\ Reduce(op, e, s) = Whole(op, e, g, input)
  BY DealtMeasure
<1>4. P \in Nat /\ e \in S /\ op \in [S -> [S -> S]]
  BY DEF Monoid
<1> DEFINE f == [n \in 0..P |-> Whole(op, e, h, c[n])]
<1>5. f[0] = e
  BY <1>2, <1>4, WholeEmpty
<1>6. ASSUME NEW n \in 1..P PROVE f[n] = op[f[n - 1]][s[n]]
  <2>1. n - 1 \in 0..P /\ n \in 0..P /\ n - 1 \in Workers
    BY <1>4 DEF Workers
  <2>2. f[n] = Whole(op, e, h, c[n]) /\ f[n - 1] = Whole(op, e, h, c[n - 1]) /\ c[n - 1] \in Seq(Seq(B))
    BY <1>2, <2>1
  <2>3. s[n] = Whole(op, e, g, bucket[n - 1])
    BY DEF Shares
  <2> HIDE DEF f, s
  <2>4. CASE bucket[n - 1] = <<>>
    <3>1. s[n] = e
      BY <2>3, <2>4, WholeEmpty
    <3>2. Whole(op, e, h, c[n - 1]) \in S
      BY <2>2, WholeType
    <3>3. op[Whole(op, e, h, c[n - 1])][e] = Whole(op, e, h, c[n - 1])
      BY <3>2, MonoidUnit
    <3>4. c[n] = c[n - 1]
      BY <1>2, <2>4
    <3> QED
      BY <2>2, <3>1, <3>3, <3>4
  <2>5. CASE bucket[n - 1] # <<>>
    <3> DEFINE rows == SetToSeq(partial[n - 1])
               before == c[n - 1]
    <3>1. c[n] = Append(before, rows)
      BY <1>2, <2>5
    <3>2. rows \in Seq(B) /\ before \in Seq(Seq(B))
      BY <2>1, <2>2, <2>5 DEF Collectable
    <3>3. s[n] = Measure(op, e, h, rows)
      BY <2>1, <2>3, <2>5 DEF Represents
    <3> HIDE DEF rows, before
    <3>4. Whole(op, e, h, Append(before, rows)) = op[Whole(op, e, h, before)][Measure(op, e, h, rows)]
      BY <3>2, WholeAppend
    <3> QED
      BY <2>2, <3>1, <3>3, <3>4 DEF before
  <2> QED
    BY <2>4, <2>5
<1> HIDE DEF f, s
<1>7. Reduces(f, op, e, s, P)
  BY <1>5, <1>6 DEF Reduces
<1>8. f[P] = Reduce(op, e, s)
  <2> HIDE DEF P
  <2>1. IsReduction(f, S, op, e, s, P)
    BY <1>3, <1>4, <1>7 DEF IsReduction
  <2> QED
    BY <2>1, ReduceUnique
<1>9. f[P] = Whole(op, e, h, c[P]) /\ c[P] \in Seq(Seq(B))
  BY <1>2, <1>4 DEF f
<1> QED
  BY <1>1, <1>3, <1>8, <1>9

-------------------------------------------------------------------------------
(* What a worker's partial rows say of its batches. *)

\* Rows of a partial result that say the same of every group as the rows aggregated.
StandsFor(p, partials, rows) ==
    /\ partials \in Seq(PartialRows(p))
    /\ KeysOf(p, partials) = KeysOf(p, rows)
    /\ \A a \in Aggregates(p) : \A k :
         Summary(p, a, Carried(p, a, k), partials) = Summary(p, a, Contributed(p, a, k), rows)

\* The rows of a Partial aggregate that does not panic stand for its input.
LEMMA PartialStands ==
  ASSUME NEW p \in AlignedPlans, NEW batches \in Seq(Seq(InputRows)),
         ~execute(p, "partial", InputTypes, batches).panic
  PROVE  StandsFor(p, SetToSeq(execute(p, "partial", InputTypes, batches).rows), FlattenSeq(batches))
<1> DEFINE flat == FlattenSeq(batches)
           set == execute(p, "partial", InputTypes, batches).rows
           row(k) == RowOf(p, "partial", k, Summaries(p, k, flat))
           K == KeysOf(p, flat)
           t == SetToSeq(set)
<1>1. flat \in Seq(InputRows)
  BY FlattenType
<1>2. set = {row(k) : k \in K} /\ \A k \in K : Carries(p, k, Summaries(p, k, flat), row(k))
  BY ExecutePartial
<1> HIDE DEF flat, row, set
<1>3. \A k \in K : row(k) \in PartialRows(p) /\ Key(p, row(k)) = k
                   /\ \A a \in Aggregates(p) : Carried(p, a, k)[row(k)] = Summaries(p, k, flat)[a]
  BY <1>2 DEF Carries
<1>4. IsFiniteSet(set)
  <2>1. IsFiniteSet(DOMAIN flat)
    <3>1. DOMAIN flat = 1..Len(flat) /\ 1 \in Int /\ Len(flat) \in Int
      BY <1>1
    <3> QED
      BY <3>1, FS_Interval
  <2> DEFINE f == [i \in DOMAIN flat |-> row(Key(p, flat[i]))]
  <2>2. \A x \in set : \E i \in DOMAIN flat : x = row(Key(p, flat[i]))
    BY <1>2 DEF KeysOf
  <2>3. \A i \in DOMAIN flat : row(Key(p, flat[i])) \in set
    BY <1>2 DEF KeysOf
  <2>4. f \in [DOMAIN flat -> set]
    BY <2>3
  <2>5. \A x \in set : \E i \in DOMAIN flat : f[i] = x
    BY <2>2
  <2>6. f \in Surjection(DOMAIN flat, set)
    BY <2>4, <2>5 DEF Surjection
  <2> HIDE DEF f
  <2> QED
    BY <2>1, <2>6, FS_Surjection
<1>5. /\ t \in Seq(set)
      /\ \A x \in set : \E i \in 1..Len(t) : t[i] = x
      /\ \A i, j \in 1..Len(t) : t[i] = t[j] => i = j
  BY <1>4, SetToSeqProperties
<1> HIDE DEF t, K
<1>6. set \subseteq PartialRows(p)
  BY <1>2, <1>3
<1>7. t \in Seq(PartialRows(p)) /\ DOMAIN t = 1..Len(t) /\ \A i \in 1..Len(t) : t[i] \in set
  BY <1>5, <1>6
<1>8. KeysOf(p, t) = K
  <2>1. {Key(p, t[i]) : i \in DOMAIN t} = {Key(p, x) : x \in set}
    BY <1>5, <1>7
  <2>2. {Key(p, x) : x \in set} = K
    BY <1>2, <1>3
  <2> QED
    BY <2>1, <2>2 DEF KeysOf
<1>9. ASSUME NEW a \in Aggregates(p), NEW k
      PROVE  Summary(p, a, Carried(p, a, k), t) = Summary(p, a, Contributed(p, a, k), flat)
  <2> DEFINE S == Carrier(Fn(p, a), ArgumentType(p, a))
             op == Combine(Fn(p, a), ArgumentType(p, a))
             e == Unit(Fn(p, a))
             g == Contributed(p, a, k)
             h == Carried(p, a, k)
             B == PartialRows(p)
  <2>1. Monoid(S, op, e) /\ Maps(g, InputRows, S) /\ Maps(h, B, S)
    BY SummaryTypes DEF AggregateMonoid
  <2>2. \A x \in B : Key(p, x) # k => h[x] = e
    BY DEF Carried
  <2>3. \A x \in InputRows : Key(p, x) # k => g[x] = e
    BY DEF Contributed
  <2> HIDE DEF S, op, e, g, h, B
  <2>4. t \in Seq(B) /\ set \subseteq B
    BY <1>6, <1>7 DEF B
  <2>5. CASE k \in K
    <3>1. row(k) \in set
      BY <1>2, <2>5
    <3>2. PICK i \in 1..Len(t) : t[i] = row(k)
      BY <1>5, <3>1
    <3>3. ASSUME NEW j \in 1..Len(t), j # i PROVE h[t[j]] = e
      <4>1. t[j] # row(k) /\ t[j] \in set
        BY <1>5, <1>7, <3>2, <3>3
      <4>2. PICK k2 \in K : t[j] = row(k2)
        BY <1>2, <4>1
      <4>3. k2 # k /\ Key(p, t[j]) = k2
        BY <1>3, <4>1, <4>2
      <4> QED
        BY <2>2, <2>4, <4>1, <4>3
    <3>4. Measure(op, e, h, t) = h[t[i]]
      BY <2>1, <2>4, <3>3, MeasureSingle
    <3>5. h[row(k)] = Measure(op, e, g, flat)
      <4>1. h[row(k)] = Summaries(p, k, flat)[a]
        BY <1>3, <2>5 DEF h
      <4>2. Summaries(p, k, flat)[a] = Summary(p, a, Contributed(p, a, k), flat)
        BY DEF Summaries
      <4> QED
        BY <4>1, <4>2 DEF Summary, op, e, g
    <3> QED
      BY <3>2, <3>4, <3>5 DEF Summary, op, e, g, h
  <2>6. CASE k \notin K
    <3>1. ASSUME NEW i \in 1..Len(t) PROVE h[t[i]] = e
      <4>1. t[i] \in set /\ t[i] \in B
        BY <1>7, <2>4
      <4>2. PICK k2 \in K : t[i] = row(k2)
        BY <1>2, <4>1
      <4>3. Key(p, t[i]) # k
        BY <1>3, <2>6, <4>2
      <4> QED
        BY <2>2, <4>1, <4>3
    <3>2. ASSUME NEW i \in 1..Len(flat) PROVE g[flat[i]] = e
      <4>1. flat[i] \in InputRows /\ Key(p, flat[i]) \in K
        BY <1>1 DEF K, KeysOf
      <4> QED
        BY <2>3, <2>6, <4>1
    <3>3. Measure(op, e, h, t) = e
      BY <2>1, <2>4, <3>1, MeasureUnits
    <3>4. Measure(op, e, g, flat) = e
      BY <1>1, <2>1, <3>2, MeasureUnits
    <3> QED
      BY <3>3, <3>4 DEF Summary, op, e, g, h
  <2> QED
    BY <2>5, <2>6
<1>10. StandsFor(p, t, flat)
  BY <1>7, <1>8, <1>9 DEF StandsFor, K
<1> QED
  BY <1>10 DEF t, set, flat

-------------------------------------------------------------------------------
(* Merging. *)

\* Every worker that was dealt something has run, and none has panicked.
Finished(p) ==
    \A w \in Workers :
       bucket[w] # <<>> =>
         /\ ~execute(p, "partial", InputTypes, bucket[w]).panic
         /\ partial[w] = execute(p, "partial", InputTypes, bucket[w]).rows

\* The keys of rows as a measure: the set of a row's key.
KeySet(p, R) == [row \in R |-> {Key(p, row)}]

\* Its measure are the keys of the rows.
LEMMA KeyMeasure ==
  ASSUME NEW p \in AlignedPlans, NEW R, R \subseteq Rows(p)
  PROVE  /\ Maps(KeySet(p, R), R, SUBSET Seq(Scalars))
         /\ \A rows \in Seq(R) : Measure(Union(Seq(Scalars)), {}, KeySet(p, R), rows) = KeysOf(p, rows)
<1> DEFINE K == Seq(Scalars)
           g == KeySet(p, R)
<1>1. \A row \in R : Key(p, row) \in K
  BY RowFacts
<1> HIDE DEF K
<1>2. Maps(g, R, SUBSET K) /\ \A row \in R : g[row] = {Key(p, row)}
  BY <1>1 DEF Maps, KeySet
<1> HIDE DEF g
<1>3. ASSUME NEW rows \in Seq(R) PROVE Measure(Union(K), {}, g, rows) = KeysOf(p, rows)
  <2>1. Measure(Union(K), {}, g, rows) = UNION {g[rows[i]] : i \in 1..Len(rows)}
    BY <1>2, MeasureUnion
  <2>2. DOMAIN rows = 1..Len(rows) /\ \A i \in 1..Len(rows) : rows[i] \in R
    OBVIOUS
  <2>3. \A i \in 1..Len(rows) : g[rows[i]] = {Key(p, rows[i])}
    BY <1>2, <2>2
  <2>4. UNION {g[rows[i]] : i \in 1..Len(rows)} = {Key(p, rows[i]) : i \in 1..Len(rows)}
    <3>1. ASSUME NEW k, NEW i \in 1..Len(rows) PROVE k \in g[rows[i]] <=> k = Key(p, rows[i])
      BY <2>3
    <3>2. UNION {g[rows[i]] : i \in 1..Len(rows)} \subseteq {Key(p, rows[i]) : i \in 1..Len(rows)}
      <4> SUFFICES ASSUME NEW i \in 1..Len(rows), NEW k \in g[rows[i]]
                   PROVE  k \in {Key(p, rows[j]) : j \in 1..Len(rows)}
        OBVIOUS
      <4>1. k = Key(p, rows[i])
        BY <3>1
      <4> QED
        BY <4>1
    <3>3. ASSUME NEW i \in 1..Len(rows) PROVE Key(p, rows[i]) \in UNION {g[rows[j]] : j \in 1..Len(rows)}
      <4>1. Key(p, rows[i]) \in g[rows[i]]
        BY <3>1
      <4>2. g[rows[i]] \in {g[rows[j]] : j \in 1..Len(rows)}
        OBVIOUS
      <4> QED
        BY <4>1, <4>2
    <3> QED
      BY <3>2, <3>3
  <2> QED
    BY <2>1, <2>2, <2>4 DEF KeysOf
<1> QED
  BY <1>2, <1>3 DEF K, g

\* What the finished workers leave stands for what they were dealt.
LEMMA FinishedStands ==
  ASSUME NEW p \in AlignedPlans, input \in Seq(Seq(InputRows)), parallelism \in Nat, parallelism > 1,
         bucket = Dealt, Finished(p), NEW w \in Workers, bucket[w] # <<>>
  PROVE  /\ bucket[w] \in Seq(Seq(InputRows))
         /\ StandsFor(p, SetToSeq(partial[w]), FlattenSeq(bucket[w]))
<1>1. bucket[w] \in Seq(Seq(InputRows))
  <2> DEFINE R == InputRows
  <2>1. PICK d : DealsInTurn(d, R) /\ Dealt = d[Len(input)]
    BY DealtLoop
  <2>2. Len(input) \in 0..Len(input)
    OBVIOUS
  <2> HIDE DEF R
  <2>3. d[Len(input)] \in [Workers -> Seq(Seq(R))]
    BY <2>1, <2>2 DEF DealsInTurn
  <2> QED
    BY <2>1, <2>3 DEF R
<1>2. /\ ~execute(p, "partial", InputTypes, bucket[w]).panic
      /\ partial[w] = execute(p, "partial", InputTypes, bucket[w]).rows
  BY DEF Finished
<1> DEFINE batches == bucket[w]
<1>3. batches \in Seq(Seq(InputRows)) /\ ~execute(p, "partial", InputTypes, batches).panic
  BY <1>1, <1>2
<1>4. StandsFor(p, SetToSeq(execute(p, "partial", InputTypes, batches).rows), FlattenSeq(batches))
  <2> HIDE DEF batches
  <2> QED
    BY <1>3, PartialStands
<1> QED
  BY <1>1, <1>2, <1>4

\* A Final aggregate over the partial results answers with the rows of GROUP BY.
LEMMA MergeIsGroupBy ==
  ASSUME NEW p \in AlignedPlans, input \in Seq(Seq(InputRows)), parallelism \in Nat, parallelism > 1,
         bucket = Dealt, Finished(p)
  PROVE  execute(p, "final", p.types, PartialBatches)
           = [panic |-> FALSE, rows |-> GroupBy(p, FlattenSeq(input))]
<1> DEFINE A == InputRows
           B == PartialRows(p)
           flat == FlattenSeq(input)
           partials == FlattenSeq(PartialBatches)
<1>1. \A w \in Workers : bucket[w] # <<>> =>
        /\ bucket[w] \in Seq(Seq(A))
        /\ StandsFor(p, SetToSeq(partial[w]), FlattenSeq(bucket[w]))
  BY FinishedStands
<1>2. Collectable(B)
  BY <1>1 DEF Collectable, StandsFor
<1>3. input \in Seq(Seq(A)) /\ A \subseteq Rows(p) /\ B \subseteq Rows(p)
  BY KeyTypes
<1> HIDE DEF A, B
<1>4. PartialBatches \in Seq(Seq(B)) /\ KeysOf(p, partials) = KeysOf(p, flat)
  <2> DEFINE K == Seq(Scalars)
             S == SUBSET K
             e == {}
             op == Union(K)
             g == KeySet(p, A)
             h == KeySet(p, B)
  <2>1. Monoid(S, op, e)
    BY UnionMonoid
  <2>2. /\ Maps(g, A, S) /\ \A rows \in Seq(A) : Measure(op, e, g, rows) = KeysOf(p, rows)
        /\ Maps(h, B, S) /\ \A rows \in Seq(B) : Measure(op, e, h, rows) = KeysOf(p, rows)
    BY <1>3, KeyMeasure
  <2> HIDE DEF K, S, e, op, g, h
  <2>3. Represents(op, e, g, h)
    <3>1. ASSUME NEW w \in Workers, bucket[w] # <<>>
          PROVE  Measure(op, e, h, SetToSeq(partial[w])) = Whole(op, e, g, bucket[w])
      <4>1. /\ SetToSeq(partial[w]) \in Seq(B)
            /\ KeysOf(p, SetToSeq(partial[w])) = KeysOf(p, FlattenSeq(bucket[w]))
        BY <1>1, <3>1 DEF StandsFor, B
      <4>2. FlattenSeq(bucket[w]) \in Seq(A)
        <5> DEFINE bs == bucket[w]
        <5>1. bs \in Seq(Seq(A))
          BY <1>1, <3>1
        <5> HIDE DEF bs
        <5>2. FlattenSeq(bs) \in Seq(A)
          BY <5>1, FlattenType
        <5> QED
          BY <5>2 DEF bs
      <4> QED
        BY <2>2, <4>1, <4>2 DEF Whole
    <3> QED
      BY <3>1 DEF Represents
  <2>4. PartialBatches \in Seq(Seq(B)) /\ Whole(op, e, h, PartialBatches) = Whole(op, e, g, input)
    BY <1>2, <1>3, <2>1, <2>2, <2>3, SplitMeasure
  <2>5. partials \in Seq(B) /\ flat \in Seq(A)
    BY <1>3, <2>4, FlattenType
  <2> QED
    BY <2>2, <2>4, <2>5 DEF Whole
<1>5. flat \in Seq(InputRows)
  BY FlattenType
<1>6. ASSUME NEW a \in Aggregates(p), NEW k
      PROVE  Summary(p, a, Carried(p, a, k), partials) = Summary(p, a, Contributed(p, a, k), flat)
  <2> DEFINE S == Carrier(Fn(p, a), ArgumentType(p, a))
             op == Combine(Fn(p, a), ArgumentType(p, a))
             e == Unit(Fn(p, a))
             g == Contributed(p, a, k)
             h == Carried(p, a, k)
  <2>1. Monoid(S, op, e) /\ Maps(g, A, S) /\ Maps(h, B, S)
    BY SummaryTypes DEF AggregateMonoid, A, B
  <2>2. Represents(op, e, g, h)
    <3>1. \A w \in Workers : bucket[w] # <<>> =>
            Summary(p, a, h, SetToSeq(partial[w])) = Summary(p, a, g, FlattenSeq(bucket[w]))
      BY <1>1 DEF StandsFor
    <3> HIDE DEF g, h
    <3> QED
      BY <3>1 DEF Represents, Summary, Whole
  <2> HIDE DEF S, op, e, g, h
  <2>3. Whole(op, e, h, PartialBatches) = Whole(op, e, g, input)
    BY <1>2, <1>3, <2>1, <2>2, SplitMeasure
  <2> QED
    BY <2>3 DEF Whole, Summary, op, e, g, h
<1>7. execute(p, "final", p.types, PartialBatches)
        = [panic |-> FALSE,
           rows |-> {RowOf(p, "final", k, CarriedSummaries(p, k, partials)) : k \in KeysOf(p, partials)}]
  BY <1>4, ExecuteFinal DEF B
<1> HIDE DEF flat, partials
<1>8. ASSUME NEW k PROVE RowOf(p, "final", k, CarriedSummaries(p, k, partials)) = GroupOf(p, flat, k)
  <2>1. CarriedSummaries(p, k, partials) = Summaries(p, k, flat)
    BY <1>6 DEF CarriedSummaries, Summaries
  <2> QED
    BY <1>5, <2>1, GroupRow
<1>9. GroupBy(p, flat) = {GroupOf(p, flat, k) : k \in KeysOf(p, flat)}
  BY DEF GroupBy, KeysOf
<1>10. {RowOf(p, "final", k, CarriedSummaries(p, k, partials)) : k \in KeysOf(p, partials)}
         = {GroupOf(p, flat, k) : k \in KeysOf(p, flat)}
  BY <1>4, <1>8
<1> QED
  BY <1>7, <1>9, <1>10 DEF flat

-------------------------------------------------------------------------------
(* The invariant. *)

\* Every row of an answer has a cell for every column of the output schema.
LEMMA RowLength ==
  ASSUME NEW p \in Plans, NEW mode, NEW types, NEW batches, NEW row \in execute(p, mode, types, batches).rows
  PROVE  Len(row) = Len(p.types)
<1> DEFINE g == Len(p.group)
           n == Len(p.aggregate)
           evaluated == [b \in DOMAIN batches |-> Evaluated(p, types, batches[b])]
           rows == FlattenSeq([b \in DOMAIN batches |-> evaluated[b].rows])
           groups(r) == {OutputRow(p, mode, k, r) : k \in {Key(p, r[i]) : i \in DOMAIN r}}
           built(out) == IF \E r \in out : ~Appendable(p.types, r)
                         THEN [panic |-> TRUE, rows |-> {}] ELSE [panic |-> FALSE, rows |-> out]
<1>1. g \in Nat /\ n \in Nat /\ DOMAIN p.aggregate = 1..n /\ Len(p.types) = g + n
  <2>1. /\ p.group \in Seq(Range(p.group)) /\ p.aggregate \in Seq(Range(p.aggregate))
        /\ Len(p.types) = g + n
    BY ParallelAssumption
  <2>2. \A S : \A s \in Seq(S) : Len(s) \in Nat /\ DOMAIN s = 1..Len(s)
    OBVIOUS
  <2> QED
    BY <2>1, <2>2
<1>2. execute(p, mode, types, batches) =
        IF \E b \in DOMAIN batches : evaluated[b].panic THEN [panic |-> TRUE, rows |-> {}]
        ELSE built(groups(rows))
  BY DEF execute
<1> HIDE DEF evaluated, rows, groups
<1>3. row \in groups(rows)
  BY <1>2
<1>4. PICK i \in DOMAIN rows : row = OutputRow(p, mode, Key(p, rows[i]), rows)
  BY <1>3 DEF groups
<1> DEFINE k == Key(p, rows[i])
           cells == [a \in DOMAIN p.aggregate |->
                       Output(mode, p.aggregate[a].fn, Accumulated(p, mode, a, k, rows))]
           T == {k[j] : j \in 1..g} \cup {cells[a] : a \in 1..n}
<1>5. row = k \o cells
  BY <1>4 DEF OutputRow
<1>6. k = [j \in 1..g |-> k[j]]
  <2>1. k = SubSeq(rows[i], 1, g)
    BY DEF Key
  <2> HIDE DEF k, g
  <2> QED
    BY <1>1, <2>1
<1>7. cells = [a \in 1..n |-> cells[a]]
  BY <1>1
<1> HIDE DEF k, cells, g, n
<1>8. k \in Seq(T) /\ Len(k) = g /\ cells \in Seq(T) /\ Len(cells) = n
  <2>1. (\A j \in 1..g : k[j] \in T) /\ (\A a \in 1..n : cells[a] \in T)
    OBVIOUS
  <2> HIDE DEF T
  <2>2. k \in [1..g -> T] /\ cells \in [1..n -> T]
    BY <1>6, <1>7, <2>1
  <2> QED
    BY <1>1, <2>2
<1> HIDE DEF T
<1>9. Len(k \o cells) = Len(k) + Len(cells)
  BY <1>8, ConcatProperties
<1> QED
  BY <1>1, <1>5, <1>8, <1>9

\* A worker has run over its batches, and its outcome is theirs.
HasRun(w) ==
    LET out == execute(plan, "partial", InputTypes, bucket[w])
    IN  /\ bucket[w] # <<>>
        /\ worker[w] = IF out.panic THEN "panicked" ELSE "done"
        /\ partial[w] = out.rows

\* Until the workers are started none has run; then each has the batches dealt to it.
Progress ==
    /\ pc = "start" => \A w \in Workers : worker[w] = "idle"
    /\ pc = "workers" => /\ parallelism > 1
                         /\ bucket = Dealt
                         /\ \A w \in Workers : worker[w] # "idle" => HasRun(w)

\* The inductive invariant.
Invariant ==
    /\ plan \in Plans /\ input \in Inputs
    /\ TypeOK
    /\ Progress
    /\ AlignedIsGroupBy
    /\ PanicsOnlyForAvg

\* The inputs and the worker counts of a state.
LEMMA QueryFacts ==
  ASSUME plan \in Plans, input \in Inputs, parallelism \in Parallelisms
  PROVE  /\ input \in Seq(Seq(InputRows)) /\ parallelism \in Nat
         /\ Aligned => plan \in AlignedPlans
         /\ plan \in AlignedPlans => DOMAIN plan.aggregate = Aggregates(plan)
<1>1. input \in Seq(Seq(InputRows)) /\ parallelism \in Nat
  BY ParallelAssumption
<1> QED
  BY <1>1, PlanFacts DEF Aligned, AlignedPlans

\* Without workers.
LEMMA DirectKeeps == Invariant /\ Direct => Invariant'
<1> SUFFICES ASSUME Invariant, Direct PROVE Invariant'
  OBVIOUS
<1> DEFINE out == execute(plan, "complete", InputTypes, input)
<1>1. /\ plan \in Plans /\ input \in Inputs /\ TypeOK /\ parallelism \in Parallelisms
      /\ parallelism <= 1
      /\ pc' = IF out.panic THEN "panicked" ELSE "done"
      /\ result' = out.rows
      /\ plan' = plan /\ input' = input /\ parallelism' = parallelism
      /\ bucket' = bucket /\ worker' = worker /\ partial' = partial
  BY DEF Invariant, Direct, query, TypeOK
<1>2. input \in Seq(Seq(InputRows)) /\ (Aligned => plan \in AlignedPlans)
  BY <1>1, QueryFacts
<1>3. Aligned => out = [panic |-> FALSE, rows |-> GroupBy(plan, FlattenSeq(input))]
  BY <1>2, CompleteIsGroupBy
<1>4. \A row \in out.rows : Len(row) = Len(plan.types)
  BY <1>1, RowLength
<1> HIDE DEF out
<1>5. TypeOK'
  BY <1>1, <1>4 DEF TypeOK, Workers
<1>6. Progress'
  BY <1>1 DEF Progress
<1>7. Aligned' = Aligned
  BY <1>1 DEF Aligned
<1>8. AlignedIsGroupBy' /\ PanicsOnlyForAvg'
  <2>1. Aligned' => pc' = "done" /\ result' = GroupBy(plan, FlattenSeq(input))
    BY <1>1, <1>3, <1>7
  <2> QED
    BY <1>1, <2>1 DEF AlignedIsGroupBy, PanicsOnlyForAvg
<1> QED
  BY <1>1, <1>5, <1>6, <1>8 DEF Invariant

\* Dealing the batches.
LEMMA DistributeKeeps == Invariant /\ Distribute => Invariant'
<1> SUFFICES ASSUME Invariant, Distribute PROVE Invariant'
  OBVIOUS
<1>1. /\ plan \in Plans /\ input \in Inputs /\ TypeOK /\ parallelism \in Parallelisms
      /\ \A w \in Workers : worker[w] = "idle"
      /\ parallelism > 1 /\ bucket' = Dealt /\ pc' = "workers"
      /\ plan' = plan /\ input' = input /\ parallelism' = parallelism
      /\ worker' = worker /\ partial' = partial /\ result' = result
  BY DEF Invariant, Distribute, query, TypeOK, Progress
<1>2. Workers' = Workers /\ Dealt' = Dealt
  BY <1>1 DEF Workers, Dealt
<1>3. DOMAIN Dealt = Workers
  <2>1. input \in Seq(Seq(InputRows)) /\ parallelism \in Nat
    BY <1>1, QueryFacts
  <2> DEFINE R == InputRows
  <2>2. PICK d : DealsInTurn(d, R) /\ Dealt = d[Len(input)]
    BY <1>1, <2>1, DealtLoop
  <2>3. Len(input) \in 0..Len(input)
    BY <2>1
  <2> HIDE DEF R
  <2>4. d[Len(input)] \in [Workers -> Seq(Seq(R))]
    BY <2>2, <2>3 DEF DealsInTurn
  <2> QED
    BY <2>2, <2>4
<1>4. TypeOK'
  BY <1>1, <1>2, <1>3 DEF TypeOK
<1>5. Progress'
  BY <1>1, <1>2 DEF Progress
<1>6. AlignedIsGroupBy' /\ PanicsOnlyForAvg'
  BY <1>1 DEF AlignedIsGroupBy, PanicsOnlyForAvg
<1> QED
  BY <1>1, <1>4, <1>5, <1>6 DEF Invariant

\* A worker runs.
LEMMA RunWorkerKeeps == Invariant /\ (\E w \in Workers : RunWorker(w)) => Invariant'
<1> SUFFICES ASSUME Invariant, NEW v \in Workers, RunWorker(v) PROVE Invariant'
  OBVIOUS
<1> DEFINE out == execute(plan, "partial", InputTypes, bucket[v])
<1>1. /\ plan \in Plans /\ input \in Inputs /\ TypeOK /\ pc = "workers"
      /\ parallelism > 1 /\ bucket = Dealt /\ \A w \in Workers : worker[w] # "idle" => HasRun(w)
      /\ bucket[v] # <<>>
      /\ worker' = [worker EXCEPT ![v] = IF out.panic THEN "panicked" ELSE "done"]
      /\ partial' = [partial EXCEPT ![v] = out.rows]
      /\ plan' = plan /\ input' = input /\ parallelism' = parallelism
      /\ pc' = pc /\ bucket' = bucket /\ result' = result
  BY DEF Invariant, RunWorker, query, Progress
<1>2. Workers' = Workers /\ Dealt' = Dealt
  <2>1. input' = input /\ parallelism' = parallelism
    BY <1>1
  <2> QED
    BY <2>1 DEF Workers, Dealt
<1>3. /\ worker \in [Workers -> {"idle", "done", "panicked"}] /\ DOMAIN partial = Workers
      /\ worker' \in [Workers -> {"idle", "done", "panicked"}] /\ DOMAIN partial' = Workers
  <2> HIDE DEF out
  <2> QED
    BY <1>1 DEF TypeOK
<1>4. TypeOK'
  BY <1>1, <1>2, <1>3 DEF TypeOK
<1>5. ASSUME NEW w \in Workers, worker'[w] # "idle" PROVE HasRun(w)'
  <2>1. CASE w = v
    <3>1. worker'[w] = (IF out.panic THEN "panicked" ELSE "done") /\ partial'[w] = out.rows
      <4> HIDE DEF out
      <4> QED
        BY <1>1, <1>3, <2>1
    <3> QED
      BY <1>1, <2>1, <3>1 DEF HasRun
  <2>2. CASE w # v
    <3>1. worker'[w] = worker[w] /\ partial'[w] = partial[w]
      <4> HIDE DEF out
      <4> QED
        BY <1>1, <1>3, <2>2
    <3>2. HasRun(w)
      BY <1>1, <1>5, <3>1
    <3> QED
      BY <1>1, <3>1, <3>2 DEF HasRun
  <2> QED
    BY <2>1, <2>2
<1>6. Progress'
  BY <1>1, <1>2, <1>5 DEF Progress
<1>7. AlignedIsGroupBy' /\ PanicsOnlyForAvg'
  BY <1>1 DEF AlignedIsGroupBy, PanicsOnlyForAvg
<1> QED
  BY <1>1, <1>4, <1>6, <1>7 DEF Invariant

\* A worker's panic is rethrown.
LEMMA PropagateKeeps == Invariant /\ Propagate => Invariant'
<1> SUFFICES ASSUME Invariant, Propagate PROVE Invariant'
  OBVIOUS
<1>1. /\ plan \in Plans /\ input \in Inputs /\ TypeOK /\ parallelism \in Parallelisms
      /\ parallelism > 1 /\ bucket = Dealt /\ \A w \in Workers : worker[w] # "idle" => HasRun(w)
      /\ SomePanicked /\ pc' = "panicked"
      /\ plan' = plan /\ input' = input /\ parallelism' = parallelism
      /\ bucket' = bucket /\ worker' = worker /\ partial' = partial /\ result' = result
  BY DEF Invariant, Propagate, query, Progress, TypeOK
<1>2. TypeOK'
  BY <1>1 DEF TypeOK, Workers
<1>3. Progress'
  BY <1>1 DEF Progress
<1>4. Aligned => UsesAvg
  <2> SUFFICES ASSUME Aligned PROVE UsesAvg
    OBVIOUS
  <2>1. input \in Seq(Seq(InputRows)) /\ parallelism \in Nat /\ plan \in AlignedPlans
    BY <1>1, QueryFacts
  <2>2. PICK w \in Workers : worker[w] = "panicked"
    BY <1>1 DEF SomePanicked
  <2> DEFINE batches == bucket[w]
  <2>3. execute(plan, "partial", InputTypes, batches).panic
    BY <1>1, <2>2 DEF HasRun
  <2>4. batches \in Seq(Seq(InputRows))
    <3> DEFINE R == InputRows
    <3>1. PICK d : DealsInTurn(d, R) /\ Dealt = d[Len(input)]
      BY <1>1, <2>1, DealtLoop
    <3>2. Len(input) \in 0..Len(input)
      BY <2>1
    <3> HIDE DEF R
    <3>3. d[Len(input)] \in [Workers -> Seq(Seq(R))]
      BY <3>1, <3>2 DEF DealsInTurn
    <3> QED
      BY <1>1, <3>1, <3>3 DEF R
  <2> HIDE DEF batches
  <2>5. \E a \in Aggregates(plan) : Fn(plan, a) = "avg"
    BY <2>1, <2>3, <2>4, ExecutePartial
  <2>6. DOMAIN plan.aggregate = Aggregates(plan)
    BY <1>1, <2>1, QueryFacts
  <2> QED
    BY <2>5, <2>6 DEF UsesAvg, Fn
<1>5. Aligned' = Aligned /\ UsesAvg' = UsesAvg
  BY <1>1 DEF Aligned, UsesAvg
<1>6. AlignedIsGroupBy' /\ PanicsOnlyForAvg'
  BY <1>1, <1>4, <1>5 DEF AlignedIsGroupBy, PanicsOnlyForAvg
<1> QED
  BY <1>1, <1>2, <1>3, <1>6 DEF Invariant

\* The partial results are merged.
LEMMA MergeKeeps == Invariant /\ Merge => Invariant'
<1> SUFFICES ASSUME Invariant, Merge PROVE Invariant'
  OBVIOUS
<1> DEFINE out == execute(plan, "final", plan.types, PartialBatches)
<1>1. /\ plan \in Plans /\ input \in Inputs /\ TypeOK /\ parallelism \in Parallelisms
      /\ parallelism > 1 /\ bucket = Dealt /\ \A w \in Workers : worker[w] # "idle" => HasRun(w)
      /\ Joined /\ ~SomePanicked
      /\ pc' = IF out.panic THEN "panicked" ELSE "done"
      /\ result' = out.rows
      /\ plan' = plan /\ input' = input /\ parallelism' = parallelism
      /\ bucket' = bucket /\ worker' = worker /\ partial' = partial
  BY DEF Invariant, Merge, query, Progress, TypeOK
<1>2. Finished(plan)
  <2>1. ASSUME NEW w \in Workers, bucket[w] # <<>>
        PROVE  /\ ~execute(plan, "partial", InputTypes, bucket[w]).panic
               /\ partial[w] = execute(plan, "partial", InputTypes, bucket[w]).rows
    <3>1. worker[w] # "idle" /\ worker[w] # "panicked"
      BY <1>1, <2>1 DEF Joined, SomePanicked
    <3> QED
      BY <1>1, <3>1 DEF HasRun
  <2> QED
    BY <2>1 DEF Finished
<1>3. Aligned => out = [panic |-> FALSE, rows |-> GroupBy(plan, FlattenSeq(input))]
  <2> SUFFICES ASSUME Aligned PROVE out = [panic |-> FALSE, rows |-> GroupBy(plan, FlattenSeq(input))]
    OBVIOUS
  <2>1. input \in Seq(Seq(InputRows)) /\ parallelism \in Nat /\ plan \in AlignedPlans
    BY <1>1, QueryFacts
  <2> QED
    BY <1>1, <1>2, <2>1, MergeIsGroupBy
<1>4. \A row \in out.rows : Len(row) = Len(plan.types)
  BY <1>1, RowLength
<1> HIDE DEF out
<1>5. TypeOK'
  BY <1>1, <1>4 DEF TypeOK, Workers
<1>6. Progress'
  BY <1>1 DEF Progress
<1>7. Aligned' = Aligned
  BY <1>1 DEF Aligned
<1>8. AlignedIsGroupBy' /\ PanicsOnlyForAvg'
  <2>1. Aligned' => pc' = "done" /\ result' = GroupBy(plan, FlattenSeq(input))
    BY <1>1, <1>3, <1>7
  <2> QED
    BY <1>1, <2>1 DEF AlignedIsGroupBy, PanicsOnlyForAvg
<1> QED
  BY <1>1, <1>5, <1>6, <1>8 DEF Invariant

\* The invariant holds initially and is kept by every step.
LEMMA Inductive == Spec => []Invariant
<1>1. Init => Invariant
  <2> SUFFICES ASSUME Init PROVE Invariant
    OBVIOUS
  <2>1. TypeOK
    BY DEF Init, TypeOK
  <2> QED
    BY <2>1 DEF Init, Invariant, Progress, AlignedIsGroupBy, PanicsOnlyForAvg
<1>2. Invariant /\ [Next]_vars => Invariant'
  <2> SUFFICES ASSUME Invariant, [Next]_vars PROVE Invariant'
    OBVIOUS
  <2>1. CASE UNCHANGED vars
    <3>1. /\ plan' = plan /\ input' = input /\ parallelism' = parallelism /\ pc' = pc
          /\ bucket' = bucket /\ worker' = worker /\ partial' = partial /\ result' = result
      BY <2>1 DEF vars
    <3>2. Workers' = Workers /\ Dealt' = Dealt /\ Aligned' = Aligned /\ UsesAvg' = UsesAvg
      BY <3>1 DEF Workers, Dealt, Aligned, UsesAvg
    <3>3. TypeOK' /\ AlignedIsGroupBy' /\ PanicsOnlyForAvg'
      BY <3>1, <3>2 DEF Invariant, TypeOK, AlignedIsGroupBy, PanicsOnlyForAvg
    <3>4. Progress'
      BY <3>1, <3>2 DEF Invariant, Progress, HasRun
    <3> QED
      BY <3>1, <3>3, <3>4 DEF Invariant
  <2>2. CASE Next
    <3>1. CASE Terminated
      BY <2>1, <3>1 DEF Terminated
    <3> QED
      BY <2>2, <3>1, DirectKeeps, DistributeKeeps, RunWorkerKeeps, PropagateKeeps, MergeKeeps DEF Next
  <2> QED
    BY <2>1, <2>2
<1> QED
  BY <1>1, <1>2, PTL DEF Spec

-------------------------------------------------------------------------------
(* Results. *)

\* The types hold, and every row of an answer fills the output schema: for every
\* plan, aligned or not.
THEOREM TypeCorrect == Spec => []TypeOK
<1>1. Invariant => TypeOK
  BY DEF Invariant
<1> QED
  BY <1>1, Inductive, PTL

\* Dealing the batches to any number of workers, running them in any order and
\* merging their partial results answers an aligned plan with the rows of GROUP BY.
THEOREM SplitAnswersGroupBy == Spec => []AlignedIsGroupBy
<1>1. Invariant => AlignedIsGroupBy
  BY DEF Invariant
<1> QED
  BY <1>1, Inductive, PTL

\* An aligned plan panics only for an AVG that is split over workers.
THEOREM OnlySplitAveragesPanic == Spec => []PanicsOnlyForAvg
<1>1. Invariant => PanicsOnlyForAvg
  BY DEF Invariant
<1> QED
  BY <1>1, Inductive, PTL
===============================================================================
