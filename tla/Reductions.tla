------------------------------ MODULE Reductions ------------------------------
(***************************************************************************)
(* Reducing a sequence with a commutative and associative operation, and   *)
(* what a proof about a loop needs: induction over the natural numbers     *)
(* stated for a set, and the existence of functions defined by recursion.  *)
(***************************************************************************)
EXTENDS Integers, Sequences, FiniteSets, SequencesExt, TLAPS, WellFoundedInduction, SequenceTheorems,
        FiniteSetTheorems

\* Induction: a set that holds 0 and the successors of what it holds has every number.
LEMMA NatSetInduction ==
  ASSUME NEW S, 0 \in S, \A n \in Nat : n \in S => n + 1 \in S
  PROVE  Nat \subseteq S
<1> DEFINE R == OpToRel(<, Nat)
           T == Nat \ S
<1>1. SUFFICES ASSUME T # {} PROVE FALSE
  OBVIOUS
<1>2. IsWellFoundedOn(R, Nat)
  BY NatLessThanWellFounded
<1>3. \E x \in T : \A y \in T : ~(<<y, x>> \in R)
  <2> HIDE DEF R
  <2> QED
    BY <1>1, <1>2, WFMin
<1>4. PICK x \in T : \A y \in T : ~(<<y, x>> \in R)
  BY <1>3
<1>5. x # 0 /\ x - 1 \in Nat /\ x - 1 \in T
  <2> HIDE DEF R
  <2>1. x \in Nat /\ x # 0 /\ x \notin S
    OBVIOUS
  <2>2. x - 1 \in Nat /\ (x - 1) + 1 = x
    BY <2>1
  <2>3. x - 1 \notin S
    BY <2>1, <2>2
  <2> QED
    BY <2>1, <2>2, <2>3
<1>6. <<x - 1, x>> \in R
  BY <1>5 DEF OpToRel
<1> QED
  BY <1>4, <1>5, <1>6

\* f[n] is what a loop that starts with b has computed after n of its N rounds.
IsLoop(f, N, b, G) == f[0] = b /\ \A n \in 1..N : f[n] = G[n][f[n - 1]]

\* A loop has a result after each of its rounds.
LEMMA LoopExists ==
  ASSUME NEW N \in Nat, NEW S, NEW b \in S, NEW G \in [1..N -> [S -> S]]
  PROVE  \E f \in [0..N -> S] : IsLoop(f, N, b, G)
<1> DEFINE Runs(m, f) == f[0] = b /\ \A n \in 1..m : n <= N => f[n] = G[n][f[n - 1]]
           D == {m \in Nat : \E f \in [0..m -> S] : Runs(m, f)}
<1>1. 0 \in D
  <2> DEFINE f == [n \in 0..0 |-> b]
  <2>1. f \in [0..0 -> S] /\ Runs(0, f)
    OBVIOUS
  <2> QED
    BY <2>1
<1>2. ASSUME NEW m \in Nat, m \in D PROVE m + 1 \in D
  <2>1. PICK f \in [0..m -> S] : Runs(m, f)
    BY <1>2
  <2> DEFINE g == [n \in 0..(m + 1) |->
                     IF n <= m THEN f[n] ELSE IF m + 1 <= N THEN G[m + 1][f[m]] ELSE b]
  <2>2. ASSUME NEW n \in 0..(m + 1) PROVE g[n] \in S
    <3>1. CASE n <= m
      BY <3>1
    <3>2. CASE ~(n <= m) /\ m + 1 <= N
      <4>1. m + 1 \in 1..N /\ f[m] \in S
        BY <3>2
      <4>2. G[m + 1][f[m]] \in S
        BY <4>1
      <4> QED
        BY <3>2, <4>2
    <3>3. CASE ~(n <= m) /\ ~(m + 1 <= N)
      BY <3>3
    <3> QED
      BY <3>1, <3>2, <3>3
  <2>3. g \in [0..(m + 1) -> S]
    BY <2>2
  <2>4. g[0] = b
    BY <2>1
  <2>5. ASSUME NEW n \in 1..(m + 1), n <= N PROVE g[n] = G[n][g[n - 1]]
    <3>1. CASE n <= m
      <4>1. n \in 1..m /\ n - 1 \in 0..m /\ n - 1 <= m
        BY <3>1
      <4> QED
        BY <2>1, <2>5, <3>1, <4>1
    <3>2. CASE ~(n <= m)
      <4>1. n = m + 1 /\ n - 1 = m
        BY <3>2
      <4> QED
        BY <2>5, <4>1
    <3> QED
      BY <3>1, <3>2
  <2> HIDE DEF g
  <2>6. Runs(m + 1, g)
    BY <2>4, <2>5
  <2> QED
    BY <2>3, <2>6
<1>3. N \in D
  <2> HIDE DEF D
  <2> QED
    BY <1>1, <1>2, NatSetInduction
<1> QED
  BY <1>3 DEF IsLoop

-------------------------------------------------------------------------------
(* Commutative monoids and reductions. *)

\* The laws of a commutative monoid, its operation given as a curried function.
IsUnit(S, op, e) == \A x \in S : op[e][x] = x
Commutes(S, op) == \A x, y \in S : op[x][y] = op[y][x]
Associates(S, op) == \A x, y, z \in S : op[op[x][y]][z] = op[x][op[y][z]]

Monoid(S, op, e) ==
    /\ e \in S
    /\ op \in [S -> [S -> S]]
    /\ IsUnit(S, op, e)
    /\ Commutes(S, op)
    /\ Associates(S, op)

\* What a commutative monoid permits.
LEMMA MonoidUnit ==
  ASSUME NEW S, NEW e, NEW op, Monoid(S, op, e), NEW x \in S
  PROVE  op[x][e] = x /\ op[e][x] = x
  BY DEF Monoid, IsUnit, Commutes

\* A monoid is closed, and the order of three elements is immaterial.
LEMMA MonoidLaws ==
  ASSUME NEW S, NEW e, NEW op, Monoid(S, op, e)
  PROVE  /\ e \in S
         /\ \A x, y \in S : op[x][y] \in S
         /\ \A x, y, z \in S : op[op[x][y]][z] = op[x][op[y][z]]
         /\ \A x, y, z \in S : op[op[x][y]][z] = op[op[x][z]][y]
<1>1. op \in [S -> [S -> S]] /\ Associates(S, op) /\ Commutes(S, op) /\ e \in S
  BY DEF Monoid
<1>2. ASSUME NEW x \in S, NEW y \in S PROVE op[x][y] \in S
  <2>1. op[x] \in [S -> S]
    BY <1>1
  <2> QED
    BY <2>1
<1>3. \A x, y, z \in S : op[op[x][y]][z] = op[x][op[y][z]]
  BY <1>1 DEF Associates
<1>4. ASSUME NEW x \in S, NEW y \in S, NEW z \in S PROVE op[op[x][y]][z] = op[op[x][z]][y]
  <2>1. op[y][z] = op[z][y]
    BY <1>1 DEF Commutes
  <2> QED
    BY <1>3, <2>1
<1> QED
  BY <1>1, <1>2, <1>3, <1>4

\* op over the first n elements of s, for every n.
Reductions(op, e, s) ==
    LET upTo[n \in 0..Len(s)] == IF n = 0 THEN e ELSE op[upTo[n - 1]][s[n]]
    IN  upTo

\* The last of the reductions: s[1], s[2], ... combined in turn, from e.
Reduce(op, e, s) == Reductions(op, e, s)[Len(s)]

\* f is a loop that reduces the first N elements of s.
Reduces(f, op, e, s, N) == f[0] = e /\ \A n \in 1..N : f[n] = op[f[n - 1]][s[n]]

\* The reductions of a sequence obey their recursion.
LEMMA ReductionsLoop ==
  ASSUME NEW S, NEW e \in S, NEW op \in [S -> [S -> S]], NEW s \in Seq(S)
  PROVE  /\ Reductions(op, e, s) \in [0..Len(s) -> S]
         /\ Reduces(Reductions(op, e, s), op, e, s, Len(s))
<1> DEFINE G == [n \in 1..Len(s) |-> [x \in S |-> op[x][s[n]]]]
           E(f) == [n \in 0..Len(s) |-> IF n = 0 THEN e ELSE op[f[n - 1]][s[n]]]
<1>1. Len(s) \in Nat /\ \A n \in 1..Len(s) : s[n] \in S
  OBVIOUS
<1>2. G \in [1..Len(s) -> [S -> S]]
  BY <1>1
<1>3. PICK f \in [0..Len(s) -> S] : f[0] = e /\ \A n \in 1..Len(s) : f[n] = G[n][f[n - 1]]
  <2>1. \E f \in [0..Len(s) -> S] : IsLoop(f, Len(s), e, G)
    <3> HIDE DEF G
    <3> QED
      BY <1>1, <1>2, LoopExists
  <2> QED
    BY <2>1 DEF IsLoop
<1>4. f = E(f)
  <2>1. ASSUME NEW n \in 0..Len(s) PROVE f[n] = E(f)[n]
    <3>1. CASE n = 0
      BY <1>3, <3>1
    <3>2. CASE n # 0
      <4>1. n \in 1..Len(s) /\ n - 1 \in 0..Len(s)
        BY <1>1, <3>2
      <4> QED
        BY <1>3, <3>2, <4>1
    <3> QED
      BY <3>1, <3>2
  <2> QED
    BY <1>3, <2>1
<1> DEFINE r == Reductions(op, e, s)
<1>5. r = CHOOSE h : h = E(h)
  BY DEF Reductions
<1>6. r = E(r)
  <2> HIDE DEF E, r
  <2> QED
    BY <1>4, <1>5
<1>7. r[0] = e /\ \A n \in 1..Len(s) : r[n] = op[r[n - 1]][s[n]]
  BY <1>1, <1>6
<1>8. \A n \in 0..Len(s) : r[n] \in S
  <2> HIDE DEF r
  <2> DEFINE D == {n \in Nat : n <= Len(s) => r[n] \in S}
  <2>1. 0 \in D
    BY <1>7
  <2>2. ASSUME NEW n \in Nat, n \in D PROVE n + 1 \in D
    <3> SUFFICES ASSUME n + 1 <= Len(s) PROVE r[n + 1] \in S
      OBVIOUS
    <3>1. r[n] \in S /\ n + 1 \in 1..Len(s) /\ (n + 1) - 1 = n
      BY <1>1, <2>2
    <3>2. r[n + 1] = op[r[n]][s[n + 1]]
      BY <1>7, <3>1
    <3> QED
      BY <1>1, <3>1, <3>2
  <2>3. Nat \subseteq D
    <3> HIDE DEF D
    <3> QED
      BY <2>1, <2>2, NatSetInduction
  <2> QED
    BY <1>1, <2>3
<1> QED
  BY <1>6, <1>7, <1>8 DEF Reduces

\* f is a loop that reduces the whole of s, with an operation on S.
IsReduction(f, S, op, e, s, N) ==
    /\ e \in S /\ op \in [S -> [S -> S]]
    /\ s \in Seq(S) /\ N = Len(s)
    /\ Reduces(f, op, e, s, N)

\* A loop that computes the same is the same.
LEMMA ReduceUnique ==
  ASSUME NEW f, NEW S, NEW op, NEW e, NEW s, NEW N, IsReduction(f, S, op, e, s, N)
  PROVE  f[N] = Reduce(op, e, s)
<1>0. /\ e \in S /\ op \in [S -> [S -> S]] /\ s \in Seq(S) /\ N = Len(s)
      /\ Reduces(f, op, e, s, N)
  BY DEF IsReduction
<1> USE <1>0
<1> DEFINE r == Reductions(op, e, s)
           D == {n \in Nat : n <= N => f[n] = r[n]}
<1>1. r[0] = e /\ \A n \in 1..Len(s) : r[n] = op[r[n - 1]][s[n]]
  <2>1. Reduces(r, op, e, s, Len(s))
    BY ReductionsLoop
  <2> HIDE DEF r
  <2> QED
    BY <2>1 DEF Reduces
<1>2. 0 \in D
  BY <1>1 DEF Reduces
<1> HIDE DEF r
<1>3. ASSUME NEW n \in Nat, n \in D PROVE n + 1 \in D
  <2> SUFFICES ASSUME n + 1 <= N PROVE f[n + 1] = r[n + 1]
    OBVIOUS
  <2>1. n + 1 \in 1..N /\ n + 1 \in 1..Len(s) /\ (n + 1) - 1 = n /\ f[n] = r[n]
    BY <1>3
  <2> QED
    BY <1>1, <2>1 DEF Reduces
<1>4. Nat \subseteq D
  <2> HIDE DEF D
  <2> QED
    BY <1>2, <1>3, NatSetInduction
<1> QED
  BY <1>4 DEF r, Reduce

\* Reducing nothing, one element more, and the type of the result.
LEMMA ReduceEmpty ==
  ASSUME NEW S, NEW e \in S, NEW op \in [S -> [S -> S]]
  PROVE  Reduce(op, e, <<>>) = e
<1>1. <<>> \in Seq(S) /\ Len(<<>>) = 0
  OBVIOUS
<1>2. Reduces(Reductions(op, e, <<>>), op, e, <<>>, Len(<<>>))
  BY <1>1, ReductionsLoop
<1> QED
  BY <1>1, <1>2 DEF Reduces, Reduce

\* The reduction of elements of S is in S.
LEMMA ReduceType ==
  ASSUME NEW S, NEW e \in S, NEW op \in [S -> [S -> S]], NEW s \in Seq(S)
  PROVE  Reduce(op, e, s) \in S
  BY ReductionsLoop, Len(s) \in 0..Len(s) DEF Reduce

\* One element more combines with the reduction of the others.
LEMMA ReduceAppend ==
  ASSUME NEW S, NEW e \in S, NEW op \in [S -> [S -> S]], NEW s \in Seq(S), NEW x \in S
  PROVE  Reduce(op, e, Append(s, x)) = op[Reduce(op, e, s)][x]
<1> DEFINE t == Append(s, x)
           f == Reductions(op, e, t)
<1>1. t \in Seq(S) /\ Len(t) = Len(s) + 1 /\ t[Len(s) + 1] = x /\ \A n \in 1..Len(s) : t[n] = s[n]
  BY AppendProperties
<1>2. Reduces(f, op, e, t, Len(t))
  BY <1>1, ReductionsLoop
<1> HIDE DEF f, t
<1>3. Reduces(f, op, e, s, Len(s))
  BY <1>1, <1>2 DEF Reduces
<1>4. f[Len(s)] = Reduce(op, e, s)
  <2> DEFINE N == Len(s)
  <2>1. N = Len(s) /\ Reduces(f, op, e, s, N)
    BY <1>3
  <2>2. f[N] = Reduce(op, e, s)
    <3> HIDE DEF N
    <3>1. IsReduction(f, S, op, e, s, N)
      BY <2>1 DEF IsReduction
    <3> QED
      BY <3>1, ReduceUnique
  <2> QED
    BY <2>2
<1>5. Len(s) + 1 \in 1..Len(t) /\ (Len(s) + 1) - 1 = Len(s)
  BY <1>1
<1>6. f[Len(t)] = op[f[Len(s)]][x]
  BY <1>1, <1>2, <1>5 DEF Reduces
<1> QED
  BY <1>4, <1>6 DEF Reduce, f, t

\* Reducing two sequences after each other.
LEMMA ReduceConcat ==
  ASSUME NEW S, NEW e, NEW op, Monoid(S, op, e), NEW s \in Seq(S), NEW t \in Seq(S)
  PROVE  Reduce(op, e, s \o t) = op[Reduce(op, e, s)][Reduce(op, e, t)]
<1>0. e \in S /\ op \in [S -> [S -> S]]
  BY DEF Monoid
<1> DEFINE u == s \o t
           f == Reductions(op, e, u)
           g == Reductions(op, e, t)
           a == Reduce(op, e, s)
           D == {n \in Nat : n <= Len(t) => f[Len(s) + n] = op[a][g[n]]}
<1>1. /\ u \in Seq(S) /\ Len(u) = Len(s) + Len(t) /\ Len(s) \in Nat /\ Len(t) \in Nat
      /\ \A n \in 1..Len(s) : u[n] = s[n]
      /\ \A n \in 1..Len(t) : u[Len(s) + n] = t[n]
  <2>1. u \in Seq(S) /\ Len(u) = Len(s) + Len(t)
    BY ConcatProperties
  <2>2. \A i \in 1..Len(s) + Len(t) : u[i] = IF i <= Len(s) THEN s[i] ELSE t[i - Len(s)]
    BY ConcatProperties
  <2>3. ASSUME NEW n \in 1..Len(t) PROVE u[Len(s) + n] = t[n]
    <3>1. Len(s) + n \in 1..Len(s) + Len(t) /\ ~(Len(s) + n <= Len(s)) /\ (Len(s) + n) - Len(s) = n
      OBVIOUS
    <3> QED
      BY <2>2, <3>1
  <2> QED
    BY <2>1, <2>2, <2>3
<1> HIDE DEF u
<1>2. Reduces(f, op, e, u, Len(u))
  BY <1>0, <1>1, ReductionsLoop
<1>3. g \in [0..Len(t) -> S] /\ Reduces(g, op, e, t, Len(t))
  BY <1>0, ReductionsLoop
<1>4. a \in S
  BY <1>0, ReduceType
<1> HIDE DEF f, g
<1>5. f[Len(s)] = a
  <2>1. Reduces(f, op, e, s, Len(s))
    BY <1>1, <1>2 DEF Reduces
  <2> DEFINE N == Len(s)
  <2>2. N = Len(s) /\ Reduces(f, op, e, s, N)
    BY <2>1
  <2>3. f[N] = Reduce(op, e, s)
    <3> HIDE DEF N
    <3>1. IsReduction(f, S, op, e, s, N)
      BY <1>0, <2>2 DEF IsReduction
    <3> QED
      BY <3>1, ReduceUnique
  <2> QED
    BY <2>3
<1> HIDE DEF a
<1>6. 0 \in D
  <2>1. op[a][e] = a
    BY <1>4, MonoidUnit
  <2> QED
    BY <1>1, <1>3, <1>5, <2>1 DEF Reduces
<1>7. ASSUME NEW n \in Nat, n \in D PROVE n + 1 \in D
  <2> SUFFICES ASSUME n + 1 <= Len(t) PROVE f[Len(s) + (n + 1)] = op[a][g[n + 1]]
    OBVIOUS
  <2>1. /\ n + 1 \in 1..Len(t) /\ (n + 1) - 1 = n /\ n \in 0..Len(t)
        /\ Len(s) + (n + 1) \in 1..Len(u) /\ (Len(s) + (n + 1)) - 1 = Len(s) + n
    BY <1>1
  <2>2. f[Len(s) + n] = op[a][g[n]]
    BY <1>7, <2>1
  <2>3. f[Len(s) + (n + 1)] = op[f[Len(s) + n]][t[n + 1]]
    BY <1>1, <1>2, <2>1 DEF Reduces
  <2> DEFINE y == g[n]
             z == t[n + 1]
  <2>4. y \in S /\ z \in S
    BY <1>3, <2>1
  <2>5. g[n + 1] = op[y][z]
    BY <1>3, <2>1 DEF Reduces
  <2>6. f[Len(s) + (n + 1)] = op[op[a][y]][z]
    BY <2>2, <2>3
  <2> HIDE DEF y, z
  <2>7. op[op[a][y]][z] = op[a][op[y][z]]
    BY <1>4, <2>4, MonoidLaws
  <2> QED
    BY <2>5, <2>6, <2>7
<1>8. Nat \subseteq D
  <2> HIDE DEF D
  <2> QED
    BY <1>6, <1>7, NatSetInduction
<1>9. f[Len(s) + Len(t)] = op[a][g[Len(t)]]
  BY <1>1, <1>8
<1> QED
  BY <1>1, <1>9 DEF Reduce, f, g, a, u

\* t is s with its element number i combined with x.
Updates(op, s, t, i, x) ==
    /\ Len(t) = Len(s) /\ i \in 1..Len(s)
    /\ t[i] = op[s[i]][x]
    /\ \A j \in 1..Len(s) : j # i => t[j] = s[j]

\* Combining one element with x combines the result with x.
LEMMA ReduceUpdate ==
  ASSUME NEW S, NEW e, NEW op, Monoid(S, op, e), NEW s \in Seq(S), NEW t \in Seq(S),
         NEW i, NEW x \in S, Updates(op, s, t, i, x)
  PROVE  Reduce(op, e, t) = op[Reduce(op, e, s)][x]
<1>update. /\ Len(t) = Len(s) /\ i \in 1..Len(s)
      /\ t[i] = op[s[i]][x]
      /\ \A j \in 1..Len(s) : j # i => t[j] = s[j]
  BY DEF Updates
<1>laws. ASSUME NEW y \in S, NEW z \in S
         PROVE  /\ op[op[y][z]][x] = op[y][op[z][x]]
                /\ op[op[y][x]][z] = op[op[y][z]][x]
  BY MonoidLaws
<1> USE <1>update
<1>0. e \in S /\ op \in [S -> [S -> S]]
  BY DEF Monoid
<1> DEFINE f == Reductions(op, e, s)
           h == Reductions(op, e, t)
           N == Len(s)
<1>1. N \in Nat /\ i \in 1..N /\ \A n \in 1..N : s[n] \in S
  OBVIOUS
<1>2. f \in [0..N -> S] /\ Reduces(f, op, e, s, N)
  BY <1>0, ReductionsLoop
<1>3. h \in [0..N -> S] /\ Reduces(h, op, e, t, N)
  <2>1. h \in [0..Len(t) -> S] /\ Reduces(h, op, e, t, Len(t))
    BY <1>0, ReductionsLoop
  <2> QED
    BY <2>1
<1> HIDE DEF f, h, N
<1> DEFINE D == {n \in Nat : n <= N => h[n] = IF n < i THEN f[n] ELSE op[f[n]][x]}
<1>4. 0 \in D
  BY <1>1, <1>2, <1>3 DEF Reduces
<1>5. ASSUME NEW n \in Nat, n \in D PROVE n + 1 \in D
  <2> SUFFICES ASSUME n + 1 <= N PROVE h[n + 1] = IF n + 1 < i THEN f[n + 1] ELSE op[f[n + 1]][x]
    OBVIOUS
  <2>1. n + 1 \in 1..N /\ (n + 1) - 1 = n /\ n \in 0..N
    BY <1>1
  <2>2. f[n] \in S /\ s[n + 1] \in S
    BY <1>1, <1>2, <2>1
  <2>3. f[n + 1] = op[f[n]][s[n + 1]] /\ h[n + 1] = op[h[n]][t[n + 1]]
    BY <1>2, <1>3, <2>1 DEF Reduces
  <2>4. h[n] = IF n < i THEN f[n] ELSE op[f[n]][x]
    BY <1>5, <2>1
  <2>5. CASE n + 1 < i
    BY <1>1, <2>1, <2>3, <2>4, <2>5 DEF N
  <2>6. CASE n + 1 = i
    <3>1. h[n + 1] = op[f[n]][op[s[n + 1]][x]]
      BY <1>1, <2>3, <2>4, <2>6
    <3>2. op[op[f[n]][s[n + 1]]][x] = op[f[n]][op[s[n + 1]][x]]
      BY <1>1, <2>2, <1>laws
    <3> QED
      BY <1>1, <2>3, <2>6, <3>1, <3>2
  <2>7. CASE n + 1 > i
    <3>1. h[n + 1] = op[op[f[n]][x]][s[n + 1]]
      <4>1. t[n + 1] = s[n + 1]
        BY <1>1, <2>1, <2>7 DEF N
      <4>2. h[n] = op[f[n]][x]
        BY <1>1, <2>4, <2>7
      <4> QED
        BY <2>3, <4>1, <4>2
    <3>2. op[op[f[n]][x]][s[n + 1]] = op[op[f[n]][s[n + 1]]][x]
      BY <1>1, <2>2, <1>laws
    <3> QED
      BY <1>1, <2>3, <2>7, <3>1, <3>2
  <2> QED
    BY <1>1, <2>5, <2>6, <2>7
<1>6. Nat \subseteq D
  <2> HIDE DEF D
  <2> QED
    BY <1>4, <1>5, NatSetInduction
<1>7. h[N] = op[f[N]][x]
  BY <1>1, <1>6
<1> QED
  BY <1>7 DEF f, h, N, Reduce

\* Units reduce to the unit, and a sequence of units but for one element to that element.
LEMMA ReduceUnits ==
  ASSUME NEW S, NEW e, NEW op, Monoid(S, op, e), NEW s \in Seq(S), \A i \in 1..Len(s) : s[i] = e
  PROVE  Reduce(op, e, s) = e
<1> DEFINE N == Len(s)
           f == [n \in 0..N |-> e]
<1>1. e \in S /\ op \in [S -> [S -> S]] /\ op[e][e] = e /\ N \in Nat
  BY DEF Monoid, IsUnit
<1>2. Reduces(f, op, e, s, N)
  BY <1>1 DEF Reduces
<1>3. f[N] = Reduce(op, e, s)
  <2> HIDE DEF f
  <2>1. N = Len(s)
    OBVIOUS
  <2> HIDE DEF N
  <2>2. IsReduction(f, S, op, e, s, N)
    BY <1>1, <1>2, <2>1 DEF IsReduction
  <2> QED
    BY <2>2, ReduceUnique
<1> QED
  BY <1>1, <1>3

\* Among units, the only other element is the reduction.
LEMMA ReduceSingle ==
  ASSUME NEW S, NEW e, NEW op, Monoid(S, op, e), NEW s \in Seq(S), NEW i \in 1..Len(s),
         \A j \in 1..Len(s) : j # i => s[j] = e
  PROVE  Reduce(op, e, s) = s[i]
<1> DEFINE u == [j \in 1..Len(s) |-> e]
<1>1. e \in S /\ s[i] \in S
  BY DEF Monoid
<1>2. u \in Seq(S) /\ Len(u) = Len(s) /\ \A j \in 1..Len(u) : u[j] = e
  <2>1. u \in [1..Len(s) -> S] /\ Len(s) \in Nat
    BY <1>1
  <2> QED
    BY <2>1
<1> HIDE DEF u
<1>3. Reduce(op, e, u) = e
  BY <1>2, ReduceUnits
<1>4. op[e][s[i]] = s[i]
  BY <1>1, MonoidUnit
<1>5. Reduce(op, e, s) = op[Reduce(op, e, u)][s[i]]
  <2>1. i \in 1..Len(u) /\ s[i] = op[u[i]][s[i]] /\ \A j \in 1..Len(u) : j # i => s[j] = u[j]
    BY <1>2, <1>4
  <2>2. Updates(op, u, s, i, s[i])
    BY <1>2, <2>1 DEF Updates
  <2> QED
    BY <1>1, <1>2, <2>2, ReduceUpdate
<1> QED
  BY <1>3, <1>4, <1>5

-------------------------------------------------------------------------------
(* Concatenating a sequence of sequences. *)

\* Concatenation as such an operation.
Concat(R) == [x \in Seq(R) |-> [y \in Seq(R) |-> x \o y]]

\* Concatenation is an operation on sequences.
LEMMA ConcatType ==
  ASSUME NEW R
  PROVE  <<>> \in Seq(R) /\ Concat(R) \in [Seq(R) -> [Seq(R) -> Seq(R)]]
<1>1. \A x, y \in Seq(R) : x \o y \in Seq(R)
  BY ConcatProperties
<1> QED
  BY <1>1 DEF Concat

\* FlattenSeq is a reduction.
LEMMA FlattenReduces ==
  ASSUME NEW R, NEW bs \in Seq(Seq(R))
  PROVE  FlattenSeq(bs) = Reduce(Concat(R), <<>>, bs)
<1> DEFINE C == Concat(R)
           N == Len(bs)
           r == Reductions(C, <<>>, bs)
           E(f) == [i \in 1..N |-> IF i = 1 THEN bs[i] ELSE f[i - 1] \o bs[i]]
<1>1. C \in [Seq(R) -> [Seq(R) -> Seq(R)]] /\ <<>> \in Seq(R)
  BY ConcatType
<1>2. N \in Nat /\ \A n \in 1..N : bs[n] \in Seq(R)
  OBVIOUS
<1>3. r \in [0..N -> Seq(R)] /\ Reduces(r, C, <<>>, bs, N)
  <2> HIDE DEF C
  <2> QED
    BY <1>1, ReductionsLoop
<1>4. CASE N = 0
  <2>1. FlattenSeq(bs) = bs /\ bs = <<>>
    BY <1>4 DEF FlattenSeq
  <2>2. Reduce(C, <<>>, <<>>) = <<>>
    <3> HIDE DEF C
    <3> QED
      BY <1>1, ReduceEmpty
  <2> QED
    BY <2>1, <2>2
<1>5. CASE N # 0
  <2> HIDE DEF r
  <2>1. r[0] = <<>> /\ \A n \in 1..N : r[n] = r[n - 1] \o bs[n]
    <3>1. ASSUME NEW n \in 1..N PROVE r[n] = r[n - 1] \o bs[n]
      <4>0. n - 1 \in 0..N
        BY <1>2
      <4>1. r[n - 1] \in Seq(R) /\ bs[n] \in Seq(R)
        BY <1>2, <1>3, <4>0
      <4>2. r[n] = C[r[n - 1]][bs[n]]
        <5> HIDE DEF C
        <5> QED
          BY <1>3 DEF Reduces
      <4> QED
        BY <4>1, <4>2 DEF Concat
    <3> QED
      BY <1>3, <3>1 DEF Reduces
  <2> DEFINE h == [n \in 1..N |-> r[n]]
  <2>2. h = E(h)
    <3>1. ASSUME NEW n \in 1..N PROVE h[n] = E(h)[n]
      <4>1. CASE n = 1
        <5>0. 1 \in 1..N /\ 1 - 1 = 0
          BY <4>1
        <5>1. r[1] = <<>> \o bs[1]
          BY <2>1, <5>0
        <5>2. <<>> \o bs[1] = bs[1]
          BY <1>2, <4>1, ConcatEmptySeq
        <5> QED
          BY <4>1, <5>1, <5>2
      <4>2. CASE n # 1
        <5>1. n - 1 \in 1..N /\ h[n - 1] = r[n - 1]
          BY <1>2, <4>2
        <5>2. h[n] = r[n - 1] \o bs[n]
          BY <2>1
        <5> QED
          BY <4>2, <5>1, <5>2
      <4> QED
        BY <4>1, <4>2
    <3> QED
      BY <3>1
  <2> DEFINE f == CHOOSE f : f = E(f)
  <2>3. FlattenSeq(bs) = f[N]
    BY <1>5 DEF FlattenSeq
  <2>4. f = E(f)
    <3> HIDE DEF E, h
    <3> QED
      BY <2>2
  <2> DEFINE D == {n \in Nat : n >= 1 /\ n <= N => f[n] = r[n]}
  <2> HIDE DEF f
  <2>5. 0 \in D
    OBVIOUS
  <2>6. ASSUME NEW n \in Nat, n \in D PROVE n + 1 \in D
    <3> SUFFICES ASSUME n + 1 <= N PROVE f[n + 1] = r[n + 1]
      OBVIOUS
    <3>1. n + 1 \in 1..N /\ (n + 1) - 1 = n
      BY <1>2
    <3>2. CASE n = 0
      <4>0. 1 \in 1..N
        BY <3>1, <3>2
      <4>1. f[1] = bs[1]
        BY <2>4, <4>0
      <4>2. r[1] = h[1] /\ h[1] = bs[1]
        BY <2>2, <4>0
      <4> QED
        BY <3>2, <4>1, <4>2
    <3>3. CASE n # 0
      <4>1. f[n] = r[n]
        BY <2>6, <3>1, <3>3
      <4>2. f[n + 1] = f[n] \o bs[n + 1]
        <5>1. f[n + 1] = IF n + 1 = 1 THEN bs[n + 1] ELSE f[(n + 1) - 1] \o bs[n + 1]
          BY <2>4, <3>1
        <5>2. n + 1 # 1
          BY <3>3
        <5> QED
          BY <3>1, <5>1, <5>2
      <4>3. r[n + 1] = r[n] \o bs[n + 1]
        BY <2>1, <3>1
      <4> QED
        BY <4>1, <4>2, <4>3
    <3> QED
      BY <3>2, <3>3
  <2>7. Nat \subseteq D
    <3> HIDE DEF D
    <3> QED
      BY <2>5, <2>6, NatSetInduction
  <2>8. f[N] = r[N]
    BY <1>2, <1>5, <2>7
  <2> QED
    BY <2>3, <2>8 DEF Reduce, r
<1> QED
  BY <1>4, <1>5

\* Flattening no batch gives no row.
LEMMA FlattenEmpty == FlattenSeq(<<>>) = <<>>
  BY DEF FlattenSeq

\* The rows of the batches are rows.
LEMMA FlattenType ==
  ASSUME NEW R, NEW bs \in Seq(Seq(R))
  PROVE  FlattenSeq(bs) \in Seq(R)
<1>1. FlattenSeq(bs) = Reduce(Concat(R), <<>>, bs)
  BY FlattenReduces
<1>2. Reduce(Concat(R), <<>>, bs) \in Seq(R)
  BY ConcatType, ReduceType
<1> QED
  BY <1>1, <1>2

\* One batch more appends its rows.
LEMMA FlattenAppend ==
  ASSUME NEW R, NEW bs \in Seq(Seq(R)), NEW b \in Seq(R)
  PROVE  FlattenSeq(Append(bs, b)) = FlattenSeq(bs) \o b
<1>1. Append(bs, b) \in Seq(Seq(R))
  OBVIOUS
<1>2. FlattenSeq(bs) = Reduce(Concat(R), <<>>, bs)
  BY FlattenReduces
<1>3. FlattenSeq(Append(bs, b)) = Reduce(Concat(R), <<>>, Append(bs, b))
  BY <1>1, FlattenReduces
<1>4. Reduce(Concat(R), <<>>, Append(bs, b)) = Concat(R)[Reduce(Concat(R), <<>>, bs)][b]
  <2> DEFINE C == Concat(R)
             S == Seq(R)
             e == <<>>
  <2>1. e \in S /\ C \in [S -> [S -> S]] /\ bs \in Seq(S) /\ b \in S
    BY ConcatType
  <2>2. Reduce(C, e, Append(bs, b)) = C[Reduce(C, e, bs)][b]
    <3> HIDE DEF C, S, e
    <3> QED
      BY <2>1, ReduceAppend
  <2> QED
    BY <2>2
<1>5. FlattenSeq(bs) \in Seq(R)
  BY FlattenType
<1> QED
  BY <1>2, <1>3, <1>4, <1>5 DEF Concat

-------------------------------------------------------------------------------
(* What a function of its rows makes of a sequence of rows. *)

\* g has a value in S for every row.
Maps(g, R, S) == g \in [R -> S]

\* What g makes of each row.
Image(g, rows) == [i \in 1..Len(rows) |-> g[rows[i]]]

\* The combination of what g makes of each row.
Measure(op, e, g, rows) == Reduce(op, e, Image(g, rows))

\* The image of rows has what g makes of each, in their order.
LEMMA ImageType ==
  ASSUME NEW R, NEW S, NEW g, Maps(g, R, S), NEW rows \in Seq(R)
  PROVE  /\ Image(g, rows) \in Seq(S)
         /\ Len(Image(g, rows)) = Len(rows)
         /\ \A i \in 1..Len(rows) : Image(g, rows)[i] = g[rows[i]]
<1>1. Image(g, rows) \in [1..Len(rows) -> S] /\ Len(rows) \in Nat
  BY DEF Image, Maps
<1> QED
  BY <1>1 DEF Image

\* The image of two sequences is that of each.
LEMMA ImageConcat ==
  ASSUME NEW R, NEW S, NEW g, Maps(g, R, S), NEW s \in Seq(R), NEW t \in Seq(R)
  PROVE  Image(g, s \o t) = Image(g, s) \o Image(g, t)
<1> DEFINE u == s \o t
           a == Image(g, u)
           b == Image(g, s) \o Image(g, t)
<1>1. /\ u \in Seq(R) /\ Len(u) = Len(s) + Len(t) /\ Len(s) \in Nat /\ Len(t) \in Nat
      /\ \A i \in 1..Len(s) + Len(t) : u[i] = IF i <= Len(s) THEN s[i] ELSE t[i - Len(s)]
  BY ConcatProperties
<1>2. /\ Image(g, s) \in Seq(S) /\ Len(Image(g, s)) = Len(s)
      /\ \A i \in 1..Len(s) : Image(g, s)[i] = g[s[i]]
  BY ImageType
<1>3. /\ Image(g, t) \in Seq(S) /\ Len(Image(g, t)) = Len(t)
      /\ \A i \in 1..Len(t) : Image(g, t)[i] = g[t[i]]
  BY ImageType
<1> HIDE DEF u
<1>4. a \in Seq(S) /\ Len(a) = Len(u) /\ \A i \in 1..Len(u) : a[i] = g[u[i]]
  BY <1>1, ImageType
<1>5. /\ b \in Seq(S) /\ Len(b) = Len(s) + Len(t)
      /\ \A i \in 1..Len(s) + Len(t) :
           b[i] = IF i <= Len(s) THEN Image(g, s)[i] ELSE Image(g, t)[i - Len(s)]
  <2> DEFINE v == Image(g, s)
             w == Image(g, t)
  <2>1. v \in Seq(S) /\ w \in Seq(S) /\ Len(v) = Len(s) /\ Len(w) = Len(t)
    BY <1>2, <1>3
  <2> HIDE DEF v, w
  <2>2. /\ v \o w \in Seq(S) /\ Len(v \o w) = Len(v) + Len(w)
        /\ \A i \in 1..Len(v) + Len(w) : (v \o w)[i] = IF i <= Len(v) THEN v[i] ELSE w[i - Len(v)]
    BY <2>1, ConcatProperties
  <2> QED
    BY <2>1, <2>2 DEF v, w
<1> HIDE DEF a, b
<1>6. ASSUME NEW i \in 1..Len(a) PROVE a[i] = b[i]
  <2>1. i \in 1..Len(s) + Len(t) /\ i \in 1..Len(u)
    BY <1>1, <1>4
  <2>2. CASE i <= Len(s)
    <3>1. i \in 1..Len(s)
      BY <2>1, <2>2
    <3> QED
      <4>1. a[i] = g[s[i]]
        BY <1>1, <1>4, <2>1, <2>2
      <4>2. b[i] = g[s[i]]
        BY <1>2, <1>5, <2>1, <2>2, <3>1
      <4> QED
        BY <4>1, <4>2
  <2>3. CASE ~(i <= Len(s))
    <3>1. i - Len(s) \in 1..Len(t)
      BY <1>1, <2>1, <2>3
    <3>2. a[i] = g[t[i - Len(s)]]
      BY <1>1, <1>4, <2>1, <2>3
    <3>3. b[i] = g[t[i - Len(s)]]
      BY <1>3, <1>5, <2>1, <2>3, <3>1
    <3> QED
      BY <3>2, <3>3
  <2> QED
    BY <2>2, <2>3
<1>7. a = b
  BY <1>1, <1>4, <1>5, <1>6, SeqEqual
<1> QED
  BY <1>7 DEF a, b, u

\* A measure is an element of the monoid.
LEMMA MeasureType ==
  ASSUME NEW S, NEW e, NEW op, Monoid(S, op, e), NEW R, NEW g, Maps(g, R, S), NEW rows \in Seq(R)
  PROVE  Measure(op, e, g, rows) \in S
<1>1. e \in S /\ op \in [S -> [S -> S]]
  BY DEF Monoid
<1>2. Image(g, rows) \in Seq(S)
  BY ImageType
<1> QED
  BY <1>1, <1>2, ReduceType DEF Measure

\* No row measures the unit.
LEMMA MeasureEmpty ==
  ASSUME NEW S, NEW e, NEW op, Monoid(S, op, e), NEW g
  PROVE  Measure(op, e, g, <<>>) = e
<1>1. e \in S /\ op \in [S -> [S -> S]]
  BY DEF Monoid
<1>2. Image(g, <<>>) = <<>>
  BY DEF Image
<1> QED
  BY <1>1, <1>2, ReduceEmpty DEF Measure

\* The measure of two sequences combines the measure of each.
LEMMA MeasureConcat ==
  ASSUME NEW S, NEW e, NEW op, Monoid(S, op, e), NEW R, NEW g, Maps(g, R, S),
         NEW s \in Seq(R), NEW t \in Seq(R)
  PROVE  Measure(op, e, g, s \o t) = op[Measure(op, e, g, s)][Measure(op, e, g, t)]
<1>1. Image(g, s \o t) = Image(g, s) \o Image(g, t)
  BY ImageConcat
<1>2. Image(g, s) \in Seq(S) /\ Image(g, t) \in Seq(S)
  BY ImageType
<1>3. Reduce(op, e, Image(g, s) \o Image(g, t))
        = op[Reduce(op, e, Image(g, s))][Reduce(op, e, Image(g, t))]
  BY <1>2, ReduceConcat
<1> QED
  BY <1>1, <1>3 DEF Measure

\* Rows that contribute nothing, and rows of which one contributes something.
LEMMA MeasureUnits ==
  ASSUME NEW S, NEW e, NEW op, Monoid(S, op, e), NEW R, NEW g, Maps(g, R, S), NEW rows \in Seq(R),
         \A i \in 1..Len(rows) : g[rows[i]] = e
  PROVE  Measure(op, e, g, rows) = e
<1> DEFINE s == Image(g, rows)
<1>1. s \in Seq(S) /\ Len(s) = Len(rows) /\ \A i \in 1..Len(rows) : s[i] = g[rows[i]]
  BY ImageType
<1> HIDE DEF s
<1>2. \A i \in 1..Len(s) : s[i] = e
  BY <1>1
<1>3. Reduce(op, e, s) = e
  BY <1>1, <1>2, ReduceUnits
<1> QED
  BY <1>3 DEF Measure, s

\* If g makes the unit of all rows but one, the measure is what it makes of that one.
LEMMA MeasureSingle ==
  ASSUME NEW S, NEW e, NEW op, Monoid(S, op, e), NEW R, NEW g, Maps(g, R, S), NEW rows \in Seq(R),
         NEW i \in 1..Len(rows), \A j \in 1..Len(rows) : j # i => g[rows[j]] = e
  PROVE  Measure(op, e, g, rows) = g[rows[i]]
<1> DEFINE s == Image(g, rows)
<1>1. s \in Seq(S) /\ Len(s) = Len(rows) /\ \A j \in 1..Len(rows) : s[j] = g[rows[j]]
  BY ImageType
<1> HIDE DEF s
<1>2. i \in 1..Len(s) /\ \A j \in 1..Len(s) : j # i => s[j] = e
  BY <1>1
<1>3. Reduce(op, e, s) = s[i]
  BY <1>1, <1>2, ReduceSingle
<1> QED
  BY <1>1, <1>2, <1>3 DEF Measure, s

-------------------------------------------------------------------------------
(* The rows of several batches, and the elements of a set in some order. *)

\* The same, of the rows of several batches.
Whole(op, e, g, bs) == Measure(op, e, g, FlattenSeq(bs))

\* The measure of batches is an element of the monoid.
LEMMA WholeType ==
  ASSUME NEW S, NEW e, NEW op, Monoid(S, op, e), NEW R, NEW g, Maps(g, R, S), NEW bs \in Seq(Seq(R))
  PROVE  Whole(op, e, g, bs) \in S
<1>1. FlattenSeq(bs) \in Seq(R)
  BY FlattenType
<1> QED
  BY <1>1, MeasureType DEF Whole

\* No batch measures the unit.
LEMMA WholeEmpty ==
  ASSUME NEW S, NEW e, NEW op, Monoid(S, op, e), NEW g
  PROVE  Whole(op, e, g, <<>>) = e
  BY FlattenEmpty, MeasureEmpty DEF Whole

\* One batch more combines its measure.
LEMMA WholeAppend ==
  ASSUME NEW S, NEW e, NEW op, Monoid(S, op, e), NEW R, NEW g, Maps(g, R, S),
         NEW bs \in Seq(Seq(R)), NEW b \in Seq(R)
  PROVE  Whole(op, e, g, Append(bs, b)) = op[Whole(op, e, g, bs)][Measure(op, e, g, b)]
<1>1. FlattenSeq(bs) \in Seq(R) /\ FlattenSeq(Append(bs, b)) = FlattenSeq(bs) \o b
  BY FlattenType, FlattenAppend
<1>2. Measure(op, e, g, FlattenSeq(bs) \o b)
        = op[Measure(op, e, g, FlattenSeq(bs))][Measure(op, e, g, b)]
  BY <1>1, MeasureConcat
<1> QED
  BY <1>1, <1>2 DEF Whole

\* The measures of the batches.
Measures(op, e, g, bs) == [n \in 1..Len(bs) |-> Measure(op, e, g, bs[n])]

\* The measure of all batches reduces the measures of each.
LEMMA WholeReduces ==
  ASSUME NEW S, NEW e, NEW op, Monoid(S, op, e), NEW R, NEW g, Maps(g, R, S), NEW bs \in Seq(Seq(R))
  PROVE  /\ Measures(op, e, g, bs) \in Seq(S)
         /\ Len(Measures(op, e, g, bs)) = Len(bs)
         /\ Whole(op, e, g, bs) = Reduce(op, e, Measures(op, e, g, bs))
<1> DEFINE N == Len(bs)
           C == Concat(R)
           r == Reductions(C, <<>>, bs)
           s == Measures(op, e, g, bs)
           f == [n \in 0..N |-> Measure(op, e, g, r[n])]
<1>1. C \in [Seq(R) -> [Seq(R) -> Seq(R)]] /\ <<>> \in Seq(R)
  BY ConcatType
<1>2. N \in Nat /\ \A n \in 1..N : bs[n] \in Seq(R)
  OBVIOUS
<1>3. r \in [0..N -> Seq(R)] /\ Reduces(r, C, <<>>, bs, N)
  <2> HIDE DEF C
  <2> QED
    BY <1>1, ReductionsLoop
<1>4. s \in Seq(S) /\ Len(s) = N /\ \A n \in 1..N : s[n] = Measure(op, e, g, bs[n])
  <2>1. \A n \in 1..N : Measure(op, e, g, bs[n]) \in S
    BY <1>2, MeasureType
  <2> QED
    BY <1>2, <2>1 DEF Measures
<1>5. e \in S /\ op \in [S -> [S -> S]]
  BY DEF Monoid
<1> HIDE DEF s
<1>6. f[0] = e
  <2> HIDE DEF r
  <2>1. r[0] = <<>> /\ f[0] = Measure(op, e, g, r[0])
    BY <1>2, <1>3 DEF Reduces
  <2> HIDE DEF f
  <2> QED
    BY <2>1, MeasureEmpty
<1>7. ASSUME NEW n \in 1..N PROVE f[n] = op[f[n - 1]][s[n]]
  <2> HIDE DEF r
  <2>1. n - 1 \in 0..N /\ n \in 0..N
    BY <1>2
  <2>2. r[n - 1] \in Seq(R) /\ r[n] = C[r[n - 1]][bs[n]]
    BY <1>3, <2>1 DEF Reduces
  <2>3. r[n] = r[n - 1] \o bs[n]
    BY <1>2, <2>2 DEF Concat
  <2>4. Measure(op, e, g, r[n]) = op[Measure(op, e, g, r[n - 1])][Measure(op, e, g, bs[n])]
    <3> DEFINE x == r[n - 1]
               y == bs[n]
    <3>1. x \in Seq(R) /\ y \in Seq(R) /\ r[n] = x \o y
      BY <1>2, <2>2, <2>3
    <3> HIDE DEF x, y
    <3>2. Measure(op, e, g, x \o y) = op[Measure(op, e, g, x)][Measure(op, e, g, y)]
      BY <3>1, MeasureConcat
    <3> QED
      BY <3>1, <3>2 DEF x, y
  <2> QED
    BY <1>4, <2>1, <2>4
<1> HIDE DEF f
<1>8. Reduces(f, op, e, s, N)
  BY <1>6, <1>7 DEF Reduces
<1>9. f[N] = Reduce(op, e, s)
  <2> HIDE DEF N
  <2>1. IsReduction(f, S, op, e, s, N)
    BY <1>4, <1>5, <1>8 DEF IsReduction
  <2> QED
    BY <2>1, ReduceUnique
<1>10. FlattenSeq(bs) = r[N]
  BY FlattenReduces DEF Reduce
<1>11. Whole(op, e, g, bs) = f[N]
  <2> HIDE DEF r
  <2> QED
    BY <1>2, <1>10 DEF Whole, f
<1> QED
  BY <1>4, <1>9, <1>11 DEF s

\* The sequence of a finite set lists each element once.
LEMMA SetToSeqProperties ==
  ASSUME NEW T, IsFiniteSet(T)
  PROVE  /\ SetToSeq(T) \in Seq(T)
         /\ \A x \in T : \E i \in 1..Len(SetToSeq(T)) : SetToSeq(T)[i] = x
         /\ \A i, j \in 1..Len(SetToSeq(T)) : SetToSeq(T)[i] = SetToSeq(T)[j] => i = j
<1> DEFINE c == Cardinality(T)
           f == SetToSeq(T)
<1>1. c \in Nat /\ ExistsBijection(1..c, T)
  BY FS_CardinalityType
<1>2. PICK h \in Bijection(1..c, T) : TRUE
  BY <1>1 DEF ExistsBijection
<1>3. h \in [1..c -> T] /\ IsInjective(h)
  BY <1>2 DEF Bijection, Injection, IsInjective
<1>4. f \in [1..c -> T] /\ IsInjective(f)
  <2>1. \E x \in [1..c -> T] : IsInjective(x)
    BY <1>3
  <2>2. f = CHOOSE x \in [1..c -> T] : IsInjective(x)
    BY DEF SetToSeq
  <2> HIDE DEF f
  <2> QED
    BY <2>1, <2>2
<1> HIDE DEF f
<1>5. f \in Injection(1..c, T)
  BY <1>4 DEF Injection, IsInjective
<1>6. Cardinality(1..c) = c
  BY <1>1, FS_Interval
<1>7. f \in Surjection(1..c, T)
  BY <1>5, <1>6, FS_Injection
<1>8. f \in Seq(T) /\ Len(f) = c
  BY <1>1, <1>4
<1> QED
  BY <1>4, <1>7, <1>8 DEF Surjection, IsInjective, f

\* Flattening the images of batches is the image of the flattened batches.
LEMMA FlattenImage ==
  ASSUME NEW R, NEW S, NEW g, Maps(g, R, S), NEW bs \in Seq(Seq(R))
  PROVE  FlattenSeq([b \in 1..Len(bs) |-> Image(g, bs[b])]) = Image(g, FlattenSeq(bs))
<1> DEFINE images == [b \in 1..Len(bs) |-> Image(g, bs[b])]
           N == Len(bs)
           C == Concat(R)
           r == Reductions(C, <<>>, bs)
           D == Concat(S)
           f == [n \in 0..N |-> Image(g, r[n])]
<1>1. /\ C \in [Seq(R) -> [Seq(R) -> Seq(R)]] /\ <<>> \in Seq(R)
      /\ D \in [Seq(S) -> [Seq(S) -> Seq(S)]] /\ <<>> \in Seq(S)
  BY ConcatType
<1>2. N \in Nat /\ \A n \in 1..N : bs[n] \in Seq(R)
  OBVIOUS
<1>3. r \in [0..N -> Seq(R)] /\ Reduces(r, C, <<>>, bs, N)
  <2> HIDE DEF C
  <2> QED
    BY <1>1, ReductionsLoop
<1>4. images \in Seq(Seq(S)) /\ Len(images) = N /\ \A n \in 1..N : images[n] = Image(g, bs[n])
  <2>1. \A n \in 1..N : Image(g, bs[n]) \in Seq(S)
    BY <1>2, ImageType
  <2> QED
    BY <1>2, <2>1
<1> HIDE DEF images
<1>5. f[0] = <<>>
  <2> HIDE DEF r
  <2>1. r[0] = <<>> /\ f[0] = Image(g, r[0])
    BY <1>2, <1>3 DEF Reduces
  <2> QED
    BY <2>1 DEF Image
<1>6. ASSUME NEW n \in 1..N PROVE f[n] = D[f[n - 1]][images[n]]
  <2> HIDE DEF r
  <2>1. n - 1 \in 0..N /\ n \in 0..N
    BY <1>2
  <2>2. r[n - 1] \in Seq(R) /\ r[n] = C[r[n - 1]][bs[n]]
    BY <1>3, <2>1 DEF Reduces
  <2>3. r[n] = r[n - 1] \o bs[n]
    BY <1>2, <2>2 DEF Concat
  <2>4. Image(g, r[n]) = Image(g, r[n - 1]) \o Image(g, bs[n])
    <3> DEFINE x == r[n - 1]
               y == bs[n]
    <3>1. x \in Seq(R) /\ y \in Seq(R) /\ r[n] = x \o y
      BY <1>2, <2>2, <2>3
    <3> HIDE DEF x, y
    <3>2. Image(g, x \o y) = Image(g, x) \o Image(g, y)
      BY <3>1, ImageConcat
    <3> QED
      BY <3>1, <3>2 DEF x, y
  <2>5. Image(g, r[n - 1]) \in Seq(S) /\ images[n] \in Seq(S)
    BY <1>2, <1>4, <2>2, ImageType
  <2>6. D[Image(g, r[n - 1])][images[n]] = Image(g, r[n - 1]) \o images[n]
    BY <2>5 DEF Concat
  <2> QED
    BY <1>4, <2>1, <2>4, <2>6
<1> HIDE DEF f
<1>7. Reduces(f, D, <<>>, images, N)
  BY <1>5, <1>6 DEF Reduces
<1>8. f[N] = Reduce(D, <<>>, images)
  <2> DEFINE T == Seq(S)
             e == <<>>
  <2>1. e \in T /\ D \in [T -> [T -> T]] /\ images \in Seq(T) /\ N = Len(images)
    BY <1>1, <1>4
  <2>2. Reduces(f, D, e, images, N)
    BY <1>7
  <2> HIDE DEF D, N, T, e
  <2>3. IsReduction(f, T, D, e, images, N)
    BY <2>1, <2>2 DEF IsReduction
  <2>4. f[N] = Reduce(D, e, images)
    BY <2>3, ReduceUnique
  <2> QED
    BY <2>4 DEF e
<1>9. FlattenSeq(images) = Reduce(D, <<>>, images)
  BY <1>4, FlattenReduces
<1>10. FlattenSeq(bs) = r[N]
  BY FlattenReduces DEF Reduce
<1> QED
  BY <1>2, <1>8, <1>9, <1>10 DEF f, images

-------------------------------------------------------------------------------
(* Sets with their union. *)

\* Union as such an operation.
Union(K) == [x \in SUBSET K |-> [y \in SUBSET K |-> x \cup y]]

\* Sets under union are a commutative monoid.
LEMMA UnionMonoid ==
  ASSUME NEW K
  PROVE  Monoid(SUBSET K, Union(K), {})
<1>1. \A x, y \in SUBSET K : Union(K)[x][y] = x \cup y /\ x \cup y \in SUBSET K
  BY DEF Union
<1>2. Union(K) \in [SUBSET K -> [SUBSET K -> SUBSET K]]
  BY DEF Union
<1>3. IsUnit(SUBSET K, Union(K), {}) /\ Commutes(SUBSET K, Union(K))
  <2>1. {} \in SUBSET K
    OBVIOUS
  <2>2. \A x \in SUBSET K : Union(K)[{}][x] = x
    BY <1>1, <2>1
  <2>3. ASSUME NEW x \in SUBSET K, NEW y \in SUBSET K PROVE Union(K)[x][y] = Union(K)[y][x]
    <3>1. Union(K)[x][y] = x \cup y /\ Union(K)[y][x] = y \cup x
      BY <1>1
    <3>2. x \cup y = y \cup x
      OBVIOUS
    <3> QED
      BY <3>1, <3>2
  <2> QED
    BY <2>2, <2>3 DEF IsUnit, Commutes
<1>4. ASSUME NEW x \in SUBSET K, NEW y \in SUBSET K, NEW z \in SUBSET K
      PROVE  Union(K)[Union(K)[x][y]][z] = Union(K)[x][Union(K)[y][z]]
  <2>1. Union(K)[Union(K)[x][y]][z] = (x \cup y) \cup z
    BY <1>1
  <2>2. Union(K)[x][Union(K)[y][z]] = x \cup (y \cup z)
    BY <1>1
  <2> QED
    BY <2>1, <2>2
<1> QED
  BY <1>2, <1>3, <1>4 DEF Monoid, Associates

\* A measure by union is the union of what the rows contribute.
LEMMA MeasureUnion ==
  ASSUME NEW K, NEW R, NEW g, Maps(g, R, SUBSET K), NEW rows \in Seq(R)
  PROVE  Measure(Union(K), {}, g, rows) = UNION {g[rows[i]] : i \in 1..Len(rows)}
<1> DEFINE N == Len(rows)
           s == Image(g, rows)
           f == [n \in 0..N |-> UNION {g[rows[i]] : i \in 1..n}]
<1>1. s \in Seq(SUBSET K) /\ Len(s) = N /\ \A i \in 1..N : s[i] = g[rows[i]]
  BY ImageType
<1>2. N \in Nat /\ {} \in SUBSET K /\ Union(K) \in [SUBSET K -> [SUBSET K -> SUBSET K]]
  <2>1. Monoid(SUBSET K, Union(K), {})
    BY UnionMonoid
  <2>2. Union(K) \in [SUBSET K -> [SUBSET K -> SUBSET K]]
    BY <2>1 DEF Monoid
  <2> QED
    BY <2>2
<1> HIDE DEF s
<1>3. f[0] = {}
  BY <1>2
<1>4. ASSUME NEW n \in 1..N PROVE f[n] = Union(K)[f[n - 1]][s[n]]
  <2>1. n - 1 \in 0..N /\ n \in 0..N /\ 1..n = (1..(n - 1)) \cup {n} /\ 1..n \subseteq 1..N
    BY <1>2
  <2>2. \A i \in 1..N : g[rows[i]] \in SUBSET K
    <3>1. \A i \in 1..N : s[i] \in SUBSET K
      BY <1>1
    <3> QED
      BY <1>1, <3>1
  <2>3. f[n] = UNION {g[rows[i]] : i \in 1..n} /\ f[n - 1] = UNION {g[rows[i]] : i \in 1..(n - 1)}
    BY <2>1
  <2> HIDE DEF f
  <2>4. f[n - 1] \in SUBSET K /\ s[n] \in SUBSET K
    BY <1>1, <2>1, <2>2, <2>3
  <2>5. f[n] = f[n - 1] \cup g[rows[n]]
    BY <2>1, <2>3
  <2> QED
    BY <1>1, <2>4, <2>5 DEF Union
<1> HIDE DEF f
<1>5. Reduces(f, Union(K), {}, s, N)
  BY <1>3, <1>4 DEF Reduces
<1>6. f[N] = Reduce(Union(K), {}, s)
  <2> DEFINE U == Union(K)
             S == SUBSET K
             e == {}
  <2>1. e \in S /\ U \in [S -> [S -> S]] /\ s \in Seq(S) /\ N = Len(s) /\ Reduces(f, U, e, s, N)
    BY <1>1, <1>2, <1>5
  <2> HIDE DEF U, S, e, N
  <2>2. IsReduction(f, S, U, e, s, N)
    BY <2>1 DEF IsReduction
  <2>3. f[N] = Reduce(U, e, s)
    BY <2>2, ReduceUnique
  <2> QED
    BY <2>3 DEF U, e
<1> QED
  BY <1>2, <1>6 DEF Measure, s, f
===============================================================================
