------------------------- MODULE ApyCalculator_proofs -------------------------
(***************************************************************************)
(* Proofs about the APY calculator, for any list of candidates, any        *)
(* snapshots in the database and any number of moves and lost calls.       *)
(*                                                                         *)
(* The first part is about calculateOptimalStrategy: its two passes over   *)
(* the candidates find the ones that AsIfAtOnce names.  The second part is *)
(* the inductive invariant of the handler: every value it has read is in   *)
(* range, and, undisturbed, is the value a look at the chain gives now.    *)
(***************************************************************************)
EXTENDS ApyCalculator, FiniteSums_proofs

\* calculateRiskScore has no lower limit: a utilization may be negative.
Scores == {x \in Int : x <= 10000}
Metric == [address : Strategies, apy : Nat, volatility : Nat, riskScore : Scores]

(***************************************************************************)
(* Least and greatest numbers.                                             *)
(***************************************************************************)
LEMMA LeastIs ==
  ASSUME NEW S \in SUBSET Int, NEW x \in S, \A y \in S : x <= y
  PROVE  Min(S) = x
<1>1. \E m \in S : \A y \in S : m <= y
  OBVIOUS
<1>2. Min(S) \in S /\ \A y \in S : Min(S) <= y
  BY <1>1 DEF Min
<1>3. Min(S) \in Int /\ x \in Int
  BY <1>2
<1>4. Min(S) <= x /\ x <= Min(S)
  BY <1>2, <1>3
<1>5. QED
  BY <1>3, <1>4

LEMMA GreatestIs ==
  ASSUME NEW S \in SUBSET Int, NEW x \in S, \A y \in S : y <= x
  PROVE  Max(S) = x
<1>1. \E m \in S : \A y \in S : m >= y
  OBVIOUS
<1>2. Max(S) \in S /\ \A y \in S : Max(S) >= y
  BY <1>1 DEF Max
<1>3. Max(S) \in Int /\ x \in Int
  BY <1>2
<1>4. Max(S) <= x /\ x <= Max(S)
  BY <1>2, <1>3
<1>5. QED
  BY <1>3, <1>4

LEMMA SmallerOf ==
  ASSUME NEW a \in Int, NEW b \in Int
  PROVE  Min({a, b}) = IF a <= b THEN a ELSE b
<1>1. CASE a <= b
  BY <1>1, LeastIs
<1>2. CASE ~(a <= b)
  BY <1>2, LeastIs
<1>3. QED
  BY <1>1, <1>2

LEMMA LargerOf ==
  ASSUME NEW a \in Int, NEW b \in Int
  PROVE  Max({a, b}) = IF a >= b THEN a ELSE b
<1>1. CASE a >= b
  BY <1>1, GreatestIs
<1>2. CASE ~(a >= b)
  BY <1>2, GreatestIs
<1>3. QED
  BY <1>1, <1>2

LEMMA MaxIn ==
  ASSUME NEW n \in Nat, NEW s \in SUBSET (1 .. n), s # {}
  PROVE  Max(s) \in s
<1> DEFINE T == {n - i : i \in s}
<1>1. T \in SUBSET Nat /\ T # {}
  <2>1. \A i \in s : n - i \in Nat
    OBVIOUS
  <2>2. QED
    BY <2>1
<1>2. PICK m \in T : \A k \in T : m <= k
  <2> HIDE DEF T
  <2>1. QED
    BY <1>1, LeastNat
<1>3. PICK x \in s : m = n - x
  OBVIOUS
<1>4. ASSUME NEW y \in s PROVE y <= x
  <2>1. m <= n - y
    BY <1>2
  <2>2. QED
    BY <1>3, <2>1
<1>5. QED
  BY <1>4, GreatestIs

\* What holds of 0, and of the successor of each number it holds of, holds of all.
LEMMA CountingUp ==
  ASSUME NEW T, 0 \in T, \A k \in Nat : k \in T => k + 1 \in T
  PROVE  Nat \subseteq T
<1> SUFFICES ASSUME Nat \ T # {} PROVE FALSE
  OBVIOUS
<1>1. PICK n \in Nat \ T : \A m \in Nat \ T : n <= m
  BY LeastNat
<1>2. n # 0 /\ n - 1 \in Nat
  OBVIOUS
<1>3. n - 1 \in T
  BY <1>1, <1>2
<1>4. QED
  BY <1>2, <1>3

(***************************************************************************)
(* The two passes of calculateOptimalStrategy are folds.  Step is a step   *)
(* of the pass p, which has a rule, the list and the limits.               *)
(***************************************************************************)
Start(p) == IF p.rule = "ratio" THEN 0 ELSE 1

Step(p, best, i) ==
  IF p.rule = "ratio"
    THEN IF /\ Meets(p.all[i], p.minYield, p.maxRisk)
            /\ best = 0 \/ HigherRatio(p.all[i], p.all[best])
         THEN i ELSE best
    ELSE IF p.all[best].apy > p.all[i].apy THEN best ELSE i

Pass(rule, all, minYield, maxRisk) ==
  [rule |-> rule, all |-> all, minYield |-> minYield, maxRisk |-> maxRisk]

\* One step of the recursion of a fold, with h in the place of the fold.
FoldStep(p, h, s) == IF s = {} THEN Start(p) ELSE Step(p, h[s \ {Max(s)}], Max(s))

\* h is the fold of the pass p over the sets of the first n places.
Folds(h, p, n) == h = [s \in SUBSET (1 .. n) |-> FoldStep(p, h, s)]

\* The recursion of a pass has a solution.
LEMMA FoldExists ==
  ASSUME NEW p, NEW n \in Nat
  PROVE  \E h : Folds(h, p, n)
<1> DEFINE S == 1 .. n
           Built == {k \in Nat : \E h : h = [s \in UpTo(S, k) |-> FoldStep(p, h, s)]}
<1>1. IsFiniteSet(S) /\ Cardinality(S) = n
  BY FS_Interval
<1>2. \A U \in SUBSET S : IsFiniteSet(U) /\ Cardinality(U) \in Nat /\ Cardinality(U) <= n
  BY <1>1, FS_Subset, FS_CardinalityType
<1>3. 0 \in Built
  <2> DEFINE h == [s \in UpTo(S, 0) |-> Start(p)]
  <2>1. \A s \in UpTo(S, 0) : s = {}
    BY <1>2, FS_EmptySet DEF UpTo
  <2>2. h = [s \in UpTo(S, 0) |-> FoldStep(p, h, s)]
    BY <2>1 DEF FoldStep
  <2>3. QED
    BY <2>2
<1>4. ASSUME NEW k \in Nat, k \in Built
      PROVE  k + 1 \in Built
  <2>1. PICK h : h = [s \in UpTo(S, k) |-> FoldStep(p, h, s)]
    BY <1>4
  <2> DEFINE g == [s \in UpTo(S, k + 1) |-> FoldStep(p, h, s)]
  <2>2. \A t \in UpTo(S, k) : t \in UpTo(S, k + 1)
    BY <1>2 DEF UpTo
  <2>3. \A t \in UpTo(S, k) : g[t] = h[t]
    BY <2>1, <2>2
  <2>4. ASSUME NEW s \in UpTo(S, k + 1), s # {}
        PROVE  s \ {Max(s)} \in UpTo(S, k)
    <3>1. s \in SUBSET S /\ Cardinality(s) <= k + 1
      BY <2>4 DEF UpTo
    <3>2. Max(s) \in s
      BY <2>4, <3>1, MaxIn
    <3>3. Cardinality(s \ {Max(s)}) = Cardinality(s) - 1
      BY <1>2, <3>1, <3>2, FS_RemoveElement
    <3>4. Cardinality(s \ {Max(s)}) <= k
      BY <1>2, <3>1, <3>3
    <3>5. QED
      BY <3>1, <3>4 DEF UpTo
  <2>5. \A s \in UpTo(S, k + 1) : FoldStep(p, h, s) = FoldStep(p, g, s)
    BY <2>3, <2>4 DEF FoldStep
  <2>6. g = [s \in UpTo(S, k + 1) |-> FoldStep(p, g, s)]
    BY <2>5
  <2>7. k + 1 \in Nat
    OBVIOUS
  <2>8. QED
    BY <2>6, <2>7
<1>5. n \in Built
  <2> HIDE DEF Built
  <2>1. QED
    BY <1>3, <1>4, CountingUp
<1>6. UpTo(S, n) = SUBSET S
  BY <1>2 DEF UpTo
<1>7. QED
  BY <1>5, <1>6 DEF Folds

\* What a fold is at a prefix of the list: one step from the prefix before it.
LEMMA FoldPrefix ==
  ASSUME NEW p, NEW n \in Nat, NEW h, Folds(h, p, n)
  PROVE  /\ h[1 .. 0] = Start(p)
         /\ \A k \in 1 .. n : h[1 .. k] = Step(p, h[1 .. (k - 1)], k)
<1>1. 1 .. 0 = {}
  OBVIOUS
<1>2. h[1 .. 0] = Start(p)
  BY <1>1 DEF Folds, FoldStep
<1>3. ASSUME NEW k \in 1 .. n
      PROVE  h[1 .. k] = Step(p, h[1 .. (k - 1)], k)
  <2>1. 1 .. k \in SUBSET (1 .. n) /\ 1 .. k # {}
    OBVIOUS
  <2>2. Max(1 .. k) = k
    <3>1. 1 .. k \in SUBSET Int /\ k \in 1 .. k /\ \A y \in 1 .. k : y <= k
      OBVIOUS
    <3>2. QED
      BY <3>1, GreatestIs
  <2>3. (1 .. k) \ {k} = 1 .. (k - 1)
    OBVIOUS
  <2>4. h[1 .. k] = FoldStep(p, h, 1 .. k)
    BY <2>1 DEF Folds
  <2>5. QED
    BY <2>1, <2>2, <2>3, <2>4 DEF FoldStep
<1>4. QED
  BY <1>2, <1>3

\* The algorithm's answer is the place where the two folds end.
LEMMA PassesAreFolds ==
  ASSUME NEW n \in Nat, NEW all, DOMAIN all = 1 .. n, NEW minYield, NEW maxRisk
  PROVE  \E f, g :
           /\ Folds(f, Pass("ratio", all, minYield, maxRisk), n)
           /\ Folds(g, Pass("apy", all, minYield, maxRisk), n)
           /\ calculateOptimalStrategy(all, minYield, maxRisk)
                = all[IF f[1 .. n] # 0 THEN f[1 .. n] ELSE g[1 .. n]]
<1> DEFINE D == [i \in DOMAIN all |-> i]
           F(h) == h = [s \in SUBSET (DOMAIN D) |->
             IF s = {} THEN 0
             ELSE LET x == Max(s)
                  IN  IF /\ Meets(all[D[x]], minYield, maxRisk)
                         /\ h[s \ {x}] = 0 \/ HigherRatio(all[D[x]], all[h[s \ {x}]])
                      THEN D[x] ELSE h[s \ {x}]]
           G(h) == h = [s \in SUBSET (DOMAIN D) |->
             IF s = {} THEN 1
             ELSE LET x == Max(s)
                  IN  IF all[h[s \ {x}]].apy > all[D[x]].apy THEN h[s \ {x}] ELSE D[x]]
           f == CHOOSE h : F(h)
           g == CHOOSE h : G(h)
<1>1. DOMAIN D = 1 .. n /\ \A i \in 1 .. n : D[i] = i
  OBVIOUS
<1>2. \A s \in SUBSET (1 .. n) : s # {} => D[Max(s)] = Max(s)
  BY <1>1, MaxIn
<1>3. \A h : F(h) <=> Folds(h, Pass("ratio", all, minYield, maxRisk), n)
  <2> TAKE h
  <2> DEFINE p == Pass("ratio", all, minYield, maxRisk)
             v(s) == IF s = {} THEN 0
                     ELSE LET x == Max(s)
                          IN  IF /\ Meets(all[D[x]], minYield, maxRisk)
                                 /\ h[s \ {x}] = 0 \/ HigherRatio(all[D[x]], all[h[s \ {x}]])
                              THEN D[x] ELSE h[s \ {x}]
  <2>1. \A s \in SUBSET (1 .. n) : v(s) = FoldStep(p, h, s)
    BY <1>2 DEF FoldStep, Start, Step, Pass
  <2>2. F(h) <=> h = [s \in SUBSET (1 .. n) |-> v(s)]
    BY <1>1
  <2>3. QED
    BY <2>1, <2>2 DEF Folds
<1>4. \A h : G(h) <=> Folds(h, Pass("apy", all, minYield, maxRisk), n)
  <2> TAKE h
  <2> DEFINE p == Pass("apy", all, minYield, maxRisk)
             v(s) == IF s = {} THEN 1
                     ELSE LET x == Max(s)
                          IN  IF all[h[s \ {x}]].apy > all[D[x]].apy THEN h[s \ {x}] ELSE D[x]
  <2>1. \A s \in SUBSET (1 .. n) : v(s) = FoldStep(p, h, s)
    BY <1>2 DEF FoldStep, Start, Step, Pass
  <2>2. G(h) <=> h = [s \in SUBSET (1 .. n) |-> v(s)]
    BY <1>1
  <2>3. QED
    BY <2>1, <2>2 DEF Folds
<1>5. calculateOptimalStrategy(all, minYield, maxRisk)
        = all[IF f[DOMAIN D] # 0 THEN f[DOMAIN D] ELSE g[DOMAIN D]]
  BY Zenon DEF calculateOptimalStrategy, FoldLeftDomain, FoldLeft, MapThenFoldSet
<1> HIDE DEF F, G
<1>6. F(f) /\ G(g)
  <2>1. (\E h : F(h)) /\ (\E h : G(h))
    BY <1>3, <1>4, FoldExists
  <2>2. QED
    BY <2>1, Zenon
<1> HIDE DEF f, g
<1>7. QED
  BY <1>1, <1>3, <1>4, <1>5, <1>6

(***************************************************************************)
(* The order by Sharpe ratio, compared by cross-multiplication.            *)
(***************************************************************************)
LEMMA TimesPositive ==
  ASSUME NEW x \in Int, NEW y \in Int, NEW q \in Nat, q > 0
  PROVE  /\ x > y => x * q > y * q
         /\ x <= y => x * q <= y * q
<1>1. ASSUME x > y PROVE x * q > y * q
  <2>1. (x - y) * q > 0
    BY <1>1
  <2>2. (x - y) * q = x * q - y * q
    OBVIOUS
  <2>3. QED
    BY <2>1, <2>2
<1>2. ASSUME x <= y PROVE x * q <= y * q
  <2>1. (y - x) * q >= 0
    BY <1>2
  <2>2. (y - x) * q = y * q - x * q
    OBVIOUS
  <2>3. QED
    BY <2>1, <2>2
<1>3. QED
  BY <1>1, <1>2

\* If a/p > b/q and c/r does not exceed b/q, then a/p > c/r.
LEMMA FractionsOrder ==
  ASSUME NEW a \in Int, NEW b \in Int, NEW c \in Int,
         NEW p \in Nat, NEW q \in Nat, NEW r \in Nat, p > 0, q > 0, r > 0,
         a * q > b * p, c * q <= b * r
  PROVE  a * r > c * p
<1>1. /\ a * q \in Int /\ b * p \in Int /\ c * q \in Int /\ b * r \in Int
      /\ a * r \in Int /\ c * p \in Int
  OBVIOUS
<1>2. (a * q) * r > (b * p) * r
  BY <1>1, TimesPositive
<1>3. (c * q) * p <= (b * r) * p
  BY <1>1, TimesPositive
<1>4. (a * q) * r = (a * r) * q /\ (c * q) * p = (c * p) * q /\ (b * p) * r = (b * r) * p
  OBVIOUS
<1>5. (a * r) * q > (c * p) * q
  BY <1>2, <1>3, <1>4
<1>6. QED
  BY <1>1, <1>5, TimesPositive

LEMMA RatioOrder ==
  ASSUME NEW a \in Metric, NEW b \in Metric, NEW c \in Metric
  PROVE  /\ HigherRatio(a, b) /\ ~HigherRatio(c, b) => HigherRatio(a, c)
         /\ HigherRatio(a, c) => ~HigherRatio(c, a)
<1> DEFINE e(m) == m.apy - 200
           v(m) == Max({m.volatility, 10})
<1>1. \A m \in Metric : v(m) \in Nat /\ v(m) > 0
  BY LargerOf DEF Metric
<1>2. /\ e(a) \in Int /\ e(b) \in Int /\ e(c) \in Int
      /\ v(a) \in Nat /\ v(b) \in Nat /\ v(c) \in Nat
      /\ v(a) > 0 /\ v(b) > 0 /\ v(c) > 0
  BY <1>1 DEF Metric
<1>3. /\ HigherRatio(a, b) <=> e(a) * v(b) > e(b) * v(a)
      /\ HigherRatio(c, b) <=> e(c) * v(b) > e(b) * v(c)
      /\ HigherRatio(a, c) <=> e(a) * v(c) > e(c) * v(a)
      /\ HigherRatio(c, a) <=> e(c) * v(a) > e(a) * v(c)
  BY DEF HigherRatio
<1> HIDE DEF e, v
<1>4. ASSUME HigherRatio(a, b), ~HigherRatio(c, b) PROVE HigherRatio(a, c)
  <2>1. e(c) * v(b) <= e(b) * v(c)
    BY <1>2, <1>3, <1>4
  <2>2. QED
    BY <1>2, <1>3, <1>4, <2>1, FractionsOrder
<1>5. HigherRatio(a, c) => ~HigherRatio(c, a)
  BY <1>2, <1>3
<1>6. QED
  BY <1>4, <1>5

(***************************************************************************)
(* What the passes have found after the first k places.                    *)
(***************************************************************************)
\* No viable place, or a viable one that beats all before it and that none beats.
BestByRatio(all, minYield, maxRisk, k, j) ==
  IF j = 0 THEN \A i \in 1 .. k : ~Meets(all[i], minYield, maxRisk)
  ELSE /\ j \in 1 .. k /\ Meets(all[j], minYield, maxRisk)
       /\ \A i \in 1 .. k : Meets(all[i], minYield, maxRisk) =>
            /\ ~HigherRatio(all[i], all[j])
            /\ i < j => HigherRatio(all[j], all[i])

\* The last of the places with the highest APY.
BestByAPY(all, k, j) ==
  /\ j \in 1 .. k
  /\ \A i \in 1 .. k : all[i].apy <= all[j].apy /\ (i > j => all[i].apy < all[j].apy)

LEMMA RatioPass ==
  ASSUME NEW all \in Seq(Metric), NEW minYield, NEW maxRisk, NEW f,
         Folds(f, Pass("ratio", all, minYield, maxRisk), Len(all))
  PROVE  BestByRatio(all, minYield, maxRisk, Len(all), f[1 .. Len(all)])
<1> DEFINE p == Pass("ratio", all, minYield, maxRisk)
           Best(k, j) == BestByRatio(all, minYield, maxRisk, k, j)
           T == {k \in Nat : k <= Len(all) => Best(k, f[1 .. k])}
<1>1. Len(all) \in Nat /\ \A i \in 1 .. Len(all) : all[i] \in Metric
  OBVIOUS
<1>2. /\ f[1 .. 0] = 0
      /\ \A k \in 1 .. Len(all) : f[1 .. k] =
           IF /\ Meets(all[k], minYield, maxRisk)
              /\ f[1 .. (k - 1)] = 0 \/ HigherRatio(all[k], all[f[1 .. (k - 1)]])
           THEN k ELSE f[1 .. (k - 1)]
  BY <1>1, FoldPrefix DEF Start, Step, Pass
<1>3. 0 \in T
  BY <1>2 DEF BestByRatio
<1>4. ASSUME NEW k \in Nat, k \in T, k + 1 <= Len(all)
      PROVE  Best(k + 1, f[1 .. (k + 1)])
  <2> DEFINE j == f[1 .. k]
             n == k + 1
  <2>1. Best(k, j)
    BY <1>1, <1>4
  <2>2. n \in 1 .. Len(all) /\ n - 1 = k /\ 1 .. n = (1 .. k) \cup {n}
    BY <1>1, <1>4
  <2>3. f[1 .. n] = IF /\ Meets(all[n], minYield, maxRisk)
                       /\ j = 0 \/ HigherRatio(all[n], all[j])
                    THEN n ELSE j
    BY <1>2, <2>2
  <2>4. \A i \in 1 .. n : all[i] \in Metric
    BY <1>1, <2>2
  <2>5. ~HigherRatio(all[n], all[n])
    BY <2>2, <2>4, RatioOrder
  <2> HIDE DEF j
  <2>6. CASE j = 0
    BY <2>1, <2>2, <2>3, <2>5, <2>6 DEF BestByRatio
  <2>7. CASE j # 0 /\ Meets(all[n], minYield, maxRisk) /\ HigherRatio(all[n], all[j])
    <3>1. f[1 .. n] = n
      BY <2>3, <2>7
    <3>2. ASSUME NEW i \in 1 .. k, Meets(all[i], minYield, maxRisk)
          PROVE  HigherRatio(all[n], all[i]) /\ ~HigherRatio(all[i], all[n])
      <4>1. j \in 1 .. n /\ i \in 1 .. n /\ ~HigherRatio(all[i], all[j])
        BY <2>1, <2>2, <2>7, <3>2 DEF BestByRatio
      <4>2. QED
        BY <2>2, <2>4, <2>7, <4>1, RatioOrder
    <3>3. QED
      BY <2>2, <2>5, <2>7, <3>1, <3>2 DEF BestByRatio
  <2>8. CASE j # 0 /\ ~(Meets(all[n], minYield, maxRisk) /\ HigherRatio(all[n], all[j]))
    <3>1. f[1 .. n] = j /\ j \in 1 .. k
      BY <2>1, <2>3, <2>8 DEF BestByRatio
    <3>2. ~(n < j) /\ (Meets(all[n], minYield, maxRisk) => ~HigherRatio(all[n], all[j]))
      BY <2>2, <2>8, <3>1
    <3>3. \A i \in 1 .. n : Meets(all[i], minYield, maxRisk) =>
            ~HigherRatio(all[i], all[j]) /\ (i < j => HigherRatio(all[j], all[i]))
      BY <2>1, <2>2, <2>8, <3>2 DEF BestByRatio
    <3>4. QED
      BY <2>1, <2>2, <2>8, <3>1, <3>3 DEF BestByRatio
  <2>9. QED
    BY <2>6, <2>7, <2>8
<1>5. Nat \subseteq T
  <2>1. \A k \in Nat : k \in T => k + 1 \in T
    BY <1>1, <1>4
  <2> HIDE DEF T
  <2>2. QED
    BY <1>3, <2>1, CountingUp
<1>6. QED
  BY <1>1, <1>5

LEMMA APYPass ==
  ASSUME NEW all \in Seq(Metric), all # <<>>, NEW minYield, NEW maxRisk, NEW g,
         Folds(g, Pass("apy", all, minYield, maxRisk), Len(all))
  PROVE  BestByAPY(all, Len(all), g[1 .. Len(all)])
<1> DEFINE T == {k \in Nat : k + 1 <= Len(all) => BestByAPY(all, k + 1, g[1 .. (k + 1)])}
<1>1. /\ Len(all) \in Nat \ {0}
      /\ \A i \in 1 .. Len(all) : all[i].apy \in Nat
  <2>1. \A m \in Metric : m.apy \in Nat
    BY DEF Metric
  <2>2. Len(all) \in Nat \ {0} /\ \A i \in 1 .. Len(all) : all[i] \in Metric
    OBVIOUS
  <2>3. QED
    BY <2>1, <2>2
<1>2. /\ g[1 .. 0] = 1
      /\ \A k \in 1 .. Len(all) : g[1 .. k] =
           IF all[g[1 .. (k - 1)]].apy > all[k].apy THEN g[1 .. (k - 1)] ELSE k
  BY <1>1, FoldPrefix DEF Start, Step, Pass
<1>3. 0 \in T
  <2>1. 1 \in 1 .. Len(all) /\ 1 - 1 = 0
    BY <1>1
  <2>2. g[1 .. 1] = 1
    BY <1>2, <2>1
  <2>3. BestByAPY(all, 1, 1)
    BY <1>1 DEF BestByAPY
  <2>4. QED
    BY <2>2, <2>3
<1>4. ASSUME NEW k \in Nat, k \in T, (k + 1) + 1 <= Len(all)
      PROVE  BestByAPY(all, (k + 1) + 1, g[1 .. ((k + 1) + 1)])
  <2> DEFINE j == g[1 .. (k + 1)]
             n == (k + 1) + 1
  <2>1. BestByAPY(all, k + 1, j)
    BY <1>1, <1>4
  <2>2. n \in 1 .. Len(all) /\ n - 1 = k + 1 /\ 1 .. n = (1 .. (k + 1)) \cup {n}
    BY <1>1, <1>4
  <2>3. g[1 .. n] = IF all[j].apy > all[n].apy THEN j ELSE n
    BY <1>2, <2>2
  <2>4. \A i \in 1 .. n : all[i].apy \in Nat
    BY <1>1, <2>2
  <2> HIDE DEF j
  <2>5. CASE all[j].apy > all[n].apy
    BY <2>1, <2>2, <2>3, <2>4, <2>5 DEF BestByAPY
  <2>6. CASE ~(all[j].apy > all[n].apy)
    <3>1. g[1 .. n] = n
      BY <2>3, <2>6
    <3>2. j \in 1 .. n /\ \A i \in 1 .. (k + 1) : all[i].apy <= all[j].apy
      BY <2>1, <2>2 DEF BestByAPY
    <3>3. \A i \in 1 .. n : all[i].apy <= all[n].apy
      BY <2>2, <2>4, <2>6, <3>2
    <3>4. QED
      BY <2>2, <3>1, <3>3 DEF BestByAPY
  <2>7. QED
    BY <2>5, <2>6
<1>5. Nat \subseteq T
  <2>1. \A k \in Nat : k \in T => k + 1 \in T
    BY <1>1, <1>4
  <2> HIDE DEF T
  <2>2. QED
    BY <1>3, <2>1, CountingUp
<1>6. (Len(all) - 1) + 1 = Len(all) /\ Len(all) - 1 \in T
  BY <1>1, <1>5
<1>7. QED
  BY <1>1, <1>6

\* The algorithm returns the candidate that AsIfAtOnce describes, for any list of
\* metrics and any limits.
LEMMA OptimalChoice ==
  ASSUME NEW all \in Seq(Metric), all # <<>>, NEW minYield, NEW maxRisk
  PROVE  LET best == BestPlace(all, minYield, maxRisk)
         IN  /\ best \in DOMAIN all
             /\ calculateOptimalStrategy(all, minYield, maxRisk) = all[best]
             /\ Meets(all[best], minYield, maxRisk) <=> Viable(all, minYield, maxRisk) # {}
<1> DEFINE n == Len(all)
           ok == {i \in DOMAIN all : Meets(all[i], minYield, maxRisk)}
           top == {i \in ok : \A j \in ok : ~HigherRatio(all[j], all[i])}
           high == {i \in DOMAIN all : \A j \in DOMAIN all : all[j].apy <= all[i].apy}
           best == IF ok # {} THEN Min(top) ELSE Max(high)
<1>0. BestPlace(all, minYield, maxRisk) = best /\ Viable(all, minYield, maxRisk) = ok
  BY DEF BestPlace, Viable
<1>1. n \in Nat \ {0} /\ DOMAIN all = 1 .. n /\ \A i \in 1 .. n : all[i] \in Metric
  OBVIOUS
<1>2. PICK f, g :
        /\ Folds(f, Pass("ratio", all, minYield, maxRisk), n)
        /\ Folds(g, Pass("apy", all, minYield, maxRisk), n)
        /\ calculateOptimalStrategy(all, minYield, maxRisk)
             = all[IF f[1 .. n] # 0 THEN f[1 .. n] ELSE g[1 .. n]]
  BY <1>1, PassesAreFolds
<1>3. BestByRatio(all, minYield, maxRisk, n, f[1 .. n])
  BY <1>2, RatioPass
<1>4. BestByAPY(all, n, g[1 .. n])
  BY <1>2, APYPass
<1> HIDE DEF n
<1>5. CASE f[1 .. n] = 0
  <2> DEFINE h == g[1 .. n]
  <2>1. ok = {}
    BY <1>1, <1>3, <1>5 DEF BestByRatio
  <2>2. h \in high /\ \A i \in high : i <= h
    <3> HIDE DEF h
    <3>1. /\ h \in 1 .. n
          /\ \A i \in 1 .. n : all[i].apy <= all[h].apy /\ (i > h => all[i].apy < all[h].apy)
      BY <1>4 DEF BestByAPY, h
    <3>2. \A i \in 1 .. n : all[i].apy \in Nat
      BY <1>1 DEF Metric
    <3>3. ASSUME NEW i \in high PROVE i <= h
      <4>1. i \in 1 .. n /\ all[h].apy <= all[i].apy
        BY <1>1, <3>1
      <4>2. QED
        BY <3>1, <3>2, <4>1
    <3>4. QED
      BY <1>1, <3>1, <3>3
  <2>3. high \in SUBSET Int
    BY <1>1
  <2> HIDE DEF high
  <2>4. Max(high) = h
    BY <2>2, <2>3, GreatestIs
  <2>5. best = h /\ h \in 1 .. n
    BY <1>4, <2>1, <2>4 DEF BestByAPY
  <2>6. ~Meets(all[best], minYield, maxRisk)
    BY <1>1, <2>1, <2>5
  <2> HIDE DEF ok
  <2>7. QED
    BY <1>0, <1>1, <1>2, <1>5, <2>1, <2>5, <2>6 DEF high, ok
<1>6. CASE f[1 .. n] # 0
  <2> DEFINE h == f[1 .. n]
  <2>1. /\ h \in 1 .. n /\ Meets(all[h], minYield, maxRisk)
        /\ \A i \in ok : ~HigherRatio(all[i], all[h]) /\ (i < h => HigherRatio(all[h], all[i]))
    BY <1>1, <1>3, <1>6 DEF BestByRatio
  <2> HIDE DEF h
  <2>2. h \in top
    BY <1>1, <2>1
  <2>3. ASSUME NEW i \in top PROVE h <= i
    <3>1. i \in 1 .. n /\ ~HigherRatio(all[h], all[i]) /\ i \in ok
      BY <1>1, <2>1
    <3>2. ~(i < h)
      BY <2>1, <3>1
    <3>3. QED
      BY <1>1, <2>1, <3>1, <3>2
  <2>4. top \in SUBSET Int /\ ok # {}
    BY <1>1, <2>2
  <2> HIDE DEF top
  <2>5. Min(top) = h
    BY <2>2, <2>3, <2>4, LeastIs
  <2>6. QED
    BY <1>0, <1>1, <1>2, <1>6, <2>1, <2>4, <2>5 DEF h, top
<1>7. QED
  BY <1>5, <1>6

(***************************************************************************)
(* The formulas stay in range.                                             *)
(***************************************************************************)
LEMMA QuotientIsInt ==
  ASSUME NEW x \in Int, NEW y \in Nat, y > 0
  PROVE  x \div y \in Int
OBVIOUS

LEMMA HistoricalAPYIsNat ==
  ASSUME NEW history \in Seq(Nat)
  PROVE  calculateHistoricalAPY(history) \in Nat
<1>1. CASE Len(history) < 2 \/ Head(history) = 0
  BY <1>1, CalculatorAssumption DEF calculateHistoricalAPY, estimateAPYFromValue
<1>2. CASE ~(Len(history) < 2) /\ Head(history) # 0
  <2> DEFINE x == ((Last(history) - Head(history)) * 3650000)
                     \div (Head(history) * Len(history))
  <2>1. /\ Len(history) \in Nat /\ Len(history) > 0
        /\ Head(history) \in Nat /\ Head(history) > 0 /\ Last(history) \in Nat
    BY <1>2 DEF Last
  <2>2. Head(history) * Len(history) \in Nat /\ Head(history) * Len(history) > 0
    BY <2>1
  <2>3. (Last(history) - Head(history)) * 3650000 \in Int
    BY <2>1
  <2>4. x \in Int
    BY <2>2, <2>3, QuotientIsInt
  <2> HIDE DEF x
  <2>5. Min({5000, x}) \in Int
    BY <2>4, SmallerOf
  <2>6. Max({0, Min({5000, x})}) \in Nat
    <3> DEFINE y == Min({5000, x})
    <3>1. y \in Int
      BY <2>5
    <3> HIDE DEF y
    <3>2. Max({0, y}) = IF 0 >= y THEN 0 ELSE y
      BY <3>1, LargerOf
    <3>3. Max({0, y}) \in Nat
      BY <3>1, <3>2
    <3>4. QED
      BY <3>3 DEF y
  <2>7. QED
    BY <1>2, <2>6 DEF calculateHistoricalAPY, x
<1>3. QED
  BY <1>1, <1>2

LEMMA EstimatesAreNat ==
  /\ \A v \in Nat : estimateAPYFromValue(v) \in Nat
  /\ \A apy \in Nat : estimateVolatility(apy) \in Nat
  /\ \A measured \in Nat \cup {Unknown} : calculateVolatility(measured) \in Nat
<1>1. ASSUME NEW v \in Nat PROVE estimateAPYFromValue(v) \in Nat
  <2>1. v = 0 \/ (v > 0 /\ v < K) \/ (v >= K /\ v < 10 * K) \/ v >= 10 * K
    BY CalculatorAssumption
  <2>2. QED
    BY <2>1 DEF estimateAPYFromValue
<1>2. ASSUME NEW apy \in Nat PROVE estimateVolatility(apy) \in Nat
  <2>1. apy \div 2 \in Nat
    OBVIOUS
  <2>2. QED
    BY <2>1, LargerOf DEF estimateVolatility
<1>3. QED
  BY <1>1, <1>2 DEF calculateVolatility

LEMMA UtilizationIsInt ==
  ASSUME NEW total \in Nat, NEW idle \in Nat
  PROVE  utilizationRate(total, idle) \in Int
<1>1. (total - idle) * 10000 \in Int
  OBVIOUS
<1>2. QED
  BY <1>1, QuotientIsInt DEF utilizationRate

LEMMA MetricInRange ==
  ASSUME NEW s \in Strategies, NEW apy \in Nat, NEW volatility \in Nat,
         NEW utilization \in Int, NEW tvl \in Nat
  PROVE  metricsOf(s, apy, volatility, utilization, tvl) \in Metric
<1> DEFINE volScore == Min({2 * volatility, 4000})
           utilScore == (3 * utilization) \div 10
           tvlScore == IF tvl < 10 * K THEN 3000 ELSE IF tvl < 100 * K THEN 1500 ELSE 500
<1>1. volScore \in Int
  BY SmallerOf
<1>2. utilScore \in Int /\ tvlScore \in Int
  OBVIOUS
<1> HIDE DEF volScore, utilScore, tvlScore
<1>3. Min({volScore + utilScore + tvlScore, 10000}) \in Scores
  BY <1>1, <1>2, SmallerOf DEF Scores
<1>4. calculateRiskScore(volatility, utilization, tvl) \in Scores
  BY <1>3 DEF calculateRiskScore, volScore, utilScore, tvlScore
<1>5. QED
  BY <1>4 DEF metricsOf, Metric

(***************************************************************************)
(* The inductive invariant of the handler.                                 *)
(***************************************************************************)
Row == [apy : Nat \cup {Unknown}, tvl : Nat \cup {Unknown}, total : Nat \cup {Unknown},
        utilization : Int \cup {Unknown}, volatility : Nat \cup {Unknown}]

InRange ==
  /\ worth \in [Strategies -> Nat] /\ held \in [Strategies -> Nat]
  /\ database \in Databases \cup {Unknown} /\ request \in Requests
  /\ reads \in [Strategies -> Row]
  /\ clock \in Nat /\ disturbances \in Nat

APYNow(s) ==
  IF s \notin answering THEN 400
  ELSE IF database = Unknown THEN estimateAPYFromValue(worth[s])
  ELSE calculateHistoricalAPY(database[s].history)
TVLNow(s) == IF s \in answering THEN worth[s] ELSE 0
UtilizationNow(s) == IF s \in answering THEN utilizationRate(worth[s], held[s]) ELSE 9000
VolatilityNow(s) ==
  IF database = Unknown THEN estimateVolatility(APYNow(s))
  ELSE calculateVolatility(database[s].volatility)

\* The volatility of a candidate is read last.
Ordered(row) ==
  row.volatility # Unknown => Unknown \notin {row.apy, row.tvl, row.utilization}

\* What is known of s is what a look at the chain gives now.
Current(s, row) ==
  /\ row.apy # Unknown => row.apy = APYNow(s)
  /\ row.tvl # Unknown => row.tvl = TVLNow(s)
  /\ row.total # Unknown => s \in answering /\ row.total = worth[s]
  /\ row.utilization # Unknown => row.utilization = UtilizationNow(s)
  /\ row.volatility # Unknown => row.volatility = VolatilityNow(s)

ReadsInv ==
  \A s \in Strategies : Ordered(reads[s]) /\ (disturbances = 0 => Current(s, reads[s]))

\* The payload's times, and that nothing is read once there is one.
PayloadInv ==
  Chosen =>
    /\ pc = "idle"
    /\ answer.calculated \in Nat /\ answer.calculated <= clock
    /\ answer.deadline \in {answer.calculated + Hour, answer.calculated + 1 + Hour}
    /\ answer.twapStart = answer.calculated - 26 * Hour
    /\ answer.twapEnd = answer.calculated - Hour

CalculatorInv == InRange /\ ReadsInv /\ PayloadInv /\ AsIfAtOnce /\ HandlerNeverFallsBack

\* What the formulas get and give, of a strategy whose state is in range.
LEMMA NowInRange ==
  ASSUME InRange, NEW s \in Strategies
  PROVE  /\ APYNow(s) \in Nat /\ TVLNow(s) \in Nat /\ UtilizationNow(s) \in Int
         /\ VolatilityNow(s) \in Nat
         /\ database # Unknown => calculateVolatility(database[s].volatility) \in Nat
         /\ database = Unknown => estimateAPYFromValue(worth[s]) \in Nat
         /\ database # Unknown => calculateHistoricalAPY(database[s].history) \in Nat
<1>1. worth[s] \in Nat /\ held[s] \in Nat
  BY DEF InRange
<1>2. database # Unknown => /\ database[s].history \in Seq(Nat)
                            /\ database[s].volatility \in Nat \cup {Unknown}
  BY CalculatorAssumption DEF InRange
<1>3. /\ database = Unknown => estimateAPYFromValue(worth[s]) \in Nat
      /\ database # Unknown => calculateHistoricalAPY(database[s].history) \in Nat
      /\ database # Unknown => calculateVolatility(database[s].volatility) \in Nat
  BY <1>1, <1>2, EstimatesAreNat, HistoricalAPYIsNat
<1>4. APYNow(s) \in Nat
  <2>1. 400 \in Nat
    OBVIOUS
  <2>2. QED
    BY <1>3, <2>1, Zenon DEF APYNow
<1>5. TVLNow(s) \in Nat /\ UtilizationNow(s) \in Int
  BY <1>1, UtilizationIsInt DEF TVLNow, UtilizationNow
<1>6. VolatilityNow(s) \in Nat
  BY <1>3, <1>4, EstimatesAreNat DEF VolatilityNow
<1>7. QED
  BY <1>3, <1>4, <1>5, <1>6

LEMMA MetricsAtOnce ==
  ASSUME NEW s \in Strategies
  PROVE  MetricsNow(s)
           = metricsOf(s, APYNow(s), VolatilityNow(s), UtilizationNow(s), TVLNow(s))
BY DEF MetricsNow, APYNow, VolatilityNow, UtilizationNow, TVLNow

\* A step that learns one value of one candidate.
LEMMA RowLearnt ==
  ASSUME InRange, ReadsInv, NEW s \in Strategies, NEW row \in Row,
         reads' = [reads EXCEPT ![s] = row],
         UNCHANGED <<chainVars, pc, request, answer, clock>>,
         disturbances' \in {disturbances, disturbances + 1},
         Ordered(row), disturbances' = 0 => Current(s, row)
  PROVE  InRange' /\ ReadsInv'
<1>1. disturbances' \in Nat /\ (disturbances' = 0 => disturbances = 0)
  BY DEF InRange
<1>2. InRange'
  BY <1>1 DEF InRange, chainVars
<1>3. ASSUME NEW t \in Strategies
      PROVE  Ordered(reads'[t]) /\ (disturbances' = 0 => Current(t, reads'[t]))
  BY <1>1 DEF InRange, ReadsInv
<1>4. ASSUME NEW t \in Strategies
      PROVE  /\ APYNow(t)' = APYNow(t) /\ TVLNow(t)' = TVLNow(t)
             /\ UtilizationNow(t)' = UtilizationNow(t) /\ VolatilityNow(t)' = VolatilityNow(t)
  BY DEF APYNow, TVLNow, UtilizationNow, VolatilityNow, chainVars
<1>5. ASSUME NEW t \in Strategies
      PROVE  (Ordered(reads[t]) /\ (disturbances = 0 => Current(t, reads[t])))'
  BY <1>3, <1>4 DEF Current, Ordered, chainVars
<1>6. QED
  BY <1>2, <1>5 DEF ReadsInv

(***************************************************************************)
(* The reads, one action each.                                             *)
(***************************************************************************)
LEMMA ReadStep ==
  ASSUME InRange, ReadsInv, NEW s \in Strategies,
         getHistoricalAPY(s) \/ getTVL(s) \/ ReadTotal(s) \/ ReadBalance(s) \/ getVolatility(s)
  PROVE  InRange' /\ ReadsInv'
<1> DEFINE Learnt(row) ==
             /\ reads' = [reads EXCEPT ![s] = row] /\ row \in Row
             /\ UNCHANGED <<chainVars, pc, request, answer, clock>>
             /\ disturbances' \in {disturbances, disturbances + 1}
             /\ Ordered(row) /\ (disturbances' = 0 => Current(s, row))
           old == reads[s]
<1>0. /\ old \in Row /\ Ordered(old) /\ (disturbances = 0 => Current(s, old))
      /\ worth[s] \in Nat /\ held[s] \in Nat /\ disturbances \in Nat /\ Unknown \notin Int
  BY CalculatorAssumption DEF InRange, ReadsInv
<1>1. ASSUME NEW row, Learnt(row) PROVE InRange' /\ ReadsInv'
  BY <1>1, RowLearnt
<1>2. ASSUME getHistoricalAPY(s) PROVE \E row : Learnt(row)
  <2>1. PICK x \in Nat :
          /\ reads' = [reads EXCEPT ![s] = [old EXCEPT !.apy = x]]
          /\ UNCHANGED <<chainVars, pc, request, answer, clock>>
          /\ disturbances' \in {disturbances, disturbances + 1}
          /\ disturbances' = 0 => disturbances = 0 /\ x = APYNow(s)
    BY <1>0, <1>2, NowInRange
    DEF getHistoricalAPY, Succeeds, Fails, Disturbed, Learn, APYNow
  <2>2. old.apy = Unknown /\ old.volatility = Unknown
    BY <1>0, <1>2 DEF getHistoricalAPY, Reading, Ordered
  <2>3. Learnt([old EXCEPT !.apy = x])
    BY <1>0, <2>1, <2>2 DEF Row, Ordered, Current
  <2>4. QED
    BY <2>3
<1>3. ASSUME getTVL(s) PROVE \E row : Learnt(row)
  <2>1. PICK x \in Nat :
          /\ reads' = [reads EXCEPT ![s] = [old EXCEPT !.tvl = x]]
          /\ UNCHANGED <<chainVars, pc, request, answer, clock>>
          /\ disturbances' \in {disturbances, disturbances + 1}
          /\ disturbances' = 0 => disturbances = 0 /\ x = TVLNow(s)
    BY <1>0, <1>3 DEF getTVL, Succeeds, Fails, Disturbed, Learn, TVLNow
  <2>2. old.tvl = Unknown /\ old.volatility = Unknown
    BY <1>0, <1>3 DEF getTVL, Reading, Ordered
  <2>3. Learnt([old EXCEPT !.tvl = x])
    BY <1>0, <2>1, <2>2 DEF Row, Ordered, Current
  <2>4. QED
    BY <2>3
<1>4. ASSUME ReadTotal(s) PROVE \E row : Learnt(row)
  <2>1. old.utilization = Unknown /\ old.volatility = Unknown
    BY <1>0, <1>4 DEF ReadTotal, Reading, Ordered
  <2>2. CASE Succeeds(s) /\ Learn(s, "total", worth[s])
    <3>1. Learnt([old EXCEPT !.total = worth[s]])
      BY <1>0, <2>1, <2>2 DEF Succeeds, Learn, Row, Ordered, Current
    <3>2. QED
      BY <3>1
  <2>3. CASE Fails(s) /\ Learn(s, "utilization", 9000)
    <3>1. PICK x \in Int :
            /\ Learn(s, "utilization", x)
            /\ disturbances' \in {disturbances, disturbances + 1}
            /\ disturbances' = 0 => disturbances = 0 /\ UtilizationNow(s) = x
      BY <1>0, <2>3 DEF Fails, Disturbed, UtilizationNow
    <3>2. Learnt([old EXCEPT !.utilization = x])
      BY <1>0, <2>1, <3>1 DEF Learn, Row, Ordered, Current
    <3>3. QED
      BY <3>2
  <2>4. QED
    BY <1>4, <2>2, <2>3 DEF ReadTotal
<1>5. ASSUME ReadBalance(s) PROVE \E row : Learnt(row)
  <2>1. /\ old.utilization = Unknown /\ old.volatility = Unknown
        /\ old.total # Unknown
    BY <1>0, <1>5 DEF ReadBalance, Reading, Ordered
  <2>2. CASE UNCHANGED disturbances /\ Learn(s, "utilization", utilizationRate(old.total, held[s]))
    <3>1. old.total \in Nat
      BY <1>0, <2>1 DEF Row
    <3>2. utilizationRate(old.total, held[s]) \in Int
      BY <1>0, <3>1, UtilizationIsInt
    <3>3. disturbances' = 0 => utilizationRate(old.total, held[s]) = UtilizationNow(s)
      BY <1>0, <2>1, <2>2 DEF Current, UtilizationNow
    <3>4. Learnt([old EXCEPT !.utilization = utilizationRate(old.total, held[s])])
      BY <1>0, <2>1, <2>2, <3>2, <3>3 DEF Learn, Row, Ordered, Current
    <3>5. QED
      BY <3>4
  <2>3. CASE Disturbed /\ Learn(s, "utilization", 9000)
    <3>1. PICK x \in Int :
            Learn(s, "utilization", x) /\ disturbances' = disturbances + 1 /\ disturbances' # 0
      BY <1>0, <2>3 DEF Disturbed
    <3>2. Learnt([old EXCEPT !.utilization = x])
      BY <1>0, <2>1, <3>1 DEF Learn, Row, Ordered, Current
    <3>3. QED
      BY <3>2
  <2>4. QED
    BY <1>5, <2>2, <2>3 DEF ReadBalance
<1>6. ASSUME getVolatility(s) PROVE \E row : Learnt(row)
  <2>1. /\ old.volatility = Unknown /\ old.apy # Unknown /\ old.tvl # Unknown
        /\ old.utilization # Unknown /\ old.apy \in Nat
    BY <1>0, <1>6 DEF getVolatility, Reading, Row
  <2>2. PICK x \in Nat :
          /\ reads' = [reads EXCEPT ![s] = [old EXCEPT !.volatility = x]]
          /\ UNCHANGED <<chainVars, pc, request, answer, clock>>
          /\ disturbances' \in {disturbances, disturbances + 1}
          /\ disturbances' = 0 => disturbances = 0 /\ x = VolatilityNow(s)
    <3>1. CASE /\ UNCHANGED disturbances
               /\ Learn(s, "volatility", IF database = Unknown THEN estimateVolatility(old.apy)
                                         ELSE calculateVolatility(database[s].volatility))
      <4> DEFINE x == IF database = Unknown THEN estimateVolatility(old.apy)
                      ELSE calculateVolatility(database[s].volatility)
      <4>1. x \in Nat
        BY <2>1, NowInRange, EstimatesAreNat
      <4>2. disturbances' = 0 => x = VolatilityNow(s)
        BY <1>0, <2>1, <3>1 DEF Current, VolatilityNow
      <4> HIDE DEF x
      <4>3. QED
        BY <1>0, <3>1, <4>1, <4>2 DEF Learn, x
    <3>2. CASE Disturbed /\ Learn(s, "volatility", 500)
      <4>1. PICK x \in Nat :
              Learn(s, "volatility", x) /\ disturbances' = disturbances + 1 /\ disturbances' # 0
        BY <1>0, <3>2 DEF Disturbed
      <4>2. QED
        BY <1>0, <4>1 DEF Learn
    <3>3. QED
      BY <1>6, <3>1, <3>2 DEF getVolatility
  <2>3. Learnt([old EXCEPT !.volatility = x])
    BY <1>0, <2>1, <2>2 DEF Row, Ordered, Current
  <2>4. QED
    BY <2>3
<1> HIDE DEF Learnt
<1>7. QED
  BY <1>1, <1>2, <1>3, <1>4, <1>5, <1>6

(***************************************************************************)
(* The answer, and what may happen besides the reads.                      *)
(***************************************************************************)
LEMMA UnreadIsRow == Unread \in Row /\ Ordered(Unread) /\ \A s : Current(s, Unread)
BY DEF Unread, Row, Ordered, Current

LEMMA AnsweredKeeps ==
  ASSUME InRange, NEW a, Answered(a)
  PROVE  InRange' /\ ReadsInv'
<1>1. \A s \in Strategies : reads'[s] = Unread
  BY DEF Answered
<1>2. InRange'
  BY UnreadIsRow DEF Answered, InRange, chainVars
<1>3. ASSUME NEW s \in Strategies
      PROVE  (Ordered(reads[s]) /\ (disturbances = 0 => Current(s, reads[s])))'
  BY <1>1, UnreadIsRow DEF Ordered, Current, Unread
<1>4. QED
  BY <1>2, <1>3 DEF ReadsInv

\* The answer stands: once there is a payload, neither the chain nor the request
\* changes.
LEMMA ChoiceStands ==
  ASSUME AsIfAtOnce, HandlerNeverFallsBack, UNCHANGED <<answer, request>>,
         Chosen => UNCHANGED <<chainVars, disturbances>>
  PROVE  AsIfAtOnce' /\ HandlerNeverFallsBack'
<1>1. Chosen' <=> Chosen
  BY DEF Chosen
<1>2. ASSUME Chosen
      PROVE  [i \in DOMAIN request.strategies |-> MetricsNow(request.strategies[i])]'
               = [i \in DOMAIN request.strategies |-> MetricsNow(request.strategies[i])]
  <2>1. \A s : MetricsNow(s)' = MetricsNow(s)
    BY <1>2 DEF MetricsNow, chainVars
  <2>2. QED
    BY <2>1
<1>3. HandlerNeverFallsBack'
  BY <1>1 DEF HandlerNeverFallsBack
<1>4. AsIfAtOnce'
  BY <1>1, <1>2 DEF AsIfAtOnce
<1>5. QED
  BY <1>3, <1>4

LEMMA MetricsInRange ==
  ASSUME InRange, ReadsInv, \A s \in Candidates : reads[s].volatility # Unknown
  PROVE  /\ request.strategies \in Seq(Strategies)
         /\ request.minYield \in Int /\ request.maxRisk \in Int
         /\ Metrics \in Seq(Metric) /\ DOMAIN Metrics = DOMAIN request.strategies
         /\ disturbances = 0 => \A i \in DOMAIN Metrics :
                                  Metrics[i] = MetricsNow(request.strategies[i])
<1> DEFINE list == request.strategies
           m(s) == metricsOf(s, reads[s].apy, reads[s].volatility,
                             reads[s].utilization, reads[s].tvl)
<1>1. list \in Seq(Strategies) /\ request.minYield \in Int /\ request.maxRisk \in Int
  BY CalculatorAssumption DEF InRange
<1>2. DOMAIN list = 1 .. Len(list) /\ Len(list) \in Nat
  BY <1>1
<1>3. ASSUME NEW i \in DOMAIN list
      PROVE  /\ m(list[i]) \in Metric
             /\ disturbances = 0 => m(list[i]) = MetricsNow(list[i])
  <2>1. list[i] \in Strategies /\ list[i] \in Candidates
    BY <1>1, <1>2 DEF Candidates, ToSet
  <2> DEFINE s == list[i]
  <2>2. /\ reads[s] \in Row /\ Ordered(reads[s])
        /\ disturbances = 0 => Current(s, reads[s])
        /\ reads[s].volatility # Unknown
    BY <2>1 DEF InRange, ReadsInv
  <2>3. /\ reads[s].apy \in Nat /\ reads[s].tvl \in Nat /\ reads[s].utilization \in Int
        /\ reads[s].volatility \in Nat
    BY <2>2 DEF Row, Ordered
  <2>4. m(s) \in Metric
    BY <2>1, <2>3, MetricInRange
  <2>5. disturbances = 0 => m(s) = MetricsNow(s)
    BY <2>1, <2>2, MetricsAtOnce DEF Current, Ordered
  <2>6. QED
    BY <2>4, <2>5
<1>4. Metrics = [i \in DOMAIN list |-> m(list[i])]
  BY DEF Metrics
<1> HIDE DEF m
<1>5. Metrics \in [1 .. Len(list) -> Metric]
  BY <1>2, <1>3, <1>4
<1>6. Metrics \in Seq(Metric)
  BY <1>2, <1>5
<1>7. QED
  BY <1>1, <1>3, <1>4, <1>6

\* What the handler answers.
LEMMA ChoiceMade ==
  ASSUME InRange, ReadsInv, handleRebalanceRequest
  PROVE  AsIfAtOnce' /\ HandlerNeverFallsBack' /\ PayloadInv'
<1> DEFINE list == request.strategies
           best == calculateOptimalStrategy(Metrics, request.minYield, request.maxRisk)
<1>1. CASE list = <<>>
  <2>1. answer'.status = 2
    BY <1>1 DEF handleRebalanceRequest, Answered
  <2>2. ~Chosen'
    BY <2>1 DEF Chosen
  <2>3. QED
    BY <2>2 DEF AsIfAtOnce, HandlerNeverFallsBack, PayloadInv
<1>2. CASE list # <<>>
  <2>1. PICK later \in {clock, clock + 1} :
          Answered([status |-> 1, newStrategy |-> best.address,
                    fallback |-> ~Meets(best, request.minYield, request.maxRisk),
                    calculated |-> clock, deadline |-> later + Hour,
                    twapStart |-> clock - 26 * Hour, twapEnd |-> clock - Hour])
    BY <1>2 DEF handleRebalanceRequest, calculateTWAPWindow
  <2>2. /\ answer'.newStrategy = best.address
        /\ answer'.fallback = ~Meets(best, request.minYield, request.maxRisk)
        /\ answer'.calculated = clock /\ answer'.deadline = later + Hour
        /\ answer'.twapStart = clock - 26 * Hour /\ answer'.twapEnd = clock - Hour
        /\ pc' = "idle"
        /\ UNCHANGED <<worth, held, answering, database, request, clock, disturbances>>
    BY <2>1 DEF Answered, chainVars
  <2>3. \A s \in Candidates : reads[s].volatility # Unknown
    BY DEF handleRebalanceRequest
  <2>4. /\ list \in Seq(Strategies) /\ request.minYield \in Int /\ request.maxRisk \in Int
        /\ Metrics \in Seq(Metric) /\ DOMAIN Metrics = DOMAIN list
        /\ disturbances = 0 => \A i \in DOMAIN Metrics : Metrics[i] = MetricsNow(list[i])
    BY <2>3, MetricsInRange
  <2>5. Metrics # <<>>
    BY <1>2, <2>4
  <2> DEFINE place == BestPlace(Metrics, request.minYield, request.maxRisk)
             ok == Viable(Metrics, request.minYield, request.maxRisk)
  <2>6. /\ place \in DOMAIN Metrics /\ best = Metrics[place]
        /\ Meets(best, request.minYield, request.maxRisk) <=> ok # {}
    BY <2>4, <2>5, OptimalChoice
  <2>7. best \in Metric
    BY <2>4, <2>6
  <2>8. PayloadInv'
    BY <2>2, CalculatorAssumption DEF PayloadInv, InRange
  <2>9. HandlerNeverFallsBack'
    <3>1. best.apy \in Nat /\ best.riskScore \in Int /\ best.riskScore <= 10000
      BY <2>7 DEF Metric, Scores
    <3>2. request.minYield = 0 /\ request.maxRisk = 10000 =>
            Meets(best, request.minYield, request.maxRisk)
      BY <3>1 DEF Meets
    <3> DEFINE met == Meets(best, request.minYield, request.maxRisk)
    <3>3. answer'.fallback = ~met /\ request' = request
      BY <2>2
    <3>4. request.minYield = 0 /\ request.maxRisk = 10000 => met
      BY <3>2
    <3> HIDE DEF met
    <3>5. met => ~answer'.fallback
      <4> SUFFICES ASSUME met PROVE ~answer'.fallback
        OBVIOUS
      <4>1. (~met) = FALSE
        OBVIOUS
      <4>2. answer'.fallback = FALSE
        BY <3>3, <4>1
      <4>3. QED
        BY <4>2
    <3>6. request'.minYield = 0 /\ request'.maxRisk = 10000 => ~answer'.fallback
      BY <3>3, <3>4, <3>5
    <3>7. QED
      BY <3>6 DEF HandlerNeverFallsBack
  <2>10. AsIfAtOnce'
    <3> SUFFICES ASSUME disturbances = 0 PROVE AsIfAtOnce'
      BY <2>2, Zenon DEF AsIfAtOnce
    <3>1. Metrics = [i \in DOMAIN list |-> MetricsNow(list[i])]
      BY <2>4
    <3>2. [i \in DOMAIN list |-> MetricsNow(list[i])]
            = [i \in DOMAIN list |-> MetricsNow(list[i])]'
      <4>1. \A s : MetricsNow(s)' = MetricsNow(s)
        BY <2>2 DEF MetricsNow
      <4>2. QED
        BY <2>2, <4>1
    <3>3. best.address = list[place]
      <4>1. Metrics[place].address = list[place]
        BY <2>4, <2>6 DEF Metrics, metricsOf
      <4>2. QED
        BY <2>6, <4>1
    <3>4. answer'.newStrategy = list[place] /\ answer'.fallback = (ok = {})
      BY <2>2, <2>6, <3>3, Zenon
    <3>5. QED
      BY <2>2, <3>1, <3>2, <3>4, Zenon DEF AsIfAtOnce
  <2>11. QED
    BY <2>8, <2>9, <2>10
<1>3. QED
  BY <1>1, <1>2

LEMMA CalculatorInit == Init => CalculatorInv
<1> SUFFICES ASSUME Init PROVE CalculatorInv
  OBVIOUS
<1>1. InRange
  <2>1. worth \in [Strategies -> Nat] /\ held \in [Strategies -> Nat]
    BY CalculatorAssumption DEF Init
  <2>2. clock \in Nat
    BY CalculatorAssumption DEF Init
  <2>3. QED
    BY <2>1, <2>2, UnreadIsRow DEF Init, InRange
<1>2. ReadsInv
  BY UnreadIsRow DEF Init, ReadsInv
<1>3. ~Chosen
  BY DEF Init, Chosen, NoAnswer
<1>4. QED
  BY <1>1, <1>2, <1>3 DEF CalculatorInv, PayloadInv, AsIfAtOnce, HandlerNeverFallsBack

LEMMA CalculatorStep == CalculatorInv /\ [Next]_vars => CalculatorInv'
<1> SUFFICES ASSUME CalculatorInv, [Next]_vars PROVE CalculatorInv'
  OBVIOUS
<1>0. InRange /\ ReadsInv /\ PayloadInv /\ AsIfAtOnce /\ HandlerNeverFallsBack
  BY DEF CalculatorInv
\* Steps without a payload before or after.
<1>1. ASSUME ~Chosen', InRange', ReadsInv' PROVE CalculatorInv'
  BY <1>1 DEF CalculatorInv, PayloadInv, AsIfAtOnce, HandlerNeverFallsBack
<1>2. CASE UNCHANGED vars
  <2>1. InRange' /\ ReadsInv'
    BY <1>0, <1>2 DEF InRange, ReadsInv, vars, chainVars, Current, Ordered, APYNow, TVLNow,
                      UtilizationNow, VolatilityNow
  <2>2. AsIfAtOnce' /\ HandlerNeverFallsBack'
    BY <1>0, <1>2, ChoiceStands DEF vars
  <2>3. PayloadInv'
    BY <1>0, <1>2 DEF PayloadInv, Chosen, vars
  <2>4. QED
    BY <2>1, <2>2, <2>3 DEF CalculatorInv
<1>3. CASE Receive
  <2>1. InRange' /\ ReadsInv'
    BY <1>0, <1>3 DEF Receive, InRange, ReadsInv, chainVars, Current, Ordered, APYNow, TVLNow,
                      UtilizationNow, VolatilityNow
  <2>2. ~Chosen'
    BY <1>3 DEF Receive, Chosen, NoAnswer
  <2>3. QED
    BY <1>1, <2>1, <2>2
<1>4. CASE Decrypt
  <2>0. ~Chosen
    BY <1>0, <1>4 DEF Decrypt, PayloadInv
  <2>1. CASE pc' = "metrics" /\ UNCHANGED <<chainVars, request, reads, answer, clock, disturbances>>
    <3>1. InRange' /\ ReadsInv'
      BY <1>0, <2>1 DEF InRange, ReadsInv, chainVars, Current, Ordered, APYNow, TVLNow,
                        UtilizationNow, VolatilityNow
    <3>2. QED
      BY <1>1, <2>0, <2>1, <3>1 DEF Chosen
  <2>2. CASE Answered([status |-> 2, why |-> "decrypt"])
    <3>1. ~Chosen'
      BY <2>2 DEF Answered, Chosen
    <3>2. QED
      BY <1>0, <1>1, <2>2, <3>1, AnsweredKeeps
  <2>3. QED
    BY <1>4, <2>1, <2>2 DEF Decrypt
<1>5. ASSUME NEW s \in Strategies,
             getHistoricalAPY(s) \/ getTVL(s) \/ ReadTotal(s) \/ ReadBalance(s) \/ getVolatility(s)
      PROVE  CalculatorInv'
  <2>1. pc = "metrics" /\ UNCHANGED answer
    BY <1>5 DEF getHistoricalAPY, getTVL, ReadTotal, ReadBalance, getVolatility, Reading, Learn
  <2>2. ~Chosen'
    BY <1>0, <2>1 DEF PayloadInv, Chosen
  <2>3. QED
    BY <1>0, <1>1, <1>5, <2>2, ReadStep
<1>6. CASE handleRebalanceRequest
  <2>1. \E a : Answered(a)
    BY <1>6 DEF handleRebalanceRequest
  <2>2. QED
    BY <1>0, <1>6, <2>1, AnsweredKeeps, ChoiceMade DEF CalculatorInv
<1>7. ASSUME NEW s \in Strategies, NEW v \in Values, NEW h \in Held, Move(s, v, h)
      PROVE  CalculatorInv'
  <2>1. disturbances' \in Nat /\ disturbances' # 0
    BY <1>0, <1>7 DEF Move, Disturbed, InRange
  <2>2. InRange'
    BY <1>0, <1>7, <2>1, CalculatorAssumption DEF Move, InRange
  <2>3. ReadsInv'
    BY <1>0, <1>7, <2>1 DEF Move, ReadsInv, Ordered
  <2>4. ~Chosen'
    BY <1>0, <1>7 DEF Move, PayloadInv, Chosen
  <2>5. QED
    BY <1>1, <2>2, <2>3, <2>4
<1>8. CASE Tick
  <2>1. InRange' /\ ReadsInv'
    BY <1>0, <1>8 DEF Tick, InRange, ReadsInv, chainVars, Current, Ordered, APYNow, TVLNow,
                      UtilizationNow, VolatilityNow
  <2>2. AsIfAtOnce' /\ HandlerNeverFallsBack'
    BY <1>0, <1>8, ChoiceStands DEF Tick
  <2>3. PayloadInv'
    BY <1>0, <1>8 DEF Tick, PayloadInv, Chosen, InRange
  <2>4. QED
    BY <2>1, <2>2, <2>3 DEF CalculatorInv
<1>9. QED
  BY <1>2, <1>3, <1>4, <1>5, <1>6, <1>7, <1>8 DEF Next

LEMMA CalculatorInvariant == Spec => []CalculatorInv
BY CalculatorInit, CalculatorStep, PTL DEF Spec

(***************************************************************************)
(* The properties.                                                         *)
(***************************************************************************)
\* Undisturbed, the handler names the candidate that a single look at all of them
\* gives, in whatever order the awaits of getStrategyMetrics come back.
THEOREM ChoosesAsIfAtOnce == Spec => []AsIfAtOnce
<1>1. CalculatorInv => AsIfAtOnce
  BY DEF CalculatorInv
<1>2. QED
  BY <1>1, CalculatorInvariant, PTL

\* With the limits the handler passes, calculateOptimalStrategy never takes the
\* branch for no viable strategy.
THEOREM FallbackUnused == Spec => []HandlerNeverFallsBack
<1>1. CalculatorInv => HandlerNeverFallsBack
  BY DEF CalculatorInv
<1>2. QED
  BY <1>1, CalculatorInvariant, PTL

\* A payload passes the vault's time checks for an hour after its calculation, and
\* for no more than a second longer.
THEOREM PayloadTimes == Spec => []PayloadLastsAnHour
<1>1. CalculatorInv => PayloadLastsAnHour
  <2> SUFFICES ASSUME CalculatorInv, Chosen PROVE PayloadLastsAnHour
    BY DEF PayloadLastsAnHour
  <2> DEFINE c == answer.calculated
  <2>1. /\ c \in Nat /\ c <= clock /\ clock \in Nat
        /\ answer.deadline \in {c + Hour, c + 1 + Hour}
        /\ answer.twapStart = c - 26 * Hour /\ answer.twapEnd = c - Hour
    BY DEF CalculatorInv, InRange, PayloadInv
  <2>2. Hour \in Nat \ {0} /\ MinTwapWindow = 24 * Hour /\ MaxTwapAge = 2 * Hour
    BY CalculatorAssumption
  <2>3. answer.deadline \in Int /\ answer.twapStart \in Int /\ answer.twapEnd \in Int
    BY <2>1, <2>2
  <2>4. QED
    BY <2>1, <2>2, <2>3 DEF PayloadLastsAnHour
<1>2. QED
  BY <1>1, CalculatorInvariant, PTL
==============================================================================
