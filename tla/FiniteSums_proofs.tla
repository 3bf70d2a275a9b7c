--------------------------- MODULE FiniteSums_proofs ---------------------------
(***************************************************************************)
(* Sums over finite sets, for the proofs about the totals the contracts    *)
(* keep: the pending FAssets of an adapter and the shares of a vault.      *)
(*                                                                         *)
(* The library's induction theorems take a predicate as a parameter.  The  *)
(* inductions here take a set instead, the set of the arguments for which  *)
(* the claim holds, and rest on WFMin: a set of naturals has a least       *)
(* element.                                                                *)
(***************************************************************************)
EXTENDS Integers, FiniteSetsExt, FiniteSetTheorems, TLAPS

\* The sum of f[x] for the x of S, as MapThenSumSet computes it.
SumOver(f, S) ==
  LET iter[s \in SUBSET S] ==
        IF s = {} THEN 0
        ELSE LET x == CHOOSE x \in s : TRUE
             IN  f[x] + iter[s \ {x}]
  IN  iter[S]

\* The element a sum takes first.
First(s) == CHOOSE x \in s : TRUE

(***************************************************************************)
(* Induction.                                                              *)
(***************************************************************************)
LEMMA LeastNat ==
  ASSUME NEW T \in SUBSET Nat, T # {}
  PROVE  \E n \in T : \A m \in T : n <= m
<1> DEFINE R == OpToRel(<, Nat)
<1>1. IsWellFoundedOn(R, Nat)
  BY NatLessThanWellFounded
<1>2. \A x, y \in Nat : y < x => <<y, x>> \in R
  BY DEF OpToRel
<1> HIDE DEF R
<1>3. PICK x \in T : \A y \in T : ~(<<y, x>> \in R)
  BY <1>1, WFMin
<1>4. ASSUME NEW m \in T
      PROVE  x <= m
  <2>1. m \in Nat /\ x \in Nat
    OBVIOUS
  <2>2. ~(m < x)
    BY <1>2, <1>3, <2>1
  <2>3. QED
    BY <2>1, <2>2
<1>5. QED
  BY <1>4

\* A set of subsets of S that holds a set whenever it holds the set without
\* any one of its elements is the set of all of them.
LEMMA SubsetInduction ==
  ASSUME NEW S, IsFiniteSet(S), NEW G, {} \in G,
         \A U \in SUBSET S : U # {} /\ (\A x \in U : U \ {x} \in G) => U \in G
  PROVE  \A U \in SUBSET S : U \in G
<1> SUFFICES ASSUME \E U \in SUBSET S : U \notin G PROVE FALSE
  OBVIOUS
<1> DEFINE Sizes == {Cardinality(U) : U \in {V \in SUBSET S : V \notin G}}
<1>1. \A U \in SUBSET S : IsFiniteSet(U) /\ Cardinality(U) \in Nat
  BY FS_Subset, FS_CardinalityType
<1>2. Sizes \in SUBSET Nat /\ Sizes # {}
  BY <1>1
<1>3. PICK n \in Sizes : \A m \in Sizes : n <= m
  BY <1>2, LeastNat
<1>4. PICK U \in SUBSET S : U \notin G /\ n = Cardinality(U)
  OBVIOUS
<1>5. \A V \in SUBSET S : V \notin G => n <= Cardinality(V)
  BY <1>3
<1>6. ASSUME NEW x \in U
      PROVE  U \ {x} \in G
  <2>1. Cardinality(U \ {x}) = Cardinality(U) - 1
    BY <1>1, FS_RemoveElement
  <2>2. U \ {x} \in SUBSET S
    OBVIOUS
  <2>3. ~(n <= Cardinality(U \ {x}))
    BY <1>1, <1>4, <2>1
  <2>4. QED
    BY <1>5, <2>2, <2>3
<1>7. U # {}
  BY <1>4
<1>8. QED
  BY <1>4, <1>6, <1>7

(***************************************************************************)
(* The recursion of SumOver has a solution, and only one.                  *)
(***************************************************************************)
\* One step of the recursion, with h in the place of the sum.
SumStep(f, h, s) == IF s = {} THEN 0 ELSE f[First(s)] + h[s \ {First(s)}]

\* h solves the recursion on the subsets of S.
Solves(h, f, S) == h = [s \in SUBSET S |-> SumStep(f, h, s)]

LEMMA FirstIn == ASSUME NEW s, s # {} PROVE First(s) \in s
BY DEF First

\* The subsets of S with at most n elements.
UpTo(S, n) == {s \in SUBSET S : Cardinality(s) <= n}

LEMMA SumExists ==
  ASSUME NEW f, NEW S, IsFiniteSet(S)
  PROVE  \E h : Solves(h, f, S)
<1> DEFINE Built == {n \in Nat : \E h : h = [s \in UpTo(S, n) |-> SumStep(f, h, s)]}
<1>1. \A U \in SUBSET S : IsFiniteSet(U) /\ Cardinality(U) \in Nat
  BY FS_Subset, FS_CardinalityType
<1>2. 0 \in Built
  <2> DEFINE h == [s \in UpTo(S, 0) |-> 0]
  <2>1. \A s \in UpTo(S, 0) : s = {}
    BY <1>1, FS_EmptySet DEF UpTo
  <2>2. h = [s \in UpTo(S, 0) |-> SumStep(f, h, s)]
    BY <2>1 DEF SumStep
  <2>3. QED
    BY <2>2
<1>3. ASSUME NEW n \in Built
      PROVE  n + 1 \in Built
  <2>1. PICK h : h = [s \in UpTo(S, n) |-> SumStep(f, h, s)]
    OBVIOUS
  <2> DEFINE g == [s \in UpTo(S, n + 1) |-> SumStep(f, h, s)]
  <2>2. \A t \in UpTo(S, n) : t \in UpTo(S, n + 1)
    BY <1>1 DEF UpTo
  <2>3. \A t \in UpTo(S, n) : g[t] = h[t]
    BY <2>1, <2>2
  <2>4. ASSUME NEW s \in UpTo(S, n + 1), s # {}
        PROVE  s \ {First(s)} \in UpTo(S, n)
    <3>1. Cardinality(s \ {First(s)}) = Cardinality(s) - 1
      BY <1>1, <2>4, FirstIn, FS_RemoveElement DEF UpTo
    <3>2. QED
      BY <1>1, <3>1 DEF UpTo
  <2>5. \A s \in UpTo(S, n + 1) : SumStep(f, h, s) = SumStep(f, g, s)
    BY <2>3, <2>4 DEF SumStep
  <2>6. g = [s \in UpTo(S, n + 1) |-> SumStep(f, g, s)]
    BY <2>5
  <2>7. n + 1 \in Nat
    OBVIOUS
  <2>8. QED
    BY <2>6, <2>7
<1>4. Cardinality(S) \in Built
  <2> HIDE DEF Built
  <2>1. Cardinality(S) \in Nat
    BY <1>1
  <2>2. Built \in SUBSET Nat
    BY DEF Built
  <2> SUFFICES ASSUME Cardinality(S) \notin Built PROVE FALSE
    OBVIOUS
  <2>3. PICK n \in Nat \ Built : \A m \in Nat \ Built : n <= m
    BY <2>1, LeastNat
  <2>4. n # 0 /\ n - 1 \in Nat
    BY <1>2
  <2>5. n - 1 \in Built
    BY <2>3, <2>4
  <2>6. (n - 1) + 1 = n
    OBVIOUS
  <2>7. QED
    BY <1>3, <2>5, <2>6
<1>5. UpTo(S, Cardinality(S)) = SUBSET S
  BY <1>1, FS_Subset DEF UpTo
<1>6. QED
  BY <1>4, <1>5 DEF Solves

\* What SumOver chooses is such a solution.
LEMMA SumIterates ==
  ASSUME NEW f, NEW S, IsFiniteSet(S)
  PROVE  \E h : /\ Solves(h, f, S)
                /\ SumOver(f, S) = h[S]
<1> DEFINE P(h) == h = [s \in SUBSET S |-> IF s = {} THEN 0
                          ELSE f[CHOOSE x \in s : TRUE] + h[s \ {CHOOSE x \in s : TRUE}]]
<1>0. \A h : P(h) <=> Solves(h, f, S)
  BY DEF Solves, SumStep, First
<1>1. \E h : P(h)
  <2> HIDE DEF P
  <2>1. QED
    BY <1>0, SumExists
<1>2. SumOver(f, S) = (CHOOSE h : P(h))[S]
  BY DEF SumOver
<1>3. P(CHOOSE h : P(h))
  <2> HIDE DEF P
  <2>1. QED
    BY <1>1
<1>4. QED
  <2> HIDE DEF P
  <2>1. QED
    BY <1>0, <1>2, <1>3

\* A solution on the subsets of S computes the sum of every one of them.
LEMMA SumUnique ==
  ASSUME NEW f, NEW S, IsFiniteSet(S), NEW h, Solves(h, f, S)
  PROVE  \A T \in SUBSET S : SumOver(f, T) = h[T]
<1> SUFFICES ASSUME NEW T \in SUBSET S PROVE SumOver(f, T) = h[T]
  OBVIOUS
<1>1. IsFiniteSet(T)
  BY FS_Subset
<1>2. PICK g : /\ Solves(g, f, T)
               /\ SumOver(f, T) = g[T]
  BY <1>1, SumIterates
<1> DEFINE G == {s \in SUBSET T : g[s] = h[s]}
<1>3. ASSUME NEW s \in SUBSET T
      PROVE  g[s] = SumStep(f, g, s) /\ h[s] = SumStep(f, h, s)
  <2>1. s \in SUBSET S
    OBVIOUS
  <2>2. QED
    BY <1>2, <2>1 DEF Solves
<1>4. {} \in G
  BY <1>3 DEF SumStep
<1>5. ASSUME NEW s \in SUBSET T, s # {}, \A x \in s : s \ {x} \in G
      PROVE  s \in G
  <2>1. s \ {First(s)} \in G
    BY <1>5, FirstIn
  <2>2. QED
    BY <1>3, <1>5, <2>1 DEF SumStep
<1>6. \A s \in SUBSET T : s \in G
  <2> HIDE DEF G
  <2>1. QED
    BY <1>1, <1>4, <1>5, SubsetInduction
<1>7. QED
  BY <1>2, <1>6

(***************************************************************************)
(* What the proofs use.                                                    *)
(***************************************************************************)
\* The equation of the recursion.
LEMMA SumEquation ==
  ASSUME NEW f, NEW S, IsFiniteSet(S)
  PROVE  /\ SumOver(f, {}) = 0
         /\ S # {} => SumOver(f, S) = f[First(S)] + SumOver(f, S \ {First(S)})
<1>1. PICK h : Solves(h, f, S)
  BY SumExists
<1>2. \A s \in SUBSET S : SumOver(f, s) = h[s]
  BY <1>1, SumUnique
<1>3. \A s \in SUBSET S : SumOver(f, s) = SumStep(f, h, s)
  BY <1>1, <1>2 DEF Solves
<1>4. {} \in SUBSET S /\ S \in SUBSET S /\ S \ {First(S)} \in SUBSET S
  OBVIOUS
<1>5. QED
  BY <1>2, <1>3, <1>4 DEF SumStep

\* A sum of naturals is a natural number.
LEMMA SumType ==
  ASSUME NEW f, NEW S, IsFiniteSet(S), \A x \in S : f[x] \in Nat
  PROVE  SumOver(f, S) \in Nat
<1> DEFINE G == {s \in SUBSET S : SumOver(f, s) \in Nat}
<1>0. SumOver(f, {}) = 0
  BY SumEquation
<1>1. {} \in G
  BY <1>0
<1>2. ASSUME NEW s \in SUBSET S, s # {}, \A x \in s : s \ {x} \in G
      PROVE  s \in G
  <2>1. First(s) \in s /\ f[First(s)] \in Nat /\ IsFiniteSet(s)
    BY <1>2, FirstIn, FS_Subset
  <2>2. SumOver(f, s \ {First(s)}) \in Nat
    BY <1>2, <2>1
  <2>3. QED
    BY <1>2, <2>1, <2>2, SumEquation
<1>3. \A s \in SUBSET S : s \in G
  <2> HIDE DEF G
  <2>1. QED
    BY <1>1, <1>2, SubsetInduction, Zenon
<1>4. QED
  BY <1>3

\* Any element may be taken first.
LEMMA SumRemove ==
  ASSUME NEW f, NEW S, IsFiniteSet(S), \A x \in S : f[x] \in Nat, NEW x \in S
  PROVE  SumOver(f, S) = f[x] + SumOver(f, S \ {x})
<1> DEFINE G == {s \in SUBSET S : \A y \in s : SumOver(f, s) = f[y] + SumOver(f, s \ {y})}
<1>1. {} \in G
  OBVIOUS
<1>2. ASSUME NEW s \in SUBSET S, s # {}, \A y \in s : s \ {y} \in G
      PROVE  s \in G
  <2> DEFINE p == First(s)
  <2>1. p \in s /\ IsFiniteSet(s)
    BY <1>2, FirstIn, FS_Subset
  <2>2. SumOver(f, s) = f[p] + SumOver(f, s \ {p})
    BY <1>2, <2>1, SumEquation
  <2> HIDE DEF p
  <2>3. ASSUME NEW y \in s, y # p
        PROVE  SumOver(f, s) = f[y] + SumOver(f, s \ {y})
    <3> DEFINE r == (s \ {p}) \ {y}
    <3>1. SumOver(f, s \ {p}) = f[y] + SumOver(f, r)
      BY <1>2, <2>1, <2>3
    <3>2. SumOver(f, s \ {y}) = f[p] + SumOver(f, (s \ {y}) \ {p})
      BY <1>2, <2>1, <2>3
    <3>3. (s \ {y}) \ {p} = r
      OBVIOUS
    <3>4. SumOver(f, r) \in Nat
      BY SumType, FS_Subset
    <3>5. f[p] \in Nat /\ f[y] \in Nat
      BY <2>1
    <3> HIDE DEF r
    <3>6. QED
      BY <2>2, <3>1, <3>2, <3>3, <3>4, <3>5
  <2>4. QED
    BY <2>2, <2>3
<1>3. \A s \in SUBSET S : s \in G
  <2> HIDE DEF G
  <2>1. QED
    BY <1>1, <1>2, SubsetInduction, Zenon
<1>4. QED
  BY <1>3

\* The sum depends on what f is on S only.
LEMMA SumSame ==
  ASSUME NEW f, NEW g, NEW S, IsFiniteSet(S), \A x \in S : f[x] = g[x]
  PROVE  SumOver(f, S) = SumOver(g, S)
<1> DEFINE G == {s \in SUBSET S : SumOver(f, s) = SumOver(g, s)}
<1>1. {} \in G
  BY SumEquation
<1>2. ASSUME NEW s \in SUBSET S, s # {}, \A x \in s : s \ {x} \in G
      PROVE  s \in G
  <2>1. First(s) \in s /\ IsFiniteSet(s)
    BY <1>2, FirstIn, FS_Subset
  <2>2. f[First(s)] = g[First(s)] /\ SumOver(f, s \ {First(s)}) = SumOver(g, s \ {First(s)})
    BY <1>2, <2>1
  <2>3. QED
    BY <1>2, <2>1, <2>2, SumEquation
<1>3. \A s \in SUBSET S : s \in G
  <2> HIDE DEF G
  <2>1. QED
    BY <1>1, <1>2, SubsetInduction, Zenon
<1>4. QED
  BY <1>3

\* One summand changes.
LEMMA SumUpdate ==
  ASSUME NEW f, NEW g, NEW S, IsFiniteSet(S), NEW x \in S,
         \A y \in S : f[y] \in Nat /\ g[y] \in Nat,
         \A y \in S \ {x} : f[y] = g[y]
  PROVE  SumOver(g, S) = SumOver(f, S) - f[x] + g[x]
<1>1. /\ SumOver(f, S) = f[x] + SumOver(f, S \ {x})
      /\ SumOver(g, S) = g[x] + SumOver(g, S \ {x})
  BY SumRemove
<1>2. IsFiniteSet(S \ {x})
  BY FS_Subset
<1>3. SumOver(f, S \ {x}) = SumOver(g, S \ {x}) /\ SumOver(f, S \ {x}) \in Nat
  BY <1>2, SumSame, SumType
<1>4. QED
  BY <1>1, <1>3

\* Each summand is at most the sum.
LEMMA SumBounds ==
  ASSUME NEW f, NEW S, IsFiniteSet(S), \A x \in S : f[x] \in Nat, NEW x \in S
  PROVE  f[x] <= SumOver(f, S)
<1>1. SumOver(f, S \ {x}) \in Nat
  BY SumType, FS_Subset
<1>2. QED
  BY <1>1, SumRemove

\* Nothing to sum.
LEMMA SumZero ==
  ASSUME NEW f, NEW S, IsFiniteSet(S), \A x \in S : f[x] = 0
  PROVE  SumOver(f, S) = 0
<1> DEFINE G == {s \in SUBSET S : SumOver(f, s) = 0}
<1>1. {} \in G
  BY SumEquation
<1>2. ASSUME NEW s \in SUBSET S, s # {}, \A x \in s : s \ {x} \in G
      PROVE  s \in G
  <2>1. First(s) \in s /\ IsFiniteSet(s)
    BY <1>2, FirstIn, FS_Subset
  <2>2. f[First(s)] = 0 /\ SumOver(f, s \ {First(s)}) = 0
    BY <1>2, <2>1
  <2>3. QED
    BY <1>2, <2>1, <2>2, SumEquation
<1>3. \A s \in SUBSET S : s \in G
  <2> HIDE DEF G
  <2>1. QED
    BY <1>1, <1>2, SubsetInduction, Zenon
<1>4. QED
  BY <1>3

\* Summands in a fixed ratio, at most, have sums in that ratio, at most.
LEMMA SumRatio ==
  ASSUME NEW f, NEW g, NEW S, IsFiniteSet(S), NEW a \in Nat, NEW b \in Nat,
         \A x \in S : f[x] \in Nat /\ g[x] \in Nat,
         \A x \in S : g[x] * b <= f[x] * a
  PROVE  SumOver(g, S) * b <= SumOver(f, S) * a
<1> DEFINE G == {s \in SUBSET S : SumOver(g, s) * b <= SumOver(f, s) * a}
<1>1. {} \in G
  <2>1. SumOver(g, {}) = 0 /\ SumOver(f, {}) = 0
    BY SumEquation
  <2>2. QED
    BY <2>1
<1>2. ASSUME NEW s \in SUBSET S, s # {}, \A x \in s : s \ {x} \in G
      PROVE  s \in G
  <2> DEFINE x == First(s)
             r == s \ {x}
  <2>1. x \in s /\ x \in S /\ IsFiniteSet(s) /\ IsFiniteSet(r)
    BY <1>2, FirstIn, FS_Subset
  <2>2. /\ SumOver(f, s) = f[x] + SumOver(f, r)
        /\ SumOver(g, s) = g[x] + SumOver(g, r)
    BY <1>2, <2>1, SumEquation
  <2>3. SumOver(f, r) \in Nat /\ SumOver(g, r) \in Nat
    BY <2>1, SumType
  <2>4. SumOver(g, r) * b <= SumOver(f, r) * a
    BY <1>2, <2>1
  <2>5. f[x] \in Nat /\ g[x] \in Nat /\ g[x] * b <= f[x] * a
    BY <2>1
  <2> HIDE DEF x, r
  <2>6. /\ (f[x] + SumOver(f, r)) * a = f[x] * a + SumOver(f, r) * a
        /\ (g[x] + SumOver(g, r)) * b = g[x] * b + SumOver(g, r) * b
    BY <2>3, <2>5
  <2>7. /\ f[x] * a \in Nat /\ SumOver(f, r) * a \in Nat
        /\ g[x] * b \in Nat /\ SumOver(g, r) * b \in Nat
    BY <2>3, <2>5
  <2>8. SumOver(g, s) * b <= SumOver(f, s) * a
    BY <2>2, <2>4, <2>5, <2>6, <2>7
  <2>9. QED
    BY <2>8
<1>3. \A s \in SUBSET S : s \in G
  <2> HIDE DEF G
  <2>1. QED
    BY <1>1, <1>2, SubsetInduction, Zenon
<1>4. QED
  BY <1>3
================================================================================
