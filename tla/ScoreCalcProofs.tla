---------------------------- MODULE ScoreCalcProofs ----------------------------
(***************************************************************************)
(* Proofs about the service's arithmetic, for every assessment: whatever   *)
(* has been selected and graded, a score is null or within 0..100%.        *)
(*                                                                         *)
(* The sums and the product are folds over finite sets; what they return   *)
(* is proved by picking a smallest subset on which the claim would fail.   *)
(***************************************************************************)
EXTENDS ScoreCalc, FiniteSetTheorems, WellFoundedInduction, TLAPS

-----------------------------------------------------------------------------
(***************************************************************************)
(* Sums and products over a finite set                                     *)
(***************************************************************************)
\* The element that a fold takes next, and the recursions of MapThenSumSet (op is
\* "sum") and ProductSet (op is "product") over the values F of the elements.
One(s) == CHOOSE x \in s : TRUE
Unit(op) == IF op = "sum" THEN 0 ELSE 1
Combine(op, x, y) == IF op = "sum" THEN x + y ELSE x * y
FoldStep(op, F, g, s) == IF s = {} THEN Unit(op) ELSE Combine(op, F[One(s)], g[s \ {One(s)}])
IsFold(op, g, F, S) == g = [s \in SUBSET S |-> FoldStep(op, F, g, s)]
IsSum(g, F, S) == IsFold("sum", g, F, S)

LEMMA OneOf == ASSUME NEW s, s # {} PROVE One(s) \in s
BY DEF One

\* Of the subsets of a finite set in B one is minimal.
LEMMA MinimalSubset ==
    ASSUME NEW S, IsFiniteSet(S), NEW B \in SUBSET SUBSET S, B # {}
    PROVE  \E u \in B : \A v \in B : v \subseteq u => v = u
<1>1. IsWellFoundedOn(StrictSubsetOrdering(S), FiniteSubsetsOf(S))
  BY FS_StrictSubsetOrderingWellFounded
<1>2. B \subseteq FiniteSubsetsOf(S)
  BY FS_Subset DEF FiniteSubsetsOf
<1>3. PICK u \in B : \A v \in B : <<v, u>> \notin StrictSubsetOrdering(S)
  BY <1>1, <1>2, WFMin
<1> QED
  BY <1>2, <1>3 DEF StrictSubsetOrdering, FiniteSubsetsOf

\* Two recursions over the same values agree where both are defined.
LEMMA FoldUnique ==
    ASSUME NEW op, NEW S, NEW T, IsFiniteSet(S), NEW F, NEW g, NEW k, IsFold(op, g, F, S), IsFold(op, k, F, T)
    PROVE  \A w \in SUBSET S : w \subseteq T => g[w] = k[w]
<1> DEFINE B == {w \in SUBSET S : w \subseteq T /\ g[w] # k[w]}
<1> SUFFICES ASSUME B # {} PROVE FALSE
  OBVIOUS
<1>0. B \in SUBSET SUBSET S
  OBVIOUS
<1> HIDE DEF B
<1>1. PICK u \in B : \A v \in B : v \subseteq u => v = u
  BY <1>0, MinimalSubset
<1> USE DEF B
<1>2. g[u] = FoldStep(op, F, g, u) /\ k[u] = FoldStep(op, F, k, u)
  BY DEF IsFold
<1>3. u # {}
  BY <1>2 DEF FoldStep
<1>4. One(u) \in u
  BY <1>3, OneOf
<1>5. g[u \ {One(u)}] = k[u \ {One(u)}]
  BY <1>1, <1>4
<1> QED
  BY <1>1, <1>2, <1>5 DEF FoldStep

\* The recursion has a solution.
LEMMA FoldExists ==
    ASSUME NEW op, NEW S, IsFiniteSet(S), NEW F
    PROVE  \E g : IsFold(op, g, F, S)
<1> DEFINE B == {w \in SUBSET S : ~\E g : IsFold(op, g, F, w)}
<1>a. S \notin B => \E g : IsFold(op, g, F, S)
  OBVIOUS
<1> SUFFICES ASSUME B # {} PROVE FALSE
  BY <1>a
<1>0. B \in SUBSET SUBSET S
  OBVIOUS
<1> HIDE DEF B
<1>1. PICK u \in B : \A v \in B : v \subseteq u => v = u
  BY <1>0, MinimalSubset
<1> USE DEF B
<1> DEFINE Below(v) == CHOOSE g : IsFold(op, g, F, v)
           Step(s) == IF s = {} THEN Unit(op)
                      ELSE Combine(op, F[One(s)], Below(s \ {One(s)})[s \ {One(s)}])
           G == [s \in SUBSET u |-> Step(s)]
<1>2. ASSUME NEW v \in SUBSET u, v # u PROVE IsFold(op, Below(v), F, v) /\ IsFiniteSet(v)
  <2>1. v \in SUBSET S /\ \E g : IsFold(op, g, F, v)
    BY <1>1, <1>2
  <2>2. IsFold(op, Below(v), F, v)
    BY <2>1
  <2> HIDE DEF B, Below
  <2> QED
    BY <2>1, <2>2, FS_Subset
<1> HIDE DEF Below
<1>3. ASSUME NEW v \in SUBSET u, v # u PROVE Below(v)[v] = Step(v)
  <2>1. Below(v)[v] = FoldStep(op, F, Below(v), v)
    BY <1>2, <1>3 DEF IsFold
  <2>2. CASE v # {}
    <3> DEFINE w == v \ {One(v)}
    <3>1. w \in SUBSET v /\ w \in SUBSET u /\ w # u
      BY <1>3, <2>2, OneOf
    <3>2. IsFold(op, Below(v), F, v) /\ IsFiniteSet(v) /\ IsFold(op, Below(w), F, w)
      BY <1>2, <1>3, <3>1
    <3> HIDE DEF w
    <3>3. Below(v)[w] = Below(w)[w]
      BY <3>1, <3>2, FoldUnique
    <3> USE DEF w
    <3> QED
      BY <2>1, <2>2, <3>3 DEF FoldStep
  <2> QED
    BY <2>1, <2>2 DEF FoldStep
<1>4. ASSUME NEW s \in SUBSET u PROVE Step(s) = FoldStep(op, F, G, s)
  <2>1. CASE s # {}
    <3> DEFINE w == s \ {One(s)}
    <3>1. w \in SUBSET u /\ w # u
      BY <2>1, OneOf
    <3>2. Below(w)[w] = G[w]
      BY <1>3, <3>1
    <3> QED
      BY <2>1, <3>2 DEF FoldStep
  <2> QED
    BY <2>1 DEF FoldStep
<1>5. IsFold(op, G, F, u)
  BY <1>4 DEF IsFold
<1> QED
  BY <1>1, <1>5

\* A sum of integers is an integer, of naturals a natural; and as many values of at
\* most b as there are make at most that many times b.
LEMMA SumOfInts ==
    ASSUME NEW S, IsFiniteSet(S), NEW F, \A x \in S : F[x] \in Int, NEW g, IsSum(g, F, S)
    PROVE  \A w \in SUBSET S : g[w] \in Int
<1> DEFINE B == {w \in SUBSET S : g[w] \notin Int}
<1> SUFFICES ASSUME B # {} PROVE FALSE
  OBVIOUS
<1>0. B \in SUBSET SUBSET S
  OBVIOUS
<1> HIDE DEF B
<1>1. PICK u \in B : \A v \in B : v \subseteq u => v = u
  BY <1>0, MinimalSubset
<1> USE DEF B
<1>2. g[u] = FoldStep("sum", F, g, u)
  BY DEF IsSum, IsFold
<1>3. u # {}
  BY <1>1, <1>2 DEF FoldStep, Combine, Unit
<1>4. One(u) \in u
  BY <1>3, OneOf
<1>5. g[u \ {One(u)}] \in Int /\ F[One(u)] \in Int
  BY <1>1, <1>4
<1> QED
  BY <1>1, <1>2, <1>3, <1>5 DEF FoldStep, Combine, Unit

LEMMA SumAtMost ==
    ASSUME NEW S, IsFiniteSet(S), NEW b \in Nat, NEW F, \A x \in S : F[x] \in 0..b, NEW g, IsSum(g, F, S)
    PROVE  \A w \in SUBSET S : g[w] \in 0..(Cardinality(w) * b)
<1> DEFINE B == {w \in SUBSET S : g[w] \notin 0..(Cardinality(w) * b)}
<1> SUFFICES ASSUME B # {} PROVE FALSE
  OBVIOUS
<1>0. B \in SUBSET SUBSET S
  OBVIOUS
<1> HIDE DEF B
<1>1. PICK u \in B : \A v \in B : v \subseteq u => v = u
  BY <1>0, MinimalSubset
<1> USE DEF B
<1>2. g[u] = FoldStep("sum", F, g, u)
  BY DEF IsSum, IsFold
<1>3. u # {}
  <2>1. u = {} => g[u] = 0 /\ Cardinality(u) * b = 0
    BY <1>2, FS_EmptySet DEF FoldStep, Combine, Unit
  <2> QED
    BY <1>1, <2>1
<1>4. One(u) \in u
  BY <1>3, OneOf
<1> DEFINE w == u \ {One(u)}
           n == Cardinality(w)
<1>5. g[w] \in 0..(n * b) /\ F[One(u)] \in 0..b
  BY <1>1, <1>4
<1>6. n \in Nat /\ Cardinality(u) = n + 1
  <2>1. IsFiniteSet(u) /\ IsFiniteSet(w)
    BY FS_Subset
  <2> QED
    BY <1>4, <2>1, FS_RemoveElement, FS_CardinalityType
<1>7. g[u] = F[One(u)] + g[w]
  BY <1>2, <1>3 DEF FoldStep, Combine, Unit
<1> HIDE DEF w, n
<1>8. (n + 1) * b = n * b + b /\ n * b \in Nat
  BY <1>6
<1>9. g[u] \in 0..((n + 1) * b)
  BY <1>5, <1>7, <1>8
<1> QED
  BY <1>1, <1>6, <1>9

LEMMA SumOfNats ==
    ASSUME NEW S, IsFiniteSet(S), NEW F, \A x \in S : F[x] \in Nat, NEW g, IsSum(g, F, S)
    PROVE  \A w \in SUBSET S : g[w] \in Nat
<1> DEFINE B == {w \in SUBSET S : g[w] \notin Nat}
<1> SUFFICES ASSUME B # {} PROVE FALSE
  OBVIOUS
<1>0. B \in SUBSET SUBSET S
  OBVIOUS
<1> HIDE DEF B
<1>1. PICK u \in B : \A v \in B : v \subseteq u => v = u
  BY <1>0, MinimalSubset
<1> USE DEF B
<1>2. g[u] = FoldStep("sum", F, g, u)
  BY DEF IsSum, IsFold
<1>3. u # {}
  BY <1>1, <1>2 DEF FoldStep, Combine, Unit
<1>4. One(u) \in u
  BY <1>3, OneOf
<1>5. g[u \ {One(u)}] \in Nat /\ F[One(u)] \in Nat
  BY <1>1, <1>4
<1> QED
  BY <1>1, <1>2, <1>3, <1>5 DEF FoldStep, Combine, Unit

\* A sum does not depend on the order in which its terms are taken.
IntSum(g, F, S) == IsFiniteSet(S) /\ (\A x \in S : F[x] \in Int) /\ IsSum(g, F, S)
Splits(g, F, S) == \A w \in SUBSET S : \A x \in w : g[w] = F[x] + g[w \ {x}]

LEMMA SumSplit ==
    ASSUME NEW S, NEW F, NEW g, IntSum(g, F, S)
    PROVE  Splits(g, F, S)
<1> USE DEF IntSum, Splits
<1> DEFINE B == {w \in SUBSET S : \E x \in w : g[w] # F[x] + g[w \ {x}]}
<1> SUFFICES ASSUME B # {} PROVE FALSE
  OBVIOUS
<1>0. B \in SUBSET SUBSET S
  OBVIOUS
<1> HIDE DEF B
<1>1. PICK u \in B : \A v \in B : v \subseteq u => v = u
  BY <1>0, MinimalSubset
<1> USE DEF B
<1>2. PICK x \in u : g[u] # F[x] + g[u \ {x}]
  BY <1>1
<1> DEFINE y == One(u)
           v == u \ {x, y}
<1>3. y \in u
  BY <1>2, OneOf
<1>4. g[u] = F[y] + g[u \ {y}]
  BY <1>2 DEF IsSum, IsFold, FoldStep, Combine, Unit
<1> HIDE DEF y
<1>5. x # y
  BY <1>2, <1>4
<1>6. u \ {x} \notin B /\ u \ {y} \notin B
  BY <1>1, <1>2, <1>3
<1>7. g[u \ {y}] = F[x] + g[(u \ {y}) \ {x}] /\ g[u \ {x}] = F[y] + g[(u \ {x}) \ {y}]
  BY <1>3, <1>5, <1>6
<1>8. (u \ {y}) \ {x} = v /\ (u \ {x}) \ {y} = v /\ v \in SUBSET S
  OBVIOUS
<1>9. g[v] \in Int /\ F[x] \in Int /\ F[y] \in Int
  BY <1>3, <1>8, SumOfInts
<1> DEFINE gu == g[u]
           gx == g[u \ {x}]
           gy == g[u \ {y}]
           gv == g[v]
           fx == F[x]
           fy == F[y]
<1>10. /\ gu = fy + gy /\ gy = fx + gv /\ gx = fy + gv
       /\ gv \in Int /\ fx \in Int /\ fy \in Int
  <2>1. g[(u \ {y}) \ {x}] = gv /\ g[(u \ {x}) \ {y}] = gv
    BY <1>8
  <2> QED
    BY <1>4, <1>7, <1>9, <2>1
<1>11. gu # fx + gx
  BY <1>2
<1> HIDE DEF gu, gx, gy, gv, fx, fy
<1> QED
  BY <1>10, <1>11

\* Values matched one by one with values that are at least as large.
Matches(h, S, T) ==
    /\ \A x \in S : h[x] \in T
    /\ \A y \in T : \E x \in S : h[x] = y
    /\ \A x, y \in S : h[x] = h[y] => x = y

LEMMA SumCompare ==
    ASSUME NEW S, NEW T, NEW h, Matches(h, S, T),
           NEW F, NEW g, IntSum(g, F, S), NEW G, NEW k, IntSum(k, G, T),
           \A x \in S : F[x] <= G[h[x]]
    PROVE  g[S] <= k[T]
<1>0. IsFiniteSet(S) /\ IsSum(g, F, S) /\ IsFiniteSet(T) /\ IsSum(k, G, T)
  BY DEF IntSum
<1>a. Splits(g, F, S) /\ Splits(k, G, T)
  BY SumSplit
<1>b. \A w \in SUBSET S : \A x \in w : g[w] = F[x] + g[w \ {x}]
  BY <1>a DEF Splits
<1>c. \A w \in SUBSET T : \A x \in w : k[w] = G[x] + k[w \ {x}]
  BY <1>a DEF Splits
<1>i. (\A w \in SUBSET S : g[w] \in Int) /\ (\A w \in SUBSET T : k[w] \in Int)
  BY SumOfInts DEF IntSum
<1>d. \A x \in S : F[x] \in Int
  BY DEF IntSum
<1>e. \A y \in T : G[y] \in Int
  BY DEF IntSum
<1> DEFINE Image(w) == {h[x] : x \in w}
           B == {w \in SUBSET S : ~(g[w] <= k[Image(w)])}
<1>f. Image(S) = T
  BY DEF Matches
<1> SUFFICES ASSUME B # {} PROVE FALSE
  BY <1>f
<1>s. B \in SUBSET SUBSET S
  OBVIOUS
<1> HIDE DEF B
<1>1. PICK u \in B : \A v \in B : v \subseteq u => v = u
  BY <1>0, <1>s, MinimalSubset
<1> USE DEF B
<1>2. u # {}
  <2>1. u = {} => g[u] = 0 /\ Image(u) = {} /\ k[{}] = 0
    BY <1>0 DEF IsSum, IsFold, FoldStep, Unit
  <2>2. u = {} => g[u] = 0 /\ k[Image(u)] = 0
    BY <2>1
  <2>3. ~(g[u] <= k[Image(u)])
    BY <1>1
  <2> HIDE DEF Image
  <2> QED
    BY <2>2, <2>3
<1> DEFINE x == One(u)
           v == u \ {x}
<1>3. x \in u /\ x \in S /\ v \in SUBSET S /\ v # u
  BY <1>s, <1>1, <1>2, OneOf
<1> HIDE DEF x
<1>4. Image(u) \in SUBSET T /\ h[x] \in Image(u)
  BY <1>1, <1>3 DEF Matches
<1>5. Image(u) \ {h[x]} = Image(v)
  BY <1>1, <1>3 DEF Matches
<1> HIDE DEF Image
<1>6. g[u] = F[x] + g[v] /\ k[Image(u)] = G[h[x]] + k[Image(v)]
  <2>1. k[Image(u)] = G[h[x]] + k[Image(u) \ {h[x]}]
    BY <1>4, <1>c
  <2>2. g[u] = F[x] + g[v]
    BY <1>1, <1>3, <1>b
  <2> QED
    BY <1>5, <2>1, <2>2
<1>7. g[v] <= k[Image(v)]
  BY <1>1, <1>3
<1>8. /\ F[x] \in Int /\ G[h[x]] \in Int /\ F[x] <= G[h[x]]
      /\ g[v] \in Int /\ k[Image(v)] \in Int
  <2>1. Image(v) \in SUBSET T
    BY <1>4, <1>5
  <2> QED
    BY <1>3, <1>4, <2>1, <1>d, <1>e, <1>i
<1>9. g[u] <= k[Image(u)]
  BY <1>6, <1>7, <1>8
<1> QED
  BY <1>1, <1>9

LEMMA ProductOfPositives ==
    ASSUME NEW S, IsFiniteSet(S), NEW F, \A x \in S : F[x] \in Nat \ {0},
           NEW g, IsFold("product", g, F, S)
    PROVE  \A w \in SUBSET S : g[w] \in Nat \ {0}
<1> DEFINE B == {w \in SUBSET S : g[w] \notin Nat \ {0}}
<1> SUFFICES ASSUME B # {} PROVE FALSE
  OBVIOUS
<1>0. B \in SUBSET SUBSET S
  OBVIOUS
<1> HIDE DEF B
<1>1. PICK u \in B : \A v \in B : v \subseteq u => v = u
  BY <1>0, MinimalSubset
<1> USE DEF B
<1>2. g[u] = FoldStep("product", F, g, u)
  BY DEF IsFold
<1>3. u # {}
  BY <1>1, <1>2 DEF FoldStep, Unit
<1>4. One(u) \in u
  BY <1>3, OneOf
<1>5. g[u \ {One(u)}] \in Nat \ {0} /\ F[One(u)] \in Nat \ {0}
  BY <1>1, <1>4
<1>6. g[u] = F[One(u)] * g[u \ {One(u)}]
  BY <1>2, <1>3 DEF FoldStep, Combine
<1>7. \A x, y \in Nat \ {0} : x * y \in Nat \ {0}
  OBVIOUS
<1> QED
  BY <1>1, <1>5, <1>6, <1>7

\* Each factor divides the product.
LEMMA FactorsDivide ==
    ASSUME NEW S, IsFiniteSet(S), NEW F, \A x \in S : F[x] \in Nat \ {0},
           NEW g, IsFold("product", g, F, S)
    PROVE  \A w \in SUBSET S : \A x \in w : \E k \in Nat : g[w] = F[x] * k
<1> DEFINE Divides(x, w) == \E k \in Nat : g[w] = F[x] * k
           B == {w \in SUBSET S : \E x \in w : ~Divides(x, w)}
<1> SUFFICES ASSUME B # {} PROVE FALSE
  OBVIOUS
<1>0. B \in SUBSET SUBSET S
  OBVIOUS
<1> HIDE DEF B
<1>1. PICK u \in B : \A v \in B : v \subseteq u => v = u
  BY <1>0, MinimalSubset
<1> USE DEF B
<1>2. PICK x \in u : ~Divides(x, u)
  BY <1>1
<1> DEFINE y == One(u)
           v == u \ {y}
<1>3. y \in u
  BY <1>2, OneOf
<1>4. g[u] = F[y] * g[v]
  BY <1>2 DEF IsFold, FoldStep, Combine
<1> HIDE DEF y
<1>5. F[x] \in Nat /\ F[y] \in Nat /\ g[v] \in Nat
  BY <1>1, <1>3, ProductOfPositives
<1>6. x # y
  BY <1>2, <1>4, <1>5
<1>7. Divides(x, v)
  BY <1>1, <1>2, <1>3, <1>6
<1>8. PICK k \in Nat : g[v] = F[x] * k
  BY <1>7
<1>9. \A l, m, n \in Nat : l * (m * n) = m * (l * n) /\ l * n \in Nat
  OBVIOUS
<1>10. g[u] = F[x] * (F[y] * k) /\ F[y] * k \in Nat
  BY <1>4, <1>5, <1>8, <1>9
<1> QED
  BY <1>2, <1>10

\* A finite set of integers has a greatest element.
LEMMA MaxOfFinite ==
    ASSUME NEW S, IsFiniteSet(S), S # {}, \A x \in S : x \in Int
    PROVE  Max(S) \in S /\ \A y \in S : Max(S) >= y
<1> DEFINE B == {w \in SUBSET S : w # {} /\ \A x \in w : \E y \in w : ~(x >= y)}
<1>a. S \notin B => Max(S) \in S /\ \A y \in S : Max(S) >= y
  BY DEF Max
<1> SUFFICES ASSUME B # {} PROVE FALSE
  BY <1>a
<1>0. B \in SUBSET SUBSET S
  OBVIOUS
<1> HIDE DEF B
<1>1. PICK u \in B : \A v \in B : v \subseteq u => v = u
  BY <1>0, MinimalSubset
<1>2. u \in SUBSET S /\ u # {} /\ \A x \in u : \E y \in u : ~(x >= y)
  BY <1>1 DEF B
<1>3. PICK e \in u : TRUE
  BY <1>2
<1>4. u \ {e} \notin B /\ u \ {e} # {}
  <2>1. u \ {e} # u /\ u \ {e} \subseteq u
    BY <1>3
  <2>2. u # {e}
    BY <1>2
  <2> QED
    BY <1>1, <2>1, <2>2, <1>3
<1>5. PICK x \in u \ {e} : \A y \in u \ {e} : x >= y
  BY <1>2, <1>4 DEF B
<1> QED
  BY <1>2, <1>3, <1>5

\* What a function makes of a finite set is finite.
LEMMA FiniteImage ==
    ASSUME NEW S, IsFiniteSet(S), NEW f, NEW T, \A y \in T : \E x \in S : y = f[x]
    PROVE  IsFiniteSet(T)
<1> DEFINE U == {f[x] : x \in S}
           h == [x \in S |-> f[x]]
<1>1. h \in Surjection(S, U)
  BY DEF Surjection
<1> HIDE DEF h, U
<1>2. IsFiniteSet(U)
  BY <1>1, FS_Surjection
<1>3. T \in SUBSET U
  BY DEF U
<1> QED
  BY <1>2, <1>3, FS_Subset

-----------------------------------------------------------------------------
(***************************************************************************)
(* Percentile mode                                                         *)
(***************************************************************************)
\* The points of a selection are a number, and a multiple-choice question is out
\* of a positive number of points.
LEMMA McqPoints ==
    ASSUME NEW q \in Questions, NEW row, IsFiniteSet(row.answer.ids)
    PROVE  /\ CalculateMCQScore(row, q).score \in Int
           /\ (\A a : ScoreOfAnswer(a) \in Nat) => CalculateMCQScore(row, q).score \in Nat
           /\ CalculateMCQScore(row, q).max \in Nat \ {0}
<1> DEFINE S == row.answer.ids
           F == [a \in S |-> ScoreOfAnswer(a)]
           H(g) == [s \in SUBSET S |-> IF s = {} THEN 0
                                       ELSE ScoreOfAnswer(One(s)) + g[s \ {One(s)}]]
<1>0. \A a : ScoreOfAnswer(a) \in Int
  BY PointsAssumption DEF ScoreOfAnswer
<1>1. /\ MapThenSumSet(ScoreOfAnswer, S) \in Int
      /\ (\A a : ScoreOfAnswer(a) \in Nat) => MapThenSumSet(ScoreOfAnswer, S) \in Nat
  <2>1. \E g : IsSum(g, F, S)
    BY FoldExists DEF IsSum
  <2>2. \A s \in SUBSET S : s # {} => One(s) \in S
    BY OneOf
  <2>3. \A g : H(g) = [s \in SUBSET S |-> FoldStep("sum", F, g, s)]
    BY <2>2 DEF FoldStep, Combine, Unit
  <2>4. \A g : g = H(g) <=> IsSum(g, F, S)
    BY <2>3 DEF IsSum, IsFold
  <2>5. MapThenSumSet(ScoreOfAnswer, S) = (CHOOSE g : g = H(g))[S]
    BY DEF MapThenSumSet, MapThenFoldSet, One
  <2>6. PICK g : IsSum(g, F, S) /\ MapThenSumSet(ScoreOfAnswer, S) = g[S]
    BY <2>1, <2>4, <2>5
  <2> QED
    BY <1>0, <2>6, SumOfInts, SumOfNats
<1>2. BestAnswer(q) \in Int
  <2> DEFINE T == {ScoreOfAnswer(a) : a \in AnswersOf[q]}
             f == [a \in AnswersOf[q] |-> ScoreOfAnswer(a)]
  <2>1. \A y \in T : \E a \in AnswersOf[q] : y = f[a]
    OBVIOUS
  <2>2. IsFiniteSet(AnswersOf[q])
    BY PointsAssumption
  <2>3. T \in SUBSET Int
    BY <1>0
  <2> HIDE DEF T, f
  <2>4. IsFiniteSet(T)
    BY <2>1, <2>2, FiniteImage
  <2>a. IsFiniteSet({0})
    BY FS_Singleton
  <2>b. IsFiniteSet({0} \cup T)
    BY <2>a, <2>4, FS_Union
  <2>5. IsFiniteSet({0} \cup T) /\ {0} \cup T \in SUBSET Int
    BY <2>3, <2>b
  <2>6. Max({0} \cup T) \in Int
    BY <2>5, MaxOfFinite
  <2> QED
    BY <2>6 DEF BestAnswer, T
<1>3. CalculateMCQScore(row, q).max \in Nat \ {0}
  BY <1>2, PointsAssumption DEF CalculateMCQScore
<1>4. CalculateMCQScore(row, q).score = MapThenSumSet(ScoreOfAnswer, S)
  BY DEF CalculateMCQScore
<1> QED
  BY <1>1, <1>3, <1>4

\* A table as the program writes it: marks are numbers or, in categorical mode, a
\* weight for each of some categories; a selection is a finite set of answers.
MarkOK(mode, mark) ==
    IF mode = "percentile" THEN mark \in Int
    ELSE IsFiniteSet(DOMAIN mark) /\ \A c \in DOMAIN mark : mark[c] \in Int
TableOK(mode, tbl) ==
    \A q \in Scorable(tbl) : IF Written(q) THEN MarkOK(mode, tbl[q].grade)
                                           ELSE IsFiniteSet(tbl[q].answer.ids)

LEMMA ScorableFinite ==
    ASSUME NEW tbl
    PROVE  Scorable(tbl) \in SUBSET Questions /\ IsFiniteSet(Scorable(tbl))
<1>1. Scorable(tbl) \in SUBSET Questions
  BY DEF Scorable
<1> QED
  BY <1>1, FS_Subset, PointsAssumption

LEMMA PercentagesAre == \A n \in Int : 0 <= n /\ n <= 10000 => n \in Percentages
BY DEF Percentages

LEMMA NullIsPercentage == Null \in Percentages
BY DEF Percentages

LEMMA ClampPercent == \A x \in Int : Clamp(x, 0, 10000) \in Percentages
<1>1. \A x \in Int : Clamp(x, 0, 10000) \in Int /\ 0 <= Clamp(x, 0, 10000) /\ Clamp(x, 0, 10000) <= 10000
  BY DEF Clamp
<1> QED
  BY <1>1, PercentagesAre

LEMMA ClampRange == \A high \in Nat : \A x \in Int : Clamp(x, 0, high) \in 0..high
BY DEF Clamp

LEMMA RoundDivType ==
    ASSUME NEW a \in Int, NEW b \in Nat \ {0}
    PROVE  RoundDiv(a, b) \in Int
BY DEF RoundDiv

\* The points of a table's responses, what they are out of, and the sums of both.
PointsOf(tbl) == [q \in Scorable(tbl) |-> QuestionScore(tbl, q).score]
BestOf(tbl) == [q \in Scorable(tbl) |-> QuestionScore(tbl, q).max]
TotalPoints(tbl) == MapThenSumSet(LAMBDA q : QuestionScore(tbl, q).score, Scorable(tbl))
TotalPossible(tbl) == MapThenSumSet(LAMBDA q : QuestionScore(tbl, q).max, Scorable(tbl))

LEMMA TotalsAreSums ==
    ASSUME NEW tbl
    PROVE  /\ \E g : IsSum(g, PointsOf(tbl), Scorable(tbl)) /\ TotalPoints(tbl) = g[Scorable(tbl)]
           /\ \E g : IsSum(g, BestOf(tbl), Scorable(tbl)) /\ TotalPossible(tbl) = g[Scorable(tbl)]
<1> DEFINE qs == Scorable(tbl)
           P == [q \in qs |-> QuestionScore(tbl, q).score]
           M == [q \in qs |-> QuestionScore(tbl, q).max]
           H(g) == [s \in SUBSET qs |-> IF s = {} THEN 0
                                        ELSE QuestionScore(tbl, One(s)).score + g[s \ {One(s)}]]
           K(g) == [s \in SUBSET qs |-> IF s = {} THEN 0
                                        ELSE QuestionScore(tbl, One(s)).max + g[s \ {One(s)}]]
<1>1. /\ TotalPoints(tbl) = (CHOOSE g : g = H(g))[qs]
      /\ TotalPossible(tbl) = (CHOOSE g : g = K(g))[qs]
  BY DEF TotalPoints, TotalPossible, MapThenSumSet, MapThenFoldSet, One
<1>2. \A s \in SUBSET qs : s # {} => One(s) \in qs
  BY OneOf
<1>3. (\E g : IsSum(g, P, qs)) /\ (\E g : IsSum(g, M, qs))
  BY ScorableFinite, FoldExists DEF IsSum
<1> HIDE DEF qs
<1>4. \A g : /\ H(g) = [s \in SUBSET qs |-> FoldStep("sum", P, g, s)]
             /\ K(g) = [s \in SUBSET qs |-> FoldStep("sum", M, g, s)]
  BY <1>2 DEF FoldStep, Combine, Unit
<1>5. \A g : (g = H(g) <=> IsSum(g, P, qs)) /\ (g = K(g) <=> IsSum(g, M, qs))
  BY <1>4 DEF IsSum, IsFold
<1> HIDE DEF H, K, P, M
<1>6. \E g : IsSum(g, P, qs) /\ TotalPoints(tbl) = g[qs]
  BY <1>1, <1>3, <1>5
<1>7. \E g : IsSum(g, M, qs) /\ TotalPossible(tbl) = g[qs]
  BY <1>1, <1>3, <1>5
<1> QED
  BY <1>6, <1>7 DEF qs, P, M, PointsOf, BestOf

LEMMA QuestionPoints ==
    ASSUME NEW tbl, TableOK("percentile", tbl), NEW q \in Scorable(tbl)
    PROVE  PointsOf(tbl)[q] \in Int /\ BestOf(tbl)[q] \in Nat
<1>1. q \in Questions
  BY ScorableFinite
<1>2. CASE Written(q)
  BY <1>1, <1>2, PointsAssumption DEF QuestionScore, TableOK, MarkOK, PointsOf, BestOf
<1>3. CASE ~Written(q)
  <2>1. IsFiniteSet(tbl[q].answer.ids)
    BY <1>3 DEF TableOK
  <2>2. CalculateMCQScore(tbl[q], q).score \in Int /\ CalculateMCQScore(tbl[q], q).max \in Nat
    BY <1>1, <2>1, McqPoints
  <2> QED
    BY <1>3, <2>2 DEF QuestionScore, PointsOf, BestOf
<1> QED
  BY <1>2, <1>3

LEMMA TotalsOK ==
    ASSUME NEW tbl, TableOK("percentile", tbl)
    PROVE  /\ \E g : IntSum(g, PointsOf(tbl), Scorable(tbl)) /\ TotalPoints(tbl) = g[Scorable(tbl)]
           /\ TotalPoints(tbl) \in Int /\ TotalPossible(tbl) \in Nat
<1>1. IsFiniteSet(Scorable(tbl))
  BY ScorableFinite
<1>2. PICK g : IsSum(g, PointsOf(tbl), Scorable(tbl)) /\ TotalPoints(tbl) = g[Scorable(tbl)]
  BY TotalsAreSums
<1>3. PICK k : IsSum(k, BestOf(tbl), Scorable(tbl)) /\ TotalPossible(tbl) = k[Scorable(tbl)]
  BY TotalsAreSums
<1>4. IntSum(g, PointsOf(tbl), Scorable(tbl))
  BY <1>1, <1>2, QuestionPoints DEF IntSum
<1>5. TotalPoints(tbl) \in Int
  BY <1>1, <1>2, QuestionPoints, SumOfInts
<1>6. TotalPossible(tbl) \in Nat
  BY <1>1, <1>3, QuestionPoints, SumOfNats
<1> QED
  BY <1>2, <1>4, <1>5, <1>6

\* The percentile score in terms of the two sums.
LEMMA PercentileIs ==
    ASSUME NEW tbl
    PROVE  CalculatePercentileScore(tbl) =
              IF Scorable(tbl) = {} \/ TotalPossible(tbl) = 0 THEN Null
              ELSE Clamp(RoundDiv(10000 * TotalPoints(tbl), TotalPossible(tbl)), 0, 10000)
BY DEF CalculatePercentileScore, TotalPoints, TotalPossible

LEMMA PercentileRange ==
    ASSUME NEW tbl, TableOK("percentile", tbl)
    PROVE  CalculatePercentileScore(tbl) \in Percentages
<1> DEFINE total == TotalPoints(tbl)
           possible == TotalPossible(tbl)
           score == RoundDiv(10000 * total, possible)
<1>1. total \in Int /\ possible \in Nat
  BY TotalsOK
<1>2. \/ CalculatePercentileScore(tbl) = Null
      \/ possible # 0 /\ CalculatePercentileScore(tbl) = Clamp(score, 0, 10000)
  BY PercentileIs
<1> HIDE DEF total, possible
<1>3. possible # 0 => score \in Int
  <2> SUFFICES ASSUME possible # 0 PROVE score \in Int
    OBVIOUS
  <2>1. 10000 * total \in Int /\ possible \in Nat \ {0}
    BY <1>1
  <2> QED
    BY <2>1, RoundDivType
<1> HIDE DEF score
<1> QED
  BY <1>2, <1>3, ClampPercent, NullIsPercentage

-----------------------------------------------------------------------------
(***************************************************************************)
(* Categorical mode                                                        *)
(***************************************************************************)
\* A part of a whole, in hundredths of a percent.
LEMMA RoundDivRange ==
    ASSUME NEW b \in Nat \ {0}, NEW x \in 0..b
    PROVE  RoundDiv(10000 * x, b) \in Percentages
<1> DEFINE n == (20000 * x + b) \div (2 * b)
<1>0. n \in Int
  OBVIOUS
<1>1. n \in Int /\ 2 * b * n <= 20000 * x + b /\ 20000 * x + b < 2 * b * (n + 1)
  OBVIOUS
<1>2. RoundDiv(10000 * x, b) = n
  BY DEF RoundDiv
<1> HIDE DEF n
<1>3. n <= 10000
  <2> SUFFICES ASSUME n >= 10001 PROVE FALSE
    BY <1>0
  <2>1. 2 * b * n >= 2 * b * 10001
    BY <1>1
  <2>2. 20000 * x + b <= 20001 * b
    OBVIOUS
  <2> QED
    BY <1>1, <2>1, <2>2
<1>4. n >= 0
  <2> SUFFICES ASSUME n + 1 <= 0 PROVE FALSE
    BY <1>1
  <2>1. 2 * b * (n + 1) <= 0
    BY <1>1
  <2> QED
    BY <1>1, <2>1
<1>5. n \in Percentages
  BY <1>0, <1>3, <1>4, PercentagesAre
<1> QED
  BY <1>2, <1>5

LEMMA EntriesOK ==
    ASSUME NEW tbl, TableOK("categorical", tbl)
    PROVE  IsFiniteSet(WeightEntries(tbl)) /\ \A e \in WeightEntries(tbl) : e[3] \in Int
<1> DEFINE qs == Scorable(tbl)
           Marked(q) == {<<q, c, tbl[q].grade[c]>> : c \in DOMAIN tbl[q].grade}
           Weighed(a) == {<<a, c, AnswerWeights[a][c]>> : c \in DOMAIN AnswerWeights[a]}
           Picked(q) == tbl[q].answer.ids \cap DOMAIN AnswerWeights
           Of(q) == IF Written(q) THEN Marked(q) ELSE UNION {Weighed(a) : a \in Picked(q)}
<1>1. WeightEntries(tbl) = UNION {Of(q) : q \in qs}
  BY DEF WeightEntries
<1>2. ASSUME NEW q \in qs, Written(q)
      PROVE  IsFiniteSet(Marked(q)) /\ \A e \in Marked(q) : e[3] \in Int
  <2> DEFINE f == [c \in DOMAIN tbl[q].grade |-> <<q, c, tbl[q].grade[c]>>]
  <2>1. IsFiniteSet(DOMAIN tbl[q].grade) /\ \A c \in DOMAIN tbl[q].grade : tbl[q].grade[c] \in Int
    BY <1>2 DEF TableOK, MarkOK
  <2>2. \A y \in Marked(q) : \E c \in DOMAIN tbl[q].grade : y = f[c]
    OBVIOUS
  <2>3. \A e \in Marked(q) : e[3] \in Int
    BY <2>1
  <2> HIDE DEF f, Marked
  <2> QED
    BY <2>1, <2>2, <2>3, FiniteImage
<1>3. ASSUME NEW a \in DOMAIN AnswerWeights
      PROVE  IsFiniteSet(Weighed(a)) /\ \A e \in Weighed(a) : e[3] \in Int
  <2> DEFINE f == [c \in DOMAIN AnswerWeights[a] |-> <<a, c, AnswerWeights[a][c]>>]
  <2>1. /\ IsFiniteSet(DOMAIN AnswerWeights[a])
        /\ \A c \in DOMAIN AnswerWeights[a] : AnswerWeights[a][c] \in Int
    BY WeightsAssumption
  <2>2. \A y \in Weighed(a) : \E c \in DOMAIN AnswerWeights[a] : y = f[c]
    OBVIOUS
  <2>3. \A e \in Weighed(a) : e[3] \in Int
    BY <2>1
  <2> HIDE DEF f, Weighed
  <2> QED
    BY <2>1, <2>2, <2>3, FiniteImage
<1> HIDE DEF Marked, Weighed
<1>4. ASSUME NEW q \in qs PROVE IsFiniteSet(Of(q)) /\ \A e \in Of(q) : e[3] \in Int
  <2>1. CASE Written(q)
    BY <1>2, <2>1
  <2>2. CASE ~Written(q)
    <3> DEFINE T == {Weighed(a) : a \in Picked(q)}
               f == [a \in Picked(q) |-> Weighed(a)]
    <3>1. \A y \in T : \E a \in Picked(q) : y = f[a]
      OBVIOUS
    <3>2. Picked(q) \in SUBSET DOMAIN AnswerWeights
      OBVIOUS
    <3>3. \A t \in T : IsFiniteSet(t) /\ \A e \in t : e[3] \in Int
      BY <1>3
    <3>4. Of(q) = UNION T
      BY <2>2
    <3> HIDE DEF T, f, Picked, Of
    <3>5. IsFiniteSet(Picked(q))
      BY <3>2, FS_Subset, WeightsAssumption
    <3>6. IsFiniteSet(T)
      BY <3>1, <3>5, FiniteImage
    <3>7. IsFiniteSet(UNION T)
      BY <3>3, <3>6, FS_UNION
    <3> QED
      BY <3>3, <3>4, <3>7
  <2> QED
    BY <2>1, <2>2
<1> HIDE DEF Of
<1> DEFINE T == {Of(q) : q \in qs}
           f == [q \in qs |-> Of(q)]
<1>5. \A y \in T : \E q \in qs : y = f[q]
  OBVIOUS
<1>6. \A t \in T : IsFiniteSet(t) /\ \A e \in t : e[3] \in Int
  BY <1>4
<1>7. WeightEntries(tbl) = UNION T
  BY <1>1
<1>8. IsFiniteSet(qs)
  BY ScorableFinite
<1> HIDE DEF T, f, qs
<1>9. IsFiniteSet(T)
  BY <1>5, <1>8, FiniteImage
<1>10. IsFiniteSet(UNION T)
  BY <1>6, <1>9, FS_UNION
<1> QED
  BY <1>6, <1>7, <1>10

\* The parts of the categorical score, for a set of weights.
Cats(entries) == {e[2] : e \in entries}
OfCat(entries, c) == {e \in entries : e[2] = c}
Weights(entries, c) == [e \in OfCat(entries, c) |-> e[3]]
Total(entries, c) == MapThenSumSet(LAMBDA e : e[3], OfCat(entries, c))
Denominator(entries, c) == MaxWeight * Cardinality(OfCat(entries, c)) * MaxWeight
Denominators(entries) == {Denominator(entries, c) : c \in Cats(entries)}
Common(entries) == ProductSet(Denominators(entries))
CategoryScore(entries, c) ==
    Clamp(Total(entries, c) * (Common(entries) \div Denominator(entries, c)), 0, Common(entries))
CategoryScoresOf(entries) == [c \in Cats(entries) |-> CategoryScore(entries, c)]
SumOfScores(entries) == MapThenSumSet(LAMBDA c : CategoryScore(entries, c), Cats(entries))

\* Finitely many entries, and numbers for weights.
Weighted(entries) == IsFiniteSet(entries) /\ \A e \in entries : e[3] \in Int

LEMMA CategoricalIs ==
    ASSUME NEW tbl, NEW entries, entries = WeightEntries(tbl)
    PROVE  CalculateCategoricalScore(tbl) =
              IF Cats(entries) = {} THEN Null
              ELSE RoundDiv(10000 * SumOfScores(entries), Cardinality(Cats(entries)) * Common(entries))
BY DEF CalculateCategoricalScore, Cats, OfCat, Total, Denominator, Denominators, Common,
       CategoryScore, SumOfScores

LEMMA CategoriesOK ==
    ASSUME NEW entries, Weighted(entries)
    PROVE  /\ IsFiniteSet(Cats(entries))
           /\ \A c \in Cats(entries) : /\ IsFiniteSet(OfCat(entries, c))
                                       /\ Denominator(entries, c) \in Nat \ {0}
<1>1. IsFiniteSet(Cats(entries))
  <2> DEFINE f == [e \in entries |-> e[2]]
  <2>1. \A y \in Cats(entries) : \E e \in entries : y = f[e]
    BY DEF Cats
  <2> HIDE DEF f
  <2> QED
    BY <2>1, FiniteImage DEF Weighted
<1>2. ASSUME NEW c \in Cats(entries)
      PROVE  IsFiniteSet(OfCat(entries, c)) /\ Denominator(entries, c) \in Nat \ {0}
  <2>1. OfCat(entries, c) \in SUBSET entries /\ OfCat(entries, c) # {}
    BY DEF Cats, OfCat
  <2>2. IsFiniteSet(OfCat(entries, c))
    BY <2>1, FS_Subset DEF Weighted
  <2>3. Cardinality(OfCat(entries, c)) \in Nat \ {0}
    BY <2>1, <2>2, FS_CardinalityType, FS_EmptySet
  <2> QED
    BY <2>2, <2>3 DEF Denominator, MaxWeight
<1> QED
  BY <1>1, <1>2

LEMMA TotalIsSum ==
    ASSUME NEW entries, Weighted(entries), NEW c \in Cats(entries)
    PROVE  /\ \E g : IntSum(g, Weights(entries, c), OfCat(entries, c)) /\ Total(entries, c) = g[OfCat(entries, c)]
           /\ Total(entries, c) \in Int
<1> DEFINE S == OfCat(entries, c)
           F == Weights(entries, c)
           H(g) == [s \in SUBSET S |-> IF s = {} THEN 0 ELSE One(s)[3] + g[s \ {One(s)}]]
<1>1. Total(entries, c) = (CHOOSE g : g = H(g))[S]
  BY DEF Total, MapThenSumSet, MapThenFoldSet, One
<1>2. IsFiniteSet(S) /\ \A e \in S : F[e] = e[3] /\ e[3] \in Int
  BY CategoriesOK DEF Weighted, Weights, OfCat
<1>3. \A s \in SUBSET S : s # {} => One(s) \in S
  BY OneOf
<1> HIDE DEF S, F
<1>4. \E g : IsSum(g, F, S)
  BY <1>2, FoldExists DEF IsSum
<1>5. \A g : H(g) = [s \in SUBSET S |-> FoldStep("sum", F, g, s)]
  BY <1>2, <1>3 DEF FoldStep, Combine, Unit
<1>6. \A g : g = H(g) <=> IsSum(g, F, S)
  BY <1>5 DEF IsSum, IsFold
<1>7. PICK g : IsSum(g, F, S) /\ Total(entries, c) = g[S]
  BY <1>1, <1>4, <1>6
<1>8. IntSum(g, F, S)
  BY <1>2, <1>7 DEF IntSum
<1>9. Total(entries, c) \in Int
  BY <1>2, <1>7, SumOfInts
<1> QED
  BY <1>7, <1>8, <1>9 DEF S, F

\* The common denominator is positive, and a multiple of each.
LEMMA CommonPositive ==
    ASSUME NEW entries, Weighted(entries)
    PROVE  /\ Common(entries) \in Nat \ {0}
           /\ \A c \in Cats(entries) : \E k \in Nat : Common(entries) = Denominator(entries, c) * k
<1> DEFINE S == Denominators(entries)
           F == [x \in S |-> x]
           H(g) == [s \in SUBSET S |-> IF s = {} THEN 1 ELSE One(s) * g[s \ {One(s)}]]
           d == [c \in Cats(entries) |-> Denominator(entries, c)]
<1>1. Common(entries) = (CHOOSE g : g = H(g))[S]
  BY DEF Common, ProductSet, FoldSet, MapThenFoldSet, One
<1>2. \A x \in S : x \in Nat \ {0}
  BY CategoriesOK DEF Denominators
<1>3. \A y \in S : \E c \in Cats(entries) : y = d[c]
  BY DEF Denominators
<1>4. \A s \in SUBSET S : s # {} => One(s) \in S
  BY OneOf
<1> HIDE DEF S, d
<1>5. IsFiniteSet(S)
  BY <1>3, CategoriesOK, FiniteImage
<1>6. \E g : IsFold("product", g, F, S)
  BY <1>5, FoldExists
<1>7. \A g : H(g) = [s \in SUBSET S |-> FoldStep("product", F, g, s)]
  BY <1>4 DEF FoldStep, Combine, Unit
<1>8. \A g : g = H(g) <=> IsFold("product", g, F, S)
  BY <1>7 DEF IsFold
<1>9. PICK g : IsFold("product", g, F, S) /\ Common(entries) = g[S]
  BY <1>1, <1>6, <1>8
<1>10. Common(entries) \in Nat \ {0}
  BY <1>2, <1>5, <1>9, ProductOfPositives
<1>11. \A x \in S : \E k \in Nat : Common(entries) = x * k
  BY <1>2, <1>5, <1>9, FactorsDivide
<1>12. \A c \in Cats(entries) : Denominator(entries, c) \in S
  BY DEF S, Denominators
<1> QED
  BY <1>10, <1>11, <1>12

LEMMA CategoryScoreRange ==
    ASSUME NEW entries, Weighted(entries), NEW c \in Cats(entries)
    PROVE  CategoryScore(entries, c) \in 0..Common(entries)
<1> DEFINE k == Common(entries) \div Denominator(entries, c)
           x == Total(entries, c) * k
<1>0. \A m, n \in Nat \ {0} : m \div n \in Int
  OBVIOUS
<1>1. k \in Int
  BY <1>0, CategoriesOK, CommonPositive
<1> HIDE DEF k
<1>2. x \in Int
  BY <1>1, TotalIsSum
<1>3. CategoryScore(entries, c) = Clamp(x, 0, Common(entries))
  BY DEF CategoryScore, k
<1> HIDE DEF x
<1> QED
  BY <1>2, <1>3, CommonPositive, ClampRange

LEMMA ScoresAreSum ==
    ASSUME NEW entries, Weighted(entries)
    PROVE  /\ \E g : /\ IntSum(g, CategoryScoresOf(entries), Cats(entries))
                     /\ SumOfScores(entries) = g[Cats(entries)]
           /\ SumOfScores(entries) \in 0..(Cardinality(Cats(entries)) * Common(entries))
<1> DEFINE S == Cats(entries)
           F == CategoryScoresOf(entries)
           b == Common(entries)
           H(g) == [s \in SUBSET S |-> IF s = {} THEN 0
                                       ELSE CategoryScore(entries, One(s)) + g[s \ {One(s)}]]
<1>1. SumOfScores(entries) = (CHOOSE g : g = H(g))[S]
  BY DEF SumOfScores, MapThenSumSet, MapThenFoldSet, One
<1>2. \A s \in SUBSET S : s # {} => One(s) \in S
  BY OneOf
<1>3. \A c \in S : F[c] = CategoryScore(entries, c) /\ F[c] \in 0..b
  BY CategoryScoreRange DEF CategoryScoresOf
<1>4. IsFiniteSet(S) /\ b \in Nat
  BY CategoriesOK, CommonPositive
<1> HIDE DEF S, F, b
<1>5. \E g : IsSum(g, F, S)
  BY <1>4, FoldExists DEF IsSum
<1>6. \A g : H(g) = [s \in SUBSET S |-> FoldStep("sum", F, g, s)]
  BY <1>2, <1>3 DEF FoldStep, Combine, Unit
<1>7. \A g : g = H(g) <=> IsSum(g, F, S)
  BY <1>6 DEF IsSum, IsFold
<1>8. PICK g : IsSum(g, F, S) /\ SumOfScores(entries) = g[S]
  BY <1>1, <1>5, <1>7
<1>9. SumOfScores(entries) \in 0..(Cardinality(S) * b)
  BY <1>3, <1>4, <1>8, SumAtMost
<1>10. IntSum(g, F, S)
  BY <1>3, <1>4, <1>8 DEF IntSum
<1> QED
  BY <1>8, <1>9, <1>10 DEF S, F, b

\* What the mean is taken of, and over.
LEMMA WholePositive ==
    ASSUME NEW entries, Weighted(entries), Cats(entries) # {}
    PROVE  Cardinality(Cats(entries)) * Common(entries) \in Nat \ {0}
<1>1. Cardinality(Cats(entries)) \in Nat \ {0}
  BY CategoriesOK, FS_CardinalityType, FS_EmptySet
<1>2. \A m, n \in Nat \ {0} : m * n \in Nat \ {0}
  OBVIOUS
<1> QED
  BY <1>1, <1>2, CommonPositive

LEMMA CategoricalRange ==
    ASSUME NEW tbl, TableOK("categorical", tbl)
    PROVE  CalculateCategoricalScore(tbl) \in Percentages
<1> DEFINE entries == WeightEntries(tbl)
           sum == SumOfScores(entries)
           whole == Cardinality(Cats(entries)) * Common(entries)
           score == RoundDiv(10000 * sum, whole)
<1>1. CalculateCategoricalScore(tbl) = IF Cats(entries) = {} THEN Null ELSE score
  BY CategoricalIs
<1>2. Weighted(entries)
  BY EntriesOK DEF Weighted
<1> HIDE DEF entries
<1>3. ASSUME Cats(entries) # {} PROVE score \in Percentages
  <2>1. sum \in 0..whole /\ whole \in Nat \ {0}
    BY <1>2, <1>3, ScoresAreSum, WholePositive
  <2> HIDE DEF sum, whole
  <2> QED
    BY <2>1, RoundDivRange
<1> HIDE DEF score
<1> QED
  BY <1>1, <1>3, NullIsPercentage

-----------------------------------------------------------------------------
(***************************************************************************)
(* What a score depends on                                                 *)
(***************************************************************************)
\* Two tables with the same rows to score, as far as the scoring looks at them.
ScoredAlike(t1, t2) ==
    /\ Scorable(t1) = Scorable(t2)
    /\ \A q \in Scorable(t1) : IF Written(q) THEN t1[q].grade = t2[q].grade
                                             ELSE t1[q].answer = t2[q].answer

LEMMA CategoricalAlike ==
    ASSUME NEW t1, NEW t2, ScoredAlike(t1, t2)
    PROVE  /\ CalculateCategoricalScore(t1) = CalculateCategoricalScore(t2)
           /\ Scorable(t1) = {} => CalculateCategoricalScore(t1) = Null
<1>1. WeightEntries(t1) = WeightEntries(t2)
  BY DEF ScoredAlike, WeightEntries
<1>2. Scorable(t1) = {} => Cats(WeightEntries(t1)) = {}
  BY DEF WeightEntries, Cats
<1> QED
  BY <1>1, <1>2, CategoricalIs

LEMMA PercentileAlike ==
    ASSUME NEW t1, NEW t2, ScoredAlike(t1, t2)
    PROVE  /\ CalculatePercentileScore(t1) = CalculatePercentileScore(t2)
           /\ Scorable(t1) = {} => CalculatePercentileScore(t1) = Null
<1>1. \A q \in Scorable(t1) : QuestionScore(t1, q) = QuestionScore(t2, q)
  BY DEF ScoredAlike, QuestionScore, CalculateMCQScore
<1> DEFINE qs == Scorable(t1)
<1>2. Scorable(t2) = qs /\ PointsOf(t1) = PointsOf(t2) /\ BestOf(t1) = BestOf(t2)
  BY <1>1 DEF ScoredAlike, PointsOf, BestOf
<1>3. IsFiniteSet(qs) /\ qs \in SUBSET qs
  BY ScorableFinite
<1>4. TotalPoints(t1) = TotalPoints(t2)
  <2>1. PICK g : IsSum(g, PointsOf(t1), qs) /\ TotalPoints(t1) = g[qs]
    BY TotalsAreSums
  <2>2. PICK k : IsSum(k, PointsOf(t1), qs) /\ TotalPoints(t2) = k[qs]
    BY <1>2, TotalsAreSums
  <2> HIDE DEF qs
  <2> QED
    BY <1>3, <2>1, <2>2, FoldUnique DEF IsSum
<1>5. TotalPossible(t1) = TotalPossible(t2)
  <2>1. PICK g : IsSum(g, BestOf(t1), qs) /\ TotalPossible(t1) = g[qs]
    BY TotalsAreSums
  <2>2. PICK k : IsSum(k, BestOf(t1), qs) /\ TotalPossible(t2) = k[qs]
    BY <1>2, TotalsAreSums
  <2> HIDE DEF qs
  <2> QED
    BY <1>3, <2>1, <2>2, FoldUnique DEF IsSum
<1> QED
  BY <1>2, <1>4, <1>5, PercentileIs

\* A row that is not scored makes no difference, not even the first.
LEMMA ScoreAlike ==
    ASSUME NEW mode, NEW t1, NEW t2, ScoredAlike(t1, t2)
    PROVE  CalculateScore(mode, t1) = CalculateScore(mode, t2)
<1>1. \A t : (\A q \in Questions : ~Row(t, q)) => Scorable(t) = {}
  BY DEF Scorable
<1>2. Scorable(t1) = Scorable(t2)
  BY DEF ScoredAlike
<1> QED
  BY <1>1, <1>2, CategoricalAlike, PercentileAlike DEF CalculateScore

-----------------------------------------------------------------------------
\* "The calculated score (0-100) or null": whatever has been selected and graded,
\* over the maximum or below zero too, calculateScore returns null or 0 to 100%.
THEOREM ScoreIsPercentage ==
    ASSUME NEW mode \in ScoringModes, NEW tbl, TableOK(mode, tbl)
    PROVE  CalculateScore(mode, tbl) \in Percentages
BY PercentileRange, CategoricalRange, NullIsPercentage DEF CalculateScore, ScoringModes

-----------------------------------------------------------------------------
(***************************************************************************)
(* The saves that the observer skips                                       *)
(***************************************************************************)
\* shouldCalculateScore looks at the saved row only.  It may skip the save of a row that
\* has no selection and no graded_at, whatever the save changed, if the row held no
\* selection before and graders' marks come and stay with their graded_at.
THEOREM SkippedSavesKeepScore ==
    ASSUME NEW mode, NEW t1, NEW t2, NEW q \in Questions, \A p \in Questions \ {q} : t2[p] = t1[p],
           Row(t2, q), ~ShouldCalculateScore(q, t2[q]), Written(q) /\ t2[q].grade # Null => t2[q].graded,
           Row(t1, q) => IF Written(q) THEN t1[q].grade # Null => t2[q].graded
                                       ELSE ~Selected(t1[q])
    PROVE  CalculateScore(mode, t2) = CalculateScore(mode, t1)
<1>1. q \notin Scorable(t2)
  BY DEF Scorable, ShouldCalculateScore
<1>2. q \notin Scorable(t1)
  BY DEF Scorable, ShouldCalculateScore
<1>3. \A p \in Questions \ {q} : p \in Scorable(t1) <=> p \in Scorable(t2)
  BY DEF Scorable, Row
<1>4. Scorable(t1) = Scorable(t2)
  BY <1>1, <1>2, <1>3, ScorableFinite
<1>5. ScoredAlike(t1, t2)
  BY <1>1, <1>4, ScorableFinite DEF ScoredAlike
<1> QED
  BY <1>5, ScoreAlike

-----------------------------------------------------------------------------
(***************************************************************************)
(* Rounding                                                                *)
(***************************************************************************)
LEMMA RoundDivIs ==
    ASSUME NEW a \in Int, NEW b \in Nat \ {0}
    PROVE  /\ RoundDiv(a, b) \in Int
           /\ 2 * (RoundDiv(a, b) * b) <= 2 * a + b
           /\ 2 * a < 2 * (RoundDiv(a, b) * b) + b
<1> DEFINE n == (2 * a + b) \div (2 * b)
<1>1. n \in Int /\ 2 * b * n <= 2 * a + b /\ 2 * a + b < 2 * b * (n + 1)
  OBVIOUS
<1>2. RoundDiv(a, b) = n
  BY DEF RoundDiv
<1> HIDE DEF n
<1>3. 2 * b * n = 2 * (n * b) /\ 2 * b * (n + 1) = 2 * (n * b) + 2 * b
  BY <1>1
<1>4. n * b \in Int
  BY <1>1
<1> DEFINE m == n * b
<1> HIDE DEF m
<1>5. m \in Int /\ 2 * m <= 2 * a + b /\ 2 * a + b < 2 * m + 2 * b
  BY <1>1, <1>3, <1>4 DEF m
<1>6. 2 * m <= 2 * a + b /\ 2 * a < 2 * m + b
  BY <1>5
<1> QED
  BY <1>1, <1>2, <1>6 DEF m

LEMMA Multiples ==
    \A m, n \in Int : \A b \in Nat : /\ m <= n => m * b <= n * b
                                     /\ m + 1 <= n => m * b + b <= n * b
<1> SUFFICES ASSUME NEW m \in Int, NEW n \in Int, NEW b \in Nat
             PROVE  /\ m <= n => m * b <= n * b
                    /\ m + 1 <= n => m * b + b <= n * b
  OBVIOUS
<1> DEFINE d == n - m
<1>1. n = m + d /\ d \in Int
  OBVIOUS
<1> HIDE DEF d
<1>2. n * b = m * b + d * b /\ m * b \in Int /\ d * b \in Int
  BY <1>1
<1>3. d >= 0 => d * b >= 0
  BY <1>1
<1>4. d >= 1 => d * b >= b
  <2>1. d * b = b + (d - 1) * b
    BY <1>1
  <2>2. d >= 1 => (d - 1) * b >= 0
    BY <1>1
  <2>3. (d - 1) * b \in Int
    BY <1>1
  <2> QED
    BY <2>1, <2>2, <2>3
<1> QED
  BY <1>1, <1>2, <1>3, <1>4

LEMMA RoundDivMonotone ==
    ASSUME NEW x \in Int, NEW y \in Int, x <= y, NEW b \in Nat \ {0}
    PROVE  RoundDiv(x, b) <= RoundDiv(y, b)
<1> DEFINE m == RoundDiv(x, b)
           n == RoundDiv(y, b)
<1>1. m \in Int /\ 2 * (m * b) <= 2 * x + b /\ n \in Int /\ 2 * y < 2 * (n * b) + b
  BY RoundDivIs
<1> HIDE DEF m, n
<1> SUFFICES ASSUME n + 1 <= m PROVE FALSE
  BY <1>1 DEF m, n
<1>2. n * b + b <= m * b /\ n * b \in Int /\ m * b \in Int
  BY <1>1, Multiples
<1> QED
  BY <1>1, <1>2

LEMMA ClampMonotone ==
    \A high \in Nat : \A x, y \in Int : x <= y => Clamp(x, 0, high) <= Clamp(y, 0, high)
BY DEF Clamp

-----------------------------------------------------------------------------
(***************************************************************************)
(* Percentile mode: the nearest percentage                                 *)
(***************************************************************************)
Gap(x, y) == IF x <= y THEN y - x ELSE x - y

LEMMA Nearest ==
    ASSUME NEW a \in Int, NEW b \in Nat \ {0}, NEW n \in Nat, n <= 10000
    PROVE  Gap(Clamp(RoundDiv(a, b), 0, 10000) * b, a) <= Gap(n * b, a)
<1> DEFINE r == RoundDiv(a, b)
           s == Clamp(r, 0, 10000)
<1>1. r \in Int /\ 2 * (r * b) <= 2 * a + b /\ 2 * a < 2 * (r * b) + b
  BY RoundDivIs
<1> HIDE DEF r
<1>2. s \in Int
  BY <1>1 DEF Clamp
<1>3. \/ s = r
      \/ r + 1 <= s /\ s <= n
      \/ s + 1 <= r /\ n <= s
  BY <1>1 DEF Clamp
<1> HIDE DEF s
<1> DEFINE rb == r * b
           sb == s * b
           nb == n * b
<1>4. /\ (r + 1 <= n => rb + b <= nb) /\ (n + 1 <= r => nb + b <= rb)
      /\ (r + 1 <= s => rb + b <= sb) /\ (s + 1 <= r => sb + b <= rb)
      /\ (s <= n => sb <= nb) /\ (n <= s => nb <= sb)
  BY <1>1, <1>2, Multiples
<1>5. rb \in Int /\ sb \in Int /\ nb \in Int /\ 2 * rb <= 2 * a + b /\ 2 * a < 2 * rb + b
  BY <1>1, <1>2
<1>6. (s = r => sb = rb) /\ (n = r => nb = rb)
  OBVIOUS
<1> HIDE DEF rb, sb, nb
<1>7. Gap(sb, a) <= Gap(nb, a)
  BY <1>1, <1>2, <1>3, <1>4, <1>5, <1>6 DEF Gap
<1> QED
  BY <1>7 DEF sb, nb, s, r

\* "round(($totalPoints / $possiblePoints) * 100, 2)" with its limits: of all the
\* hundredths of a percent from 0 to 100% the score is one that is nearest to the share
\* of the possible points, and there is none only where no points are possible.
THEOREM PercentileScoreIsNearest ==
    ASSUME NEW tbl, TableOK("percentile", tbl)
    PROVE  /\ TotalPossible(tbl) = 0 => CalculateScore("percentile", tbl) = Null
           /\ TotalPossible(tbl) # 0 =>
                \A n \in Nat : n <= 10000 =>
                   Gap(CalculateScore("percentile", tbl) * TotalPossible(tbl), 10000 * TotalPoints(tbl))
                   <= Gap(n * TotalPossible(tbl), 10000 * TotalPoints(tbl))
<1> DEFINE a == 10000 * TotalPoints(tbl)
           b == TotalPossible(tbl)
<1>1. a \in Int /\ b \in Nat
  BY TotalsOK
<1>2. Scorable(tbl) = {} => b = 0
  <2>1. PICK g : IsSum(g, BestOf(tbl), Scorable(tbl)) /\ b = g[Scorable(tbl)]
    BY TotalsAreSums
  <2> QED
    BY <2>1 DEF IsSum, IsFold, FoldStep, Unit
<1>3. (\A q \in Questions : ~Row(tbl, q)) => Scorable(tbl) = {}
  BY DEF Scorable
<1>4. CalculateScore("percentile", tbl) = IF b = 0 THEN Null ELSE Clamp(RoundDiv(a, b), 0, 10000)
  BY <1>2, <1>3, PercentileIs DEF CalculateScore
<1> HIDE DEF a, b
<1>5. b # 0 => \A n \in Nat : n <= 10000 => Gap(Clamp(RoundDiv(a, b), 0, 10000) * b, a) <= Gap(n * b, a)
  BY <1>1, Nearest
<1> QED
  BY <1>4, <1>5 DEF a, b

-----------------------------------------------------------------------------
(***************************************************************************)
(* A raised mark never lowers the score                                    *)
(***************************************************************************)
\* What a grader raises: a number, or weights of the same categories.
Higher(mode, old, new) ==
    IF mode = "percentile" THEN old <= new
    ELSE DOMAIN old = DOMAIN new /\ \A c \in DOMAIN old : old[c] <= new[c]

\* The tables differ in one mark, which is higher in t2.
Raised(mode, t1, t2, q) ==
    /\ TableOK(mode, t1) /\ TableOK(mode, t2) /\ q \in Questions /\ Written(q)
    /\ Row(t1, q) /\ t1[q].grade # Null /\ Row(t2, q) /\ t2[q].grade # Null
    /\ \A p \in Questions \ {q} : t2[p] = t1[p]
    /\ Higher(mode, t1[q].grade, t2[q].grade)

\* Neither score is missing, or both are.
NoLower(s1, s2) == s1 = s2 \/ (s1 \in Int /\ s2 \in Int /\ s1 <= s2)

LEMMA RaisedScorable ==
    ASSUME NEW mode, NEW t1, NEW t2, NEW q, Raised(mode, t1, t2, q)
    PROVE  /\ Scorable(t1) = Scorable(t2) /\ q \in Scorable(t1)
           /\ \A p \in Scorable(t1) : p # q => t1[p] = t2[p]
           /\ q \in Questions /\ Written(q) /\ Higher(mode, t1[q].grade, t2[q].grade)
<1>1. q \in Scorable(t1) /\ q \in Scorable(t2)
  BY DEF Raised, Scorable
<1>2. \A p \in Questions \ {q} : p \in Scorable(t1) <=> p \in Scorable(t2)
  BY DEF Scorable, Row, Raised
<1>3. Scorable(t1) = Scorable(t2)
  BY <1>1, <1>2, ScorableFinite
<1> QED
  BY <1>1, <1>3, ScorableFinite DEF Raised

LEMMA PercentileRaised ==
    ASSUME NEW t1, NEW t2, NEW q, Raised("percentile", t1, t2, q)
    PROVE  NoLower(CalculatePercentileScore(t1), CalculatePercentileScore(t2))
<1> DEFINE qs == Scorable(t1)
           id == [p \in qs |-> p]
<1>1. TableOK("percentile", t1) /\ TableOK("percentile", t2)
  BY DEF Raised
<1>2. Scorable(t2) = qs /\ IsFiniteSet(qs) /\ qs \in SUBSET qs
  BY RaisedScorable, ScorableFinite
<1>3. \A p \in qs : QuestionScore(t1, p).max = QuestionScore(t2, p).max
  <2>1. \A p \in qs : p # q => QuestionScore(t1, p) = QuestionScore(t2, p)
    BY RaisedScorable DEF QuestionScore
  <2>2. QuestionScore(t1, q).max = QuestionScore(t2, q).max
    BY RaisedScorable DEF QuestionScore
  <2> QED
    BY <2>1, <2>2
<1>4. BestOf(t1) = BestOf(t2)
  BY <1>2, <1>3 DEF BestOf
<1>5. TotalPossible(t1) = TotalPossible(t2)
  <2>1. PICK g : IsSum(g, BestOf(t1), qs) /\ TotalPossible(t1) = g[qs]
    BY TotalsAreSums
  <2>2. PICK k : IsSum(k, BestOf(t1), qs) /\ TotalPossible(t2) = k[qs]
    BY <1>2, <1>4, TotalsAreSums
  <2> HIDE DEF qs
  <2> QED
    BY <1>2, <2>1, <2>2, FoldUnique DEF IsSum
<1>6. \A p \in qs : PointsOf(t1)[p] <= PointsOf(t2)[p]
  <2> SUFFICES ASSUME NEW p \in qs PROVE PointsOf(t1)[p] <= PointsOf(t2)[p]
    OBVIOUS
  <2>1. PointsOf(t1)[p] \in Int /\ PointsOf(t2)[p] \in Int
    BY <1>1, <1>2, QuestionPoints
  <2>2. PointsOf(t1)[p] = QuestionScore(t1, p).score /\ PointsOf(t2)[p] = QuestionScore(t2, p).score
    BY <1>2 DEF PointsOf
  <2>3. CASE p = q
    <3>1. PointsOf(t1)[p] = t1[q].grade /\ PointsOf(t2)[p] = t2[q].grade
      BY <2>2, <2>3, RaisedScorable DEF QuestionScore
    <3> QED
      BY <3>1, RaisedScorable DEF Higher
  <2>4. CASE p # q
    <3>1. QuestionScore(t1, p) = QuestionScore(t2, p)
      BY <2>4, RaisedScorable DEF QuestionScore
    <3> QED
      BY <2>1, <2>2, <3>1
  <2> QED
    BY <2>3, <2>4
<1>7. TotalPoints(t1) <= TotalPoints(t2)
  <2>1. PICK g : IntSum(g, PointsOf(t1), qs) /\ TotalPoints(t1) = g[qs]
    BY <1>1, TotalsOK
  <2>2. PICK k : IntSum(k, PointsOf(t2), qs) /\ TotalPoints(t2) = k[qs]
    BY <1>1, <1>2, TotalsOK
  <2>3. Matches(id, qs, qs) /\ \A p \in qs : PointsOf(t1)[p] <= PointsOf(t2)[id[p]]
    BY <1>6 DEF Matches
  <2> HIDE DEF qs, id
  <2> QED
    BY <2>1, <2>2, <2>3, SumCompare
<1> DEFINE x == 10000 * TotalPoints(t1)
           y == 10000 * TotalPoints(t2)
           b == TotalPossible(t1)
<1>8. x \in Int /\ y \in Int /\ x <= y /\ b \in Nat
  BY <1>1, <1>7, TotalsOK
<1>9. \/ CalculatePercentileScore(t1) = CalculatePercentileScore(t2)
      \/ /\ b # 0
         /\ CalculatePercentileScore(t1) = Clamp(RoundDiv(x, b), 0, 10000)
         /\ CalculatePercentileScore(t2) = Clamp(RoundDiv(y, b), 0, 10000)
  BY <1>2, <1>5, PercentileIs
<1> HIDE DEF x, y, b
<1>10. ASSUME b # 0
       PROVE  NoLower(Clamp(RoundDiv(x, b), 0, 10000), Clamp(RoundDiv(y, b), 0, 10000))
  <2>1. b \in Nat \ {0}
    BY <1>8, <1>10
  <2>2. RoundDiv(x, b) \in Int /\ RoundDiv(y, b) \in Int /\ RoundDiv(x, b) <= RoundDiv(y, b)
    BY <1>8, <2>1, RoundDivMonotone, RoundDivType
  <2> QED
    BY <2>2, ClampMonotone DEF NoLower, Clamp
<1> QED
  BY <1>9, <1>10 DEF NoLower

\* The entries of a table, one by one.
MarkEntry(tbl, p, c) == <<p, c, tbl[p].grade[c]>>
AnswerEntry(a, c) == <<a, c, AnswerWeights[a][c]>>

LEMMA EntryIs ==
    ASSUME NEW tbl, NEW e
    PROVE  e \in WeightEntries(tbl) <=>
              \/ \E p \in Scorable(tbl) : \E c \in DOMAIN tbl[p].grade : Written(p) /\ e = MarkEntry(tbl, p, c)
              \/ \E p \in Scorable(tbl) : \E a \in tbl[p].answer.ids \cap DOMAIN AnswerWeights :
                    \E c \in DOMAIN AnswerWeights[a] : ~Written(p) /\ e = AnswerEntry(a, c)
<1> DEFINE Marked(p) == {<<p, c, tbl[p].grade[c]>> : c \in DOMAIN tbl[p].grade}
           Weighed(a) == {<<a, c, AnswerWeights[a][c]>> : c \in DOMAIN AnswerWeights[a]}
           Picked(p) == tbl[p].answer.ids \cap DOMAIN AnswerWeights
           Of(p) == IF Written(p) THEN Marked(p) ELSE UNION {Weighed(a) : a \in Picked(p)}
<1>1. WeightEntries(tbl) = UNION {Of(p) : p \in Scorable(tbl)}
  BY DEF WeightEntries
<1>2. \A p : e \in Marked(p) <=> \E c \in DOMAIN tbl[p].grade : e = MarkEntry(tbl, p, c)
  BY DEF MarkEntry
<1>3. \A a : e \in Weighed(a) <=> \E c \in DOMAIN AnswerWeights[a] : e = AnswerEntry(a, c)
  BY DEF AnswerEntry
<1> HIDE DEF Marked, Weighed
<1>4. \A p : e \in Of(p) <=> IF Written(p) THEN e \in Marked(p) ELSE \E a \in Picked(p) : e \in Weighed(a)
  OBVIOUS
<1> HIDE DEF Of
<1>5. e \in WeightEntries(tbl) <=> \E p \in Scorable(tbl) : e \in Of(p)
  BY <1>1
<1> QED
  BY <1>2, <1>3, <1>4, <1>5

\* An entry of the raised response in either table, and an entry of any other.
LEMMA EntryOfQuestion ==
    ASSUME NEW tbl, NEW q \in Questions, Written(q), NEW e \in WeightEntries(tbl), e[1] = q
    PROVE  q \in Scorable(tbl) /\ \E c \in DOMAIN tbl[q].grade : e = MarkEntry(tbl, q, c)
<1>1. ASSUME NEW p \in Scorable(tbl), NEW a \in tbl[p].answer.ids \cap DOMAIN AnswerWeights,
             NEW c \in DOMAIN AnswerWeights[a], e = AnswerEntry(a, c)
      PROVE  FALSE
  <2>1. e[1] = a
    BY <1>1 DEF AnswerEntry
  <2> QED
    BY <2>1, WeightsAssumption
<1>2. PICK p \in Scorable(tbl) : \E c \in DOMAIN tbl[p].grade : Written(p) /\ e = MarkEntry(tbl, p, c)
  BY <1>1, EntryIs
<1>3. p = q
  BY <1>2 DEF MarkEntry
<1> QED
  BY <1>2, <1>3

LEMMA EntryOfOther ==
    ASSUME NEW t1, NEW t2, NEW q, Scorable(t1) = Scorable(t2),
           \A p \in Scorable(t1) : p # q => t1[p] = t2[p], Written(q),
           NEW e \in WeightEntries(t1), e[1] # q
    PROVE  e \in WeightEntries(t2)
<1>1. CASE \E p \in Scorable(t1) : \E c \in DOMAIN t1[p].grade : Written(p) /\ e = MarkEntry(t1, p, c)
  <2>0. PICK p \in Scorable(t1) : \E c \in DOMAIN t1[p].grade : Written(p) /\ e = MarkEntry(t1, p, c)
    BY <1>1
  <2>1. PICK c \in DOMAIN t1[p].grade : Written(p) /\ e = MarkEntry(t1, p, c)
    BY <2>0
  <2>2. p # q
    BY <2>1 DEF MarkEntry
  <2>3. p \in Scorable(t2) /\ c \in DOMAIN t2[p].grade /\ e = MarkEntry(t2, p, c)
    BY <2>1, <2>2 DEF MarkEntry
  <2> QED
    BY <2>1, <2>3, EntryIs
<1>2. CASE \E p \in Scorable(t1) : \E a \in t1[p].answer.ids \cap DOMAIN AnswerWeights :
              \E c \in DOMAIN AnswerWeights[a] : ~Written(p) /\ e = AnswerEntry(a, c)
  <2>1. PICK p \in Scorable(t1) : ~Written(p) /\ \E a \in t1[p].answer.ids \cap DOMAIN AnswerWeights :
                                     \E c \in DOMAIN AnswerWeights[a] : e = AnswerEntry(a, c)
    BY <1>2
  <2>2. p \in Scorable(t2) /\ t1[p] = t2[p]
    BY <2>1
  <2> QED
    BY <2>1, <2>2, EntryIs
<1> QED
  BY <1>1, <1>2, EntryIs

\* The entries of the two tables match, category by category.
LEMMA RaisedEntries ==
    ASSUME NEW t1, NEW t2, NEW q, Raised("categorical", t1, t2, q)
    PROVE  \E h : /\ Matches(h, WeightEntries(t1), WeightEntries(t2))
                  /\ \A e \in WeightEntries(t1) : h[e][2] = e[2] /\ e[3] <= h[e][3]
<1> DEFINE E1 == WeightEntries(t1)
           E2 == WeightEntries(t2)
           h == [e \in E1 |-> IF e[1] = q THEN MarkEntry(t2, q, e[2]) ELSE e]
<1>0. /\ Scorable(t1) = Scorable(t2) /\ q \in Scorable(t1) /\ q \in Questions /\ Written(q)
      /\ \A p \in Scorable(t1) : p # q => t1[p] = t2[p]
      /\ DOMAIN t1[q].grade = DOMAIN t2[q].grade
      /\ \A c \in DOMAIN t1[q].grade : t1[q].grade[c] <= t2[q].grade[c]
  BY RaisedScorable DEF Higher
<1>1. \A e \in E1 : e[1] = q => \E c \in DOMAIN t1[q].grade : e = MarkEntry(t1, q, c)
  BY <1>0, EntryOfQuestion
<1>2. \A e \in E2 : e[1] = q => \E c \in DOMAIN t1[q].grade : e = MarkEntry(t2, q, c)
  BY <1>0, EntryOfQuestion
<1>3. /\ \A e \in E1 : e[1] # q => e \in E2
      /\ \A e \in E2 : e[1] # q => e \in E1
  BY <1>0, EntryOfOther
<1>4. \A c \in DOMAIN t1[q].grade : MarkEntry(t1, q, c) \in E1 /\ MarkEntry(t2, q, c) \in E2
  BY <1>0, EntryIs
<1>5. \A e \in E1 : e[3] \in Int
  BY EntriesOK DEF Raised
<1> HIDE DEF E1, E2
<1>6. \A e \in E1 : e[1] = q => /\ e[2] \in DOMAIN t1[q].grade /\ e = MarkEntry(t1, q, e[2])
                                /\ h[e] = MarkEntry(t2, q, e[2])
  BY <1>1 DEF MarkEntry
<1>7. \A e \in E1 : e[1] # q => h[e] = e
  OBVIOUS
<1> HIDE DEF h
<1>8. \A e \in E1 : h[e] \in E2 /\ h[e][1] = e[1] /\ h[e][2] = e[2]
  <2> SUFFICES ASSUME NEW e \in E1 PROVE h[e] \in E2 /\ h[e][1] = e[1] /\ h[e][2] = e[2]
    OBVIOUS
  <2>1. CASE e[1] = q
    BY <1>4, <1>6, <2>1 DEF MarkEntry
  <2>2. CASE e[1] # q
    BY <1>3, <1>7, <2>2
  <2> QED
    BY <2>1, <2>2
<1>9. \A y \in E2 : \E e \in E1 : h[e] = y
  <2> SUFFICES ASSUME NEW y \in E2 PROVE \E e \in E1 : h[e] = y
    OBVIOUS
  <2>1. CASE y[1] = q
    <3>1. PICK c \in DOMAIN t1[q].grade : y = MarkEntry(t2, q, c)
      BY <1>2, <2>1
    <3>2. MarkEntry(t1, q, c) \in E1 /\ MarkEntry(t1, q, c)[1] = q /\ MarkEntry(t1, q, c)[2] = c
      BY <1>4 DEF MarkEntry
    <3> QED
      BY <1>6, <3>1, <3>2
  <2>2. CASE y[1] # q
    BY <1>3, <1>7, <2>2
  <2> QED
    BY <2>1, <2>2
<1>10. \A e, f \in E1 : h[e] = h[f] => e = f
  <2> SUFFICES ASSUME NEW e \in E1, NEW f \in E1, h[e] = h[f] PROVE e = f
    OBVIOUS
  <2>1. e[1] = f[1] /\ e[2] = f[2]
    BY <1>8
  <2>2. CASE e[1] = q
    BY <1>6, <2>1, <2>2
  <2>3. CASE e[1] # q
    BY <1>7, <2>1, <2>3
  <2> QED
    BY <2>2, <2>3
<1>11. \A e \in E1 : e[3] <= h[e][3]
  <2> SUFFICES ASSUME NEW e \in E1 PROVE e[3] <= h[e][3]
    OBVIOUS
  <2>1. CASE e[1] = q
    <3>1. e[3] = t1[q].grade[e[2]] /\ h[e][3] = t2[q].grade[e[2]]
      BY <1>6, <2>1 DEF MarkEntry
    <3> QED
      BY <1>0, <1>6, <2>1, <3>1
  <2>2. CASE e[1] # q
    BY <1>5, <1>7, <2>2
  <2> QED
    BY <2>1, <2>2
<1> QED
  BY <1>8, <1>9, <1>10, <1>11 DEF Matches, E1, E2

\* Matched entries: the same categories, as many weights in each, and no lower a sum.
LEMMA MatchedCategories ==
    ASSUME NEW E1, NEW E2, Weighted(E1), Weighted(E2),
           NEW h, Matches(h, E1, E2), \A e \in E1 : h[e][2] = e[2] /\ e[3] <= h[e][3]
    PROVE  /\ Cats(E1) = Cats(E2)
           /\ \A c \in Cats(E1) : /\ Denominator(E1, c) = Denominator(E2, c)
                                  /\ Total(E1, c) <= Total(E2, c)
<1>1. Cats(E1) = Cats(E2)
  BY DEF Cats, Matches
<1>2. \A c \in Cats(E1) : Matches(h, OfCat(E1, c), OfCat(E2, c))
  BY DEF Matches, OfCat
<1>3. ASSUME NEW c \in Cats(E1) PROVE Denominator(E1, c) = Denominator(E2, c)
  <2> DEFINE S == OfCat(E1, c)
             T == OfCat(E2, c)
             f == [e \in S |-> h[e]]
  <2>1. Matches(h, S, T) /\ IsFiniteSet(S)
    BY <1>2, <1>3, CategoriesOK
  <2> HIDE DEF S, T
  <2>2. f \in Bijection(S, T)
    BY <2>1 DEF Matches, Bijection, Injection, Surjection, IsInjective
  <2> HIDE DEF f
  <2>3. ExistsBijection(S, T)
    BY <2>2 DEF ExistsBijection
  <2>4. Cardinality(T) = Cardinality(S)
    BY <2>1, <2>3, FS_Bijection
  <2> QED
    BY <2>4 DEF Denominator, S, T
<1>4. ASSUME NEW c \in Cats(E1) PROVE Total(E1, c) <= Total(E2, c)
  <2> DEFINE S == OfCat(E1, c)
             T == OfCat(E2, c)
             F == Weights(E1, c)
             G == Weights(E2, c)
  <2>1. PICK g : IntSum(g, F, S) /\ Total(E1, c) = g[S]
    BY <1>4, TotalIsSum
  <2>2. PICK k : IntSum(k, G, T) /\ Total(E2, c) = k[T]
    BY <1>1, <1>4, TotalIsSum
  <2>3. Matches(h, S, T)
    BY <1>2, <1>4
  <2>4. \A e \in S : F[e] <= G[h[e]]
    <3>1. \A e \in S : e \in E1 /\ h[e] \in T
      BY <2>3 DEF Matches, OfCat
    <3> QED
      BY <3>1 DEF Weights
  <2> HIDE DEF S, T, F, G
  <2> QED
    BY <2>1, <2>2, <2>3, <2>4, SumCompare
<1> QED
  BY <1>1, <1>3, <1>4

LEMMA MatchedScores ==
    ASSUME NEW E1, NEW E2, Weighted(E1), Weighted(E2), Cats(E1) = Cats(E2),
           \A c \in Cats(E1) : /\ Denominator(E1, c) = Denominator(E2, c)
                               /\ Total(E1, c) <= Total(E2, c)
    PROVE  Common(E1) = Common(E2) /\ SumOfScores(E1) <= SumOfScores(E2)
<1> DEFINE S == Cats(E1)
           b == Common(E1)
           id == [c \in S |-> c]
<1>1. Common(E2) = b /\ b \in Nat \ {0}
  <2>1. Denominators(E1) = Denominators(E2)
    BY DEF Denominators
  <2> QED
    BY <2>1, CommonPositive DEF Common
<1>2. ASSUME NEW c \in S PROVE CategoryScore(E1, c) <= CategoryScore(E2, c)
  <2> DEFINE d == Denominator(E1, c)
             k == b \div d
             x == Total(E1, c)
             y == Total(E2, c)
  <2>1. x \in Int /\ y \in Int /\ x <= y
    BY <1>2, TotalIsSum
  <2>2. \A m, n \in Nat \ {0} : m \div n \in Nat
    OBVIOUS
  <2>3. k \in Nat
    BY <1>1, <1>2, <2>2, CategoriesOK
  <2>4. CategoryScore(E1, c) = Clamp(x * k, 0, b) /\ CategoryScore(E2, c) = Clamp(y * k, 0, b)
    BY <1>1, <1>2 DEF CategoryScore
  <2> HIDE DEF b, k, x, y
  <2>5. x * k <= y * k /\ x * k \in Int /\ y * k \in Int
    BY <2>1, <2>3, Multiples
  <2> QED
    BY <1>1, <2>4, <2>5, ClampMonotone
<1>3. SumOfScores(E1) <= SumOfScores(E2)
  <2> DEFINE F == CategoryScoresOf(E1)
             G == CategoryScoresOf(E2)
  <2>1. PICK g : IntSum(g, F, S) /\ SumOfScores(E1) = g[S]
    BY ScoresAreSum
  <2>2. PICK k : IntSum(k, G, S) /\ SumOfScores(E2) = k[S]
    BY ScoresAreSum
  <2>3. Matches(id, S, S) /\ \A c \in S : F[c] <= G[id[c]]
    BY <1>2 DEF Matches, CategoryScoresOf
  <2> HIDE DEF S, F, G, id
  <2> QED
    BY <2>1, <2>2, <2>3, SumCompare
<1> QED
  BY <1>1, <1>3

LEMMA CategoricalRaised ==
    ASSUME NEW t1, NEW t2, NEW q, Raised("categorical", t1, t2, q)
    PROVE  NoLower(CalculateCategoricalScore(t1), CalculateCategoricalScore(t2))
<1> DEFINE E1 == WeightEntries(t1)
           E2 == WeightEntries(t2)
           b == Cardinality(Cats(E1)) * Common(E1)
           x == 10000 * SumOfScores(E1)
           y == 10000 * SumOfScores(E2)
<1>1. Weighted(E1) /\ Weighted(E2)
  BY EntriesOK DEF Raised, Weighted
<1>2. PICK h : Matches(h, E1, E2) /\ \A e \in E1 : h[e][2] = e[2] /\ e[3] <= h[e][3]
  BY RaisedEntries
<1>3. CalculateCategoricalScore(t1) = IF Cats(E1) = {} THEN Null ELSE RoundDiv(x, b)
  BY CategoricalIs
<1>4. CalculateCategoricalScore(t2) =
         IF Cats(E2) = {} THEN Null ELSE RoundDiv(y, Cardinality(Cats(E2)) * Common(E2))
  BY CategoricalIs
<1> HIDE DEF E1, E2
<1>5. /\ Cats(E1) = Cats(E2)
      /\ \A c \in Cats(E1) : Denominator(E1, c) = Denominator(E2, c) /\ Total(E1, c) <= Total(E2, c)
  BY <1>1, <1>2, MatchedCategories
<1>6. Common(E1) = Common(E2) /\ SumOfScores(E1) <= SumOfScores(E2)
  BY <1>1, <1>5, MatchedScores
<1>7. ASSUME Cats(E1) # {} PROVE NoLower(RoundDiv(x, b), RoundDiv(y, b))
  <2>1. b \in Nat \ {0}
    BY <1>1, <1>7, WholePositive
  <2>2. SumOfScores(E1) \in Int /\ SumOfScores(E2) \in Int
    <3>1. Cardinality(Cats(E2)) * Common(E2) \in Nat
      BY <2>1, <1>5, <1>6
    <3> QED
      BY <1>1, <2>1, <3>1, ScoresAreSum
  <2>3. x \in Int /\ y \in Int /\ x <= y
    BY <1>6, <2>2
  <2> HIDE DEF b, x, y
  <2> QED
    BY <2>1, <2>3, RoundDivMonotone, RoundDivType DEF NoLower
<1>8. CalculateCategoricalScore(t2) = IF Cats(E1) = {} THEN Null ELSE RoundDiv(y, b)
  BY <1>4, <1>5, <1>6
<1> HIDE DEF b, x, y
<1> QED
  BY <1>3, <1>7, <1>8 DEF NoLower

\* Grading is monotone: a mark that is raised, or weights of the same categories that are,
\* never lower what calculateScore returns, and never make a score appear or vanish.
THEOREM RaisedMarksNeverLower ==
    ASSUME NEW mode \in ScoringModes, NEW t1, NEW t2, NEW q, Raised(mode, t1, t2, q)
    PROVE  NoLower(CalculateScore(mode, t1), CalculateScore(mode, t2))
<1>1. ~\A p \in Questions : ~Row(t1, p)
  BY DEF Raised
<1>2. ~\A p \in Questions : ~Row(t2, p)
  BY DEF Raised
<1> QED
  BY <1>1, <1>2, PercentileRaised, CategoricalRaised DEF CalculateScore, ScoringModes
=============================================================================
