----------------------------- MODULE Induction -----------------------------
(***************************************************************************)
(* Induction over finite sets and natural numbers, and sums.               *)
(*                                                                         *)
(* A statement about all subsets of a finite set is proved by the minimal  *)
(* one that violates it: the set of those subsets is a set, so no theorem  *)
(* with an operator parameter is needed.  In this way MapThenSumSet, which *)
(* is a CHOOSE of a function that satisfies its own equation, is shown to  *)
(* satisfy it, and then to be a sum in whatever order it is taken.         *)
(***************************************************************************)
EXTENDS Integers, FiniteSetsExt, FiniteSetTheorems, TLAPS

\* Every non-empty set of subsets of a finite set has a minimal one.
LEMMA MinimalSubset ==
    ASSUME NEW S, IsFiniteSet(S), NEW T, T \subseteq SUBSET S, T # {}
    PROVE  \E m \in T : \A u \in T : u \subseteq m => u = m
<1> DEFINE R == StrictSubsetOrdering(S)
<1>1. IsWellFoundedOn(R, SUBSET S)
  BY FS_StrictSubsetOrderingWellFounded, FS_FiniteSubsetsOfFinite
<1> HIDE DEF R
<1>2. PICK m \in T : \A u \in T : <<u, m>> \notin R
  BY <1>1, WFMin
<1>3. \A u \in T : u \subseteq m => u = m
  BY <1>2 DEF R, StrictSubsetOrdering
<1> QED BY <1>2, <1>3

\* Every non-empty set of natural numbers has a least one.
LEMMA LeastNatural ==
    ASSUME NEW T, T \subseteq Nat, T # {}
    PROVE  \E m \in T : \A n \in T : m <= n
<1>1. PICK top \in T : TRUE OBVIOUS
<1> DEFINE D == 0..top
           F == {0..k : k \in {n \in T : n <= top}}
<1>2. IsFiniteSet(D) BY <1>1, FS_Interval
<1>3. F \subseteq SUBSET D /\ F # {} BY <1>1
<1>4. PICK m \in F : \A u \in F : u \subseteq m => u = m
  <2> HIDE DEF D, F
  <2> QED BY <1>2, <1>3, MinimalSubset
<1>5. PICK k \in T : m = 0..k /\ k <= top BY <1>4
<1>6. \A n \in T : n < k => 0..n \in F BY <1>1, <1>5
<1>7. \A n \in T : n < k => k \in 0..n
  <2> SUFFICES ASSUME NEW n \in T, n < k PROVE k \in 0..n OBVIOUS
  <2>1. 0..n \in F BY <1>6
  <2>2. 0..n \subseteq m BY <1>5
  <2>3. 0..n = 0..k BY <1>4, <1>5, <2>1, <2>2
  <2>4. k \in 0..k BY <1>5
  <2> QED BY <2>3, <2>4
<1> QED BY <1>5, <1>7

\* A finite set of natural numbers has a greatest one, which is its Max.
LEMMA GreatestNatural ==
    ASSUME NEW S, IsFiniteSet(S), \A n \in S : n \in Nat, S # {}
    PROVE  Max(S) \in S /\ \A n \in S : n <= Max(S)
<1> DEFINE Topped(s) == \E y \in s : \A n \in s : n <= y
           T == {s \in SUBSET S : s # {} /\ ~Topped(s)}
<1>1. T = {}
  <2> SUFFICES ASSUME T # {} PROVE FALSE OBVIOUS
  <2>1. PICK m \in T : \A u \in T : u \subseteq m => u = m
    <3>1. T \subseteq SUBSET S OBVIOUS
    <3> HIDE DEF T
    <3> QED BY <3>1, MinimalSubset
  <2>2. PICK x \in m : TRUE OBVIOUS
  <2>3. m \ {x} # {} BY <2>2
  <2>4. m \ {x} \in SUBSET S /\ m \ {x} \notin T BY <2>1, <2>2
  <2>5. Topped(m \ {x})
    <3> HIDE DEF Topped
    <3> QED BY <2>3, <2>4
  <2>6. PICK y \in m \ {x} : \A n \in m \ {x} : n <= y BY <2>5
  <2>7. y \in Nat /\ x \in Nat /\ m \subseteq Nat BY <2>2
  <2>8. CASE x <= y BY <2>6, <2>8
  <2>9. CASE y < x
    <3>1. \A n \in m : n <= x BY <2>6, <2>7, <2>9
    <3> QED BY <2>2, <3>1
  <2> QED BY <2>7, <2>8, <2>9
<1>2. Topped(S)
  <2> HIDE DEF Topped
  <2> QED BY <1>1
<1>3. PICK m \in S : \A n \in S : n <= m BY <1>2
<1>4. \A n \in S : m >= n BY <1>3
<1>5. Max(S) \in S /\ \A n \in S : Max(S) >= n BY <1>4 DEF Max
<1> QED BY <1>5

-----------------------------------------------------------------------------
(* Sums *)

\* The sum of the numbers that f gives the members of S.
Total(f, S) == MapThenSumSet(LAMBDA w : f[w], S)

\* What MapThenSumSet chooses, and the equation it is to satisfy.
SumStep(f, g, s) == IF s = {} THEN 0
                    ELSE f[CHOOSE x \in s : TRUE] + g[s \ {CHOOSE x \in s : TRUE}]
IsSum(f, g, S) == g = [s \in SUBSET S |-> SumStep(f, g, s)]

LEMMA SumIsChosen ==
    ASSUME NEW f, NEW S
    PROVE  Total(f, S) = (CHOOSE g : IsSum(f, g, S))[S]
  BY DEF Total, MapThenSumSet, MapThenFoldSet, IsSum, SumStep

\* Two of these functions agree where both are defined.
LEMMA SumsAgree ==
    ASSUME NEW f, NEW S, IsFiniteSet(S), NEW U \in SUBSET S,
           NEW g, NEW h, IsSum(f, g, S), IsSum(f, h, U)
    PROVE  g[U] = h[U]
<1> DEFINE T == {s \in SUBSET U : g[s] # h[s]}
<1> SUFFICES ASSUME T # {} PROVE FALSE OBVIOUS
<1>1. PICK m \in T : \A u \in T : u \subseteq m => u = m
  <2>1. T \subseteq SUBSET U /\ IsFiniteSet(U) BY FS_Subset
  <2> HIDE DEF T
  <2> QED BY <2>1, MinimalSubset
<1>2. m \in SUBSET S /\ m \in SUBSET U OBVIOUS
<1>3. g[m] = SumStep(f, g, m) /\ h[m] = SumStep(f, h, m) BY <1>2 DEF IsSum
<1> DEFINE x == CHOOSE x \in m : TRUE
<1>4. CASE m = {} BY <1>3, <1>4 DEF SumStep
<1>5. CASE m # {}
  <2>1. x \in m BY <1>5
  <2>2. m \ {x} \in SUBSET U /\ m \ {x} \subseteq m /\ m \ {x} # m BY <1>2, <2>1
  <2>3. g[m \ {x}] = h[m \ {x}] BY <1>1, <2>2
  <2> QED BY <1>1, <1>3, <1>5, <2>3 DEF SumStep
<1> QED BY <1>4, <1>5

\* Such a function exists: on a minimal set without one, the functions of the
\* smaller sets could be put together.
LEMMA SumExists ==
    ASSUME NEW f, NEW S, IsFiniteSet(S)
    PROVE  \E g : IsSum(f, g, S)
<1> DEFINE T == {s \in SUBSET S : ~\E g : IsSum(f, g, s)}
<1> SUFFICES ASSUME T # {} PROVE FALSE OBVIOUS
<1>1. PICK m \in T : \A u \in T : u \subseteq m => u = m
  <2>1. T \subseteq SUBSET S OBVIOUS
  <2> HIDE DEF T
  <2> QED BY <2>1, MinimalSubset
<1> DEFINE G(u) == CHOOSE g : IsSum(f, g, u)
           x(s) == CHOOSE y \in s : TRUE
           less(s) == s \ {x(s)}
           h == [s \in SUBSET m |-> IF s = {} THEN 0
                                    ELSE f[x(s)] + G(less(s))[less(s)]]
<1>2. \A s \in SUBSET m : s # {} => less(s) \in SUBSET m /\ less(s) # m
  OBVIOUS
<1>3. \A u \in SUBSET m : u # m => IsSum(f, G(u), u) /\ IsFiniteSet(u)
  BY <1>1, FS_Subset
<1>4. \A u \in SUBSET m : u # m => h[u] = G(u)[u]
  <2> SUFFICES ASSUME NEW u \in SUBSET m, u # m PROVE h[u] = G(u)[u] OBVIOUS
  <2>0. IsSum(f, G(u), u) /\ IsFiniteSet(u) BY <1>3
  <2>1. G(u)[u] = SumStep(f, G(u), u) BY <2>0 DEF IsSum
  <2>2. CASE u = {} BY <2>1, <2>2 DEF SumStep
  <2>3. CASE u # {}
    <3>1. less(u) \in SUBSET u /\ less(u) # m /\ less(u) \in SUBSET m OBVIOUS
    <3>2. IsSum(f, G(less(u)), less(u)) BY <1>3, <3>1
    <3>3. G(u)[less(u)] = G(less(u))[less(u)] BY <2>0, <3>1, <3>2, SumsAgree
    <3> QED BY <2>1, <2>3, <3>3 DEF SumStep
  <2> QED BY <2>2, <2>3
<1>5. h = [s \in SUBSET m |-> SumStep(f, h, s)]
  <2>1. \A s \in SUBSET m : h[s] = SumStep(f, h, s)
    <3> SUFFICES ASSUME NEW s \in SUBSET m PROVE h[s] = SumStep(f, h, s) OBVIOUS
    <3>1. CASE s = {} BY <3>1 DEF SumStep
    <3>2. CASE s # {}
      <4>1. h[less(s)] = G(less(s))[less(s)] BY <1>2, <1>4, <3>2
      <4>2. h[s] = f[x(s)] + G(less(s))[less(s)] BY <3>2
      <4> HIDE DEF h, G
      <4> QED BY <3>2, <4>1, <4>2 DEF SumStep
    <3> QED BY <3>1, <3>2
  <2> QED BY <2>1
<1> QED BY <1>1, <1>5 DEF IsSum

\* The sum is the number of the element chosen first and the sum of the rest.
LEMMA SumEquation ==
    ASSUME NEW f, NEW S, IsFiniteSet(S)
    PROVE  Total(f, S) = IF S = {} THEN 0
                            ELSE LET x == CHOOSE x \in S : TRUE
                                 IN  f[x] + Total(f, S \ {x})
<1> DEFINE F(s) == CHOOSE g : IsSum(f, g, s)
<1>1. \A s : IsFiniteSet(s) => IsSum(f, F(s), s) BY SumExists
<1>2. \A s : Total(f, s) = F(s)[s] BY SumIsChosen
<1> HIDE DEF F
<1>3. F(S)[S] = SumStep(f, F(S), S) BY <1>1 DEF IsSum
<1>4. CASE S = {} BY <1>2, <1>3, <1>4 DEF SumStep
<1>5. CASE S # {}
  <2> DEFINE x == CHOOSE x \in S : TRUE
  <2>1. S \ {x} \in SUBSET S /\ IsFiniteSet(S \ {x}) BY FS_Subset
  <2>2. F(S)[S \ {x}] = F(S \ {x})[S \ {x}] BY <1>1, <2>1, SumsAgree
  <2> QED BY <1>2, <1>3, <1>5, <2>2 DEF SumStep
<1> QED BY <1>4, <1>5

NaturalOn(f, S) == \A w \in S : f[w] \in Nat

\* The sum over no elements.
LEMMA SumOfNone == ASSUME NEW f PROVE Total(f, {}) = 0
  BY SumEquation, FS_EmptySet

\* A sum of natural numbers is one.
LEMMA SumType ==
    ASSUME NEW f, NEW S, IsFiniteSet(S), NaturalOn(f, S)
    PROVE  Total(f, S) \in Nat
<1> DEFINE T == {s \in SUBSET S : Total(f, s) \notin Nat}
<1> SUFFICES ASSUME T # {} PROVE FALSE OBVIOUS
<1>1. PICK m \in T : \A u \in T : u \subseteq m => u = m
  <2>1. T \subseteq SUBSET S OBVIOUS
  <2> HIDE DEF T
  <2> QED BY <2>1, MinimalSubset
<1>2. IsFiniteSet(m) /\ m # {}
  <2>1. m \in SUBSET S /\ IsFiniteSet(m) BY FS_Subset
  <2>2. Total(f, {}) \in Nat BY SumOfNone
  <2> QED BY <1>1, <2>1, <2>2
<1> DEFINE x == CHOOSE x \in m : TRUE
<1>3. x \in m BY <1>2
<1>4. Total(f, m) = f[x] + Total(f, m \ {x}) BY <1>2, SumEquation
<1>5. Total(f, m \ {x}) \in Nat BY <1>1, <1>3
<1> QED BY <1>1, <1>3, <1>4, <1>5 DEF NaturalOn

\* Any element may be taken out.
LEMMA SumTakes ==
    ASSUME NEW f, NEW S, IsFiniteSet(S), NaturalOn(f, S), NEW w \in S
    PROVE  Total(f, S) = f[w] + Total(f, S \ {w})
<1> DEFINE Bad(s) == \E v \in s : Total(f, s) # f[v] + Total(f, s \ {v})
           T == {s \in SUBSET S : Bad(s)}
<1> SUFFICES ASSUME T # {} PROVE FALSE OBVIOUS
<1>1. PICK m \in T : \A u \in T : u \subseteq m => u = m
  <2>1. T \subseteq SUBSET S OBVIOUS
  <2> HIDE DEF T
  <2> QED BY <2>1, MinimalSubset
<1>2. PICK v \in m : Total(f, m) # f[v] + Total(f, m \ {v}) BY <1>1
<1> DEFINE x == CHOOSE x \in m : TRUE
<1>3. x \in m /\ IsFiniteSet(m) BY FS_Subset
<1>4. Total(f, m) = f[x] + Total(f, m \ {x}) BY <1>2, <1>3, SumEquation
<1>5. x # v BY <1>2, <1>4
<1>6. ~Bad(m \ {x}) /\ ~Bad(m \ {v})
  <2>1. \A y \in m : m \ {y} \in SUBSET S /\ m \ {y} \subseteq m /\ m \ {y} # m
    BY <1>1
  <2>2. m \ {x} \notin T /\ m \ {v} \notin T BY <1>1, <1>2, <1>3, <2>1
  <2> HIDE DEF Bad
  <2> QED BY <1>2, <1>3, <2>1, <2>2
<1>7. /\ Total(f, m \ {x}) = f[v] + Total(f, (m \ {x}) \ {v})
      /\ Total(f, m \ {v}) = f[x] + Total(f, (m \ {v}) \ {x})
  BY <1>2, <1>3, <1>5, <1>6
<1>8. (m \ {x}) \ {v} = (m \ {v}) \ {x} OBVIOUS
<1>9. /\ f[x] \in Nat /\ f[v] \in Nat
      /\ Total(f, (m \ {x}) \ {v}) \in Nat
  <2>1. (m \ {x}) \ {v} \subseteq S OBVIOUS
  <2> QED BY <1>1, <1>2, <1>3, <2>1, FS_Subset, SumType DEF NaturalOn
<1> QED BY <1>2, <1>4, <1>7, <1>8, <1>9

\* Functions that agree on a set have the same sum over it.
LEMMA SumSame ==
    ASSUME NEW f, NEW h, NEW S, IsFiniteSet(S),
           \A w \in S : f[w] = h[w]
    PROVE  Total(f, S) = Total(h, S)
<1> DEFINE T == {s \in SUBSET S : Total(f, s) # Total(h, s)}
<1> SUFFICES ASSUME T # {} PROVE FALSE OBVIOUS
<1>1. PICK m \in T : \A u \in T : u \subseteq m => u = m
  <2>1. T \subseteq SUBSET S OBVIOUS
  <2> HIDE DEF T
  <2> QED BY <2>1, MinimalSubset
<1>2. IsFiniteSet(m) /\ m # {}
  <2>1. m \in SUBSET S /\ IsFiniteSet(m) BY FS_Subset
  <2> QED BY <1>1, <2>1, SumOfNone
<1> DEFINE x == CHOOSE x \in m : TRUE
<1>3. x \in m BY <1>2
<1>4. /\ Total(f, m) = f[x] + Total(f, m \ {x})
      /\ Total(h, m) = h[x] + Total(h, m \ {x})
  BY <1>2, SumEquation
<1>5. Total(f, m \ {x}) = Total(h, m \ {x}) BY <1>1, <1>3
<1> QED BY <1>1, <1>3, <1>4, <1>5

\* A part adds up to no more than the whole.
LEMMA SumGrows ==
    ASSUME NEW f, NEW S, IsFiniteSet(S), NaturalOn(f, S), NEW U \in SUBSET S
    PROVE  Total(f, U) <= Total(f, S)
<1> DEFINE T == {s \in SUBSET S : U \subseteq s /\ ~(Total(f, U) <= Total(f, s))}
<1> SUFFICES ASSUME T # {} PROVE FALSE OBVIOUS
<1>1. PICK m \in T : \A u \in T : u \subseteq m => u = m
  <2>1. T \subseteq SUBSET S OBVIOUS
  <2> HIDE DEF T
  <2> QED BY <2>1, MinimalSubset
<1>2. IsFiniteSet(m) /\ IsFiniteSet(U) /\ NaturalOn(f, m) /\ NaturalOn(f, U)
  BY FS_Subset DEF NaturalOn
<1>3. Total(f, U) \in Nat BY <1>2, SumType
<1>4. PICK x \in m : x \notin U
  <2>1. U \subseteq m /\ U # m BY <1>1, <1>3
  <2> QED BY <2>1
<1>5. Total(f, m) = f[x] + Total(f, m \ {x}) BY <1>2, SumTakes
<1>6. Total(f, U) <= Total(f, m \ {x}) BY <1>1, <1>4
<1>7. Total(f, m \ {x}) \in Nat BY <1>2, SumType, FS_Subset DEF NaturalOn
<1>8. f[x] \in Nat BY <1>2 DEF NaturalOn
<1> QED BY <1>1, <1>3, <1>5, <1>6, <1>7, <1>8
=============================================================================
