---------------------------- MODULE BookLemmas ----------------------------
(***************************************************************************)
(* Facts the proofs about books share: sums over positions and deposits,   *)
(* floors, and what the rules of a round may come to.                      *)
(*                                                                         *)
(* SumFunctionOnSet(f, S), the sum of f over a finite set, is a fold that  *)
(* picks the set's elements one by one with CHOOSE: the lemmas show that   *)
(* it is an integer, that any element may be taken out first, and how it   *)
(* moves when one term, or the set, changes.  The library's induction      *)
(* theorems take a predicate as a parameter; the induction here is over    *)
(* sets of numbers instead, by way of a least element (NatLeast).          *)
(***************************************************************************)
EXTENDS LadderRules, FiniteSets, Functions, FiniteSetTheorems, NaturalsInduction,
        WellFoundedInduction, TLAPS

\* Every non-empty set of natural numbers has a least element.
LEMMA NatLeast ==
  ASSUME NEW T, T \subseteq Nat, T # {}
  PROVE  \E x \in T : \A y \in T : x <= y
<1> DEFINE R == {ss \in Nat \X Nat : ss[1] < ss[2]}
<1>1. IsWellFoundedOn(R, Nat)
  BY NatLessThanWellFounded, Zenon DEF OpToRel
<1>2. \A a, b \in Nat : a < b => <<a, b>> \in R
  OBVIOUS
<1> HIDE DEF R
<1>3. PICK x \in T : \A y \in T : ~ (<<y, x>> \in R)
  BY <1>1, WFMin, Zenon
<1>4. \A y \in T : ~ (y < x)
  BY <1>2, <1>3, Zenon
<1>5. \A y \in T : x <= y
  BY <1>4
<1> QED
  BY <1>5

\* Induction over a set of numbers.
LEMMA NatSetInduction ==
  ASSUME NEW Good, 0 \in Good, \A n \in Nat : n \in Good => n + 1 \in Good
  PROVE  Nat \subseteq Good
<1> DEFINE Bad == Nat \ Good
<1> SUFFICES ASSUME Bad # {} PROVE FALSE
  OBVIOUS
<1>1. PICK m \in Bad : \A k \in Bad : m <= k
  BY NatLeast
<1>2. m # 0
  OBVIOUS
<1>3. m - 1 \in Nat /\ m - 1 \notin Bad
  BY <1>1, <1>2
<1> QED
  BY <1>3

-----------------------------------------------------------------------------
(* The fold behind the sum is a function defined by recursion on the set.  *)

Pick(s) == CHOOSE x \in s : TRUE
FoldStep(f, g, s) == IF s = {} THEN 0 ELSE f[Pick(s)] + g[s \ {Pick(s)}]
Fold(f, S) == CHOOSE g : g = [s \in SUBSET S |-> FoldStep(f, g, s)]

LEMMA SumIsFold ==
  ASSUME NEW S, NEW f
  PROVE  SumFunctionOnSet(f, S) = Fold(f, S)[S]
BY DEF Fold, FoldStep, Pick, SumFunctionOnSet, FoldFunctionOnSet, MapThenFoldSet

LEMMA PickSmaller ==
  ASSUME NEW S, IsFiniteSet(S), NEW s \in SUBSET S, s # {}
  PROVE  /\ Pick(s) \in s
         /\ s \ {Pick(s)} \in SUBSET S
         /\ Cardinality(s \ {Pick(s)}) = Cardinality(s) - 1
         /\ Cardinality(s) \in Nat /\ Cardinality(s) # 0
<1>1. IsFiniteSet(s)
  BY FS_Subset
<1>2. Pick(s) \in s
  BY DEF Pick
<1>3. Cardinality(s) \in Nat /\ Cardinality(s) # 0
  BY <1>1, FS_CardinalityType, FS_EmptySet
<1> QED
  BY <1>1, <1>2, <1>3, FS_RemoveElement

\* A function satisfying the recursion exists, so CHOOSE picks one.
LEMMA FoldExists ==
  ASSUME NEW S, IsFiniteSet(S), NEW f, \A x \in S : f[x] \in Int
  PROVE  \A s \in SUBSET S : Fold(f, S)[s] = FoldStep(f, Fold(f, S), s)
<1> DEFINE Small(n) == {s \in SUBSET S : Cardinality(s) <= n}
           Upto(n)  == \E g \in [Small(n) -> Int] :
                         \A s \in Small(n) : g[s] = FoldStep(f, g, s)
           Good     == {n \in Nat : Upto(n)}
<1>1. \A s \in SUBSET S : Cardinality(s) \in Nat /\ (Cardinality(s) = 0 => s = {})
  BY FS_Subset, FS_CardinalityType, FS_EmptySet
<1>2. Upto(0)
  <2>1. \A s \in Small(0) : s = {}
    BY <1>1
  <2> WITNESS [s \in Small(0) |-> 0] \in [Small(0) -> Int]
  <2> QED
    BY <2>1 DEF FoldStep
<1>3. ASSUME NEW n \in Nat, Upto(n) PROVE Upto(n + 1)
  <2>1. PICK g \in [Small(n) -> Int] : \A s \in Small(n) : g[s] = FoldStep(f, g, s)
    BY <1>3
  <2> DEFINE h == [s \in Small(n + 1) |-> FoldStep(f, g, s)]
  <2>2. \A s \in Small(n + 1) : s # {} => Pick(s) \in S /\ s \ {Pick(s)} \in Small(n)
    BY <1>1, PickSmaller
  <2>3. h \in [Small(n + 1) -> Int]
    BY <2>1, <2>2 DEF FoldStep
  <2>4. \A s \in Small(n) : s \in Small(n + 1) /\ h[s] = g[s]
    BY <1>1, <2>1
  <2>5. ASSUME NEW s \in Small(n + 1) PROVE h[s] = FoldStep(f, h, s)
    <3>1. CASE s = {}
      BY <3>1 DEF FoldStep
    <3>2. CASE s # {}
      <4>1. h[s \ {Pick(s)}] = g[s \ {Pick(s)}]
        BY <3>2, <2>2, <2>4
      <4> HIDE DEF Small
      <4> QED
        BY <4>1, <3>2 DEF FoldStep
    <3> QED
      BY <3>1, <3>2
  <2> HIDE DEF h
  <2> QED
    BY <2>3, <2>5
<1> HIDE DEF Upto
<1> HIDE DEF Small
<1>4. Nat \subseteq Good
  <2>1. 0 \in Good
    BY <1>2
  <2>2. \A n \in Nat : n \in Good => n + 1 \in Good
    BY <1>3
  <2> HIDE DEF Good
  <2> QED
    BY <2>1, <2>2, NatSetInduction
<1>5. Small(Cardinality(S)) = SUBSET S
  BY FS_Subset DEF Small
<1> HIDE DEF Small
<1>6. PICK g \in [SUBSET S -> Int] : \A s \in SUBSET S : g[s] = FoldStep(f, g, s)
  BY <1>1, <1>4, <1>5 DEF Upto
<1>7. g = [s \in SUBSET S |-> FoldStep(f, g, s)]
  BY <1>6
<1>8. Fold(f, S) = [s \in SUBSET S |-> FoldStep(f, Fold(f, S), s)]
  BY <1>7 DEF Fold
<1> QED
  BY <1>8

LEMMA FoldEmpty ==
  ASSUME NEW S, IsFiniteSet(S), NEW f, \A x \in S : f[x] \in Int
  PROVE  Fold(f, S)[{}] = 0
BY FoldExists DEF FoldStep

LEMMA FoldInt ==
  ASSUME NEW S, IsFiniteSet(S), NEW f, \A x \in S : f[x] \in Int
  PROVE  \A s \in SUBSET S : Fold(f, S)[s] \in Int
<1> DEFINE Good == {n \in Nat : \A s \in SUBSET S :
                      Cardinality(s) = n => Fold(f, S)[s] \in Int}
<1>1. \A s \in SUBSET S : Cardinality(s) \in Nat /\ (Cardinality(s) = 0 => s = {})
  BY FS_Subset, FS_CardinalityType, FS_EmptySet
<1>2. 0 \in Good
  BY <1>1, FoldEmpty
<1>3. ASSUME NEW n \in Nat, n \in Good PROVE n + 1 \in Good
  <2> SUFFICES ASSUME NEW s \in SUBSET S, Cardinality(s) = n + 1
               PROVE  Fold(f, S)[s] \in Int
    OBVIOUS
  <2>1. s # {}
    BY FS_EmptySet
  <2>2. Pick(s) \in S /\ s \ {Pick(s)} \in SUBSET S /\ Cardinality(s \ {Pick(s)}) = n
    BY <2>1, PickSmaller
  <2>3. Fold(f, S)[s \ {Pick(s)}] \in Int /\ f[Pick(s)] \in Int
    BY <1>3, <2>2
  <2>4. Fold(f, S)[s] = f[Pick(s)] + Fold(f, S)[s \ {Pick(s)}]
    BY <2>1, FoldExists DEF FoldStep
  <2> QED
    BY <2>3, <2>4
<1> HIDE DEF Good
<1>4. Nat \subseteq Good
  BY <1>2, <1>3, NatSetInduction
<1> QED
  BY <1>1, <1>4 DEF Good

\* What a set sums to does not depend on the larger set it is summed within.
LEMMA FoldLocal ==
  ASSUME NEW S, IsFiniteSet(S), NEW T \in SUBSET S,
         NEW f, \A x \in S : f[x] \in Int,
         NEW g, \A x \in T : g[x] = f[x]
  PROVE  \A s \in SUBSET T : Fold(f, S)[s] = Fold(g, T)[s]
<1> DEFINE Good == {n \in Nat : \A s \in SUBSET T :
                      Cardinality(s) = n => Fold(f, S)[s] = Fold(g, T)[s]}
<1>1. \A s \in SUBSET S : Cardinality(s) \in Nat /\ (Cardinality(s) = 0 => s = {})
  BY FS_Subset, FS_CardinalityType, FS_EmptySet
<1>2. IsFiniteSet(T) /\ \A x \in T : g[x] \in Int
  BY FS_Subset
<1>3. 0 \in Good
  BY <1>1, <1>2, FoldEmpty
<1>4. ASSUME NEW n \in Nat, n \in Good PROVE n + 1 \in Good
  <2> SUFFICES ASSUME NEW s \in SUBSET T, Cardinality(s) = n + 1
               PROVE  Fold(f, S)[s] = Fold(g, T)[s]
    OBVIOUS
  <2>1. s # {}
    BY FS_EmptySet
  <2>2. Pick(s) \in T /\ s \ {Pick(s)} \in SUBSET T /\ Cardinality(s \ {Pick(s)}) = n
    BY <2>1, <1>2, PickSmaller
  <2>3. Fold(f, S)[s] = f[Pick(s)] + Fold(f, S)[s \ {Pick(s)}]
    <3>1. s \in SUBSET S
      OBVIOUS
    <3> QED
      BY <3>1, <2>1, FoldExists DEF FoldStep
  <2>4. Fold(g, T)[s] = g[Pick(s)] + Fold(g, T)[s \ {Pick(s)}]
    BY <1>2, <2>1, FoldExists DEF FoldStep
  <2> QED
    BY <1>4, <2>2, <2>3, <2>4
<1> HIDE DEF Good
<1>5. Nat \subseteq Good
  BY <1>3, <1>4, NatSetInduction
<1> QED
  BY <1>1, <1>5 DEF Good

-----------------------------------------------------------------------------
(* The sum.                                                                *)

\* The empty sum is zero.
LEMMA SumEmpty ==
  ASSUME NEW f
  PROVE  SumFunctionOnSet(f, {}) = 0
BY FS_EmptySet, FoldEmpty, SumIsFold

\* A sum of integers is an integer.
LEMMA SumInt ==
  ASSUME NEW S, IsFiniteSet(S), NEW f, \A x \in S : f[x] \in Int
  PROVE  SumFunctionOnSet(f, S) \in Int
BY FoldInt, SumIsFold

\* Equal terms, equal sums.
LEMMA SumSame ==
  ASSUME NEW S, IsFiniteSet(S), NEW f, \A x \in S : f[x] \in Int,
         NEW g, \A x \in S : g[x] = f[x]
  PROVE  SumFunctionOnSet(f, S) = SumFunctionOnSet(g, S)
<1>1. S \in SUBSET S
  OBVIOUS
<1>2. Fold(f, S)[S] = Fold(g, S)[S]
  BY <1>1, FoldLocal
<1> QED
  BY <1>2, SumIsFold

LEMMA SumPick ==
  ASSUME NEW S, IsFiniteSet(S), S # {}, NEW f, \A x \in S : f[x] \in Int
  PROVE  SumFunctionOnSet(f, S) = f[Pick(S)] + SumFunctionOnSet(f, S \ {Pick(S)})
<1>1. Pick(S) \in S /\ S \ {Pick(S)} \in SUBSET S
  BY PickSmaller
<1>2. Fold(f, S)[S] = f[Pick(S)] + Fold(f, S)[S \ {Pick(S)}]
  BY FoldExists DEF FoldStep
<1>3. Fold(f, S)[S \ {Pick(S)}] = Fold(f, S \ {Pick(S)})[S \ {Pick(S)}]
  BY <1>1, FoldLocal
<1> QED
  BY <1>2, <1>3, SumIsFold

\* Any element can be taken out first, not only the one CHOOSE picks: the sum
\* does not depend on the order.
LEMMA SumTakeOut ==
  ASSUME NEW S, IsFiniteSet(S), NEW f, \A x \in S : f[x] \in Int, NEW y \in S
  PROVE  SumFunctionOnSet(f, S) = f[y] + SumFunctionOnSet(f, S \ {y})
<1> DEFINE Sum(s) == SumFunctionOnSet(f, s)
           Good == {n \in Nat : \A s \in SUBSET S : Cardinality(s) = n =>
                      \A z \in s : Sum(s) = f[z] + Sum(s \ {z})}
<1>1. \A s \in SUBSET S : /\ IsFiniteSet(s) /\ \A x \in s : f[x] \in Int
                          /\ Cardinality(s) \in Nat /\ Sum(s) \in Int
                          /\ (Cardinality(s) = 0 => s = {})
  BY FS_Subset, FS_CardinalityType, FS_EmptySet, SumInt
<1>2. 0 \in Good
  BY <1>1
<1>3. ASSUME NEW n \in Nat, n \in Good PROVE n + 1 \in Good
  <2> SUFFICES ASSUME NEW s \in SUBSET S, Cardinality(s) = n + 1, NEW z \in s
               PROVE  Sum(s) = f[z] + Sum(s \ {z})
    OBVIOUS
  <2> DEFINE p == Pick(s)
  <2>1. p \in s /\ Sum(s) = f[p] + Sum(s \ {p})
    BY <1>1, SumPick, PickSmaller
  <2> HIDE DEF p
  <2>2. CASE p = z
    BY <2>1, <2>2
  <2>3. CASE p # z
    <3>1. Cardinality(s \ {p}) = n /\ Cardinality(s \ {z}) = n
      BY <1>1, <2>1, FS_RemoveElement
    <3>2. Sum(s \ {p}) = f[z] + Sum((s \ {p}) \ {z})
      BY <1>3, <2>1, <2>3, <3>1
    <3>3. Sum(s \ {z}) = f[p] + Sum((s \ {z}) \ {p})
      BY <1>3, <2>1, <2>3, <3>1
    <3>4. Sum((s \ {p}) \ {z}) = Sum((s \ {z}) \ {p})
      <4>1. (s \ {p}) \ {z} = (s \ {z}) \ {p}
        OBVIOUS
      <4> QED
        BY <4>1
    <3>5. Sum((s \ {z}) \ {p}) \in Int /\ f[p] \in Int /\ f[z] \in Int
      BY <1>1, <2>1
    <3> QED
      BY <2>1, <3>2, <3>3, <3>4, <3>5
  <2> QED
    BY <2>2, <2>3
<1> HIDE DEF Good
<1>4. Nat \subseteq Good
  BY <1>2, <1>3, NatSetInduction
<1> QED
  BY <1>1, <1>4 DEF Good

\* A new element adds its term.
LEMMA SumAdd ==
  ASSUME NEW S, IsFiniteSet(S), NEW y, y \notin S,
         NEW f, \A x \in S \union {y} : f[x] \in Int
  PROVE  SumFunctionOnSet(f, S \union {y}) = f[y] + SumFunctionOnSet(f, S)
<1>1. IsFiniteSet(S \union {y}) /\ (S \union {y}) \ {y} = S
  BY FS_AddElement
<1> QED
  BY <1>1, SumTakeOut

\* One changed term changes the sum by its difference.
LEMMA SumUpdate ==
  ASSUME NEW S, IsFiniteSet(S), NEW y \in S,
         NEW f, \A x \in S : f[x] \in Int,
         NEW g, g[y] \in Int, \A x \in S \ {y} : g[x] = f[x]
  PROVE  SumFunctionOnSet(g, S) = SumFunctionOnSet(f, S) + (g[y] - f[y])
<1>1. IsFiniteSet(S \ {y}) /\ \A x \in S \ {y} : f[x] \in Int
  BY FS_RemoveElement
<1>2. SumFunctionOnSet(f, S \ {y}) = SumFunctionOnSet(g, S \ {y})
  BY <1>1, SumSame
<1>3. SumFunctionOnSet(f, S) = f[y] + SumFunctionOnSet(f, S \ {y})
  BY SumTakeOut
<1>4. SumFunctionOnSet(g, S) = g[y] + SumFunctionOnSet(g, S \ {y})
  BY SumTakeOut
<1>5. SumFunctionOnSet(f, S \ {y}) \in Int
  BY <1>1, SumInt
<1> QED
  BY <1>2, <1>3, <1>4, <1>5

\* The sum of f + c * g.
LEMMA SumLinear ==
  ASSUME NEW S, IsFiniteSet(S), NEW c \in Int,
         NEW f, \A x \in S : f[x] \in Int,
         NEW g, \A x \in S : g[x] \in Int,
         NEW h, \A x \in S : h[x] = f[x] + c * g[x]
  PROVE  SumFunctionOnSet(h, S) = SumFunctionOnSet(f, S) + c * SumFunctionOnSet(g, S)
<1> DEFINE F(s) == SumFunctionOnSet(f, s)
           G(s) == SumFunctionOnSet(g, s)
           H(s) == SumFunctionOnSet(h, s)
           Good == {n \in Nat : \A s \in SUBSET S : Cardinality(s) = n =>
                      H(s) = F(s) + c * G(s)}
<1>1. \A s \in SUBSET S : /\ IsFiniteSet(s)
                          /\ \A x \in s : f[x] \in Int /\ g[x] \in Int /\ h[x] \in Int
                          /\ Cardinality(s) \in Nat
                          /\ (Cardinality(s) = 0 => s = {})
  BY FS_Subset, FS_CardinalityType, FS_EmptySet
<1>2. \A s \in SUBSET S : F(s) \in Int /\ G(s) \in Int /\ H(s) \in Int
  BY <1>1, SumInt
<1>3. 0 \in Good
  <2>1. F({}) = 0 /\ G({}) = 0 /\ H({}) = 0 /\ c * 0 = 0
    BY SumEmpty
  <2> QED
    BY <1>1, <2>1
<1>4. ASSUME NEW n \in Nat, n \in Good PROVE n + 1 \in Good
  <2> SUFFICES ASSUME NEW s \in SUBSET S, Cardinality(s) = n + 1
               PROVE  H(s) = F(s) + c * G(s)
    OBVIOUS
  <2>1. PICK z : z \in s
    BY FS_EmptySet
  <2>2. Cardinality(s \ {z}) = n
    BY <1>1, <2>1, FS_RemoveElement
  <2>3. H(s \ {z}) = F(s \ {z}) + c * G(s \ {z})
    BY <1>4, <2>2
  <2>4. /\ F(s) = f[z] + F(s \ {z})
        /\ G(s) = g[z] + G(s \ {z})
        /\ H(s) = h[z] + H(s \ {z})
    BY <1>1, <2>1, SumTakeOut
  <2>5. h[z] = f[z] + c * g[z] /\ f[z] \in Int /\ g[z] \in Int
    BY <2>1
  <2>6. F(s \ {z}) \in Int /\ G(s \ {z}) \in Int
    BY <1>2
  <2> HIDE DEF F, G, H
  <2>7. c * (g[z] + G(s \ {z})) = c * g[z] + c * G(s \ {z})
    BY <2>5, <2>6
  <2> QED
    BY <2>3, <2>4, <2>5, <2>6, <2>7
<1> HIDE DEF Good
<1>5. Nat \subseteq Good
  BY <1>3, <1>4, NatSetInduction
<1> QED
  BY <1>1, <1>5 DEF Good

\* No term below, no sum below.
LEMMA SumMonotone ==
  ASSUME NEW S, IsFiniteSet(S),
         NEW f, \A x \in S : f[x] \in Int,
         NEW g, \A x \in S : g[x] \in Int /\ f[x] <= g[x]
  PROVE  SumFunctionOnSet(f, S) <= SumFunctionOnSet(g, S)
<1> DEFINE F(s) == SumFunctionOnSet(f, s)
           G(s) == SumFunctionOnSet(g, s)
           Good == {n \in Nat : \A s \in SUBSET S : Cardinality(s) = n => F(s) <= G(s)}
<1>1. \A s \in SUBSET S : /\ IsFiniteSet(s)
                          /\ \A x \in s : f[x] \in Int /\ g[x] \in Int
                          /\ Cardinality(s) \in Nat
                          /\ (Cardinality(s) = 0 => s = {})
  BY FS_Subset, FS_CardinalityType, FS_EmptySet
<1>2. \A s \in SUBSET S : F(s) \in Int /\ G(s) \in Int
  BY <1>1, SumInt
<1>3. 0 \in Good
  BY <1>1, SumEmpty
<1>4. ASSUME NEW n \in Nat, n \in Good PROVE n + 1 \in Good
  <2> SUFFICES ASSUME NEW s \in SUBSET S, Cardinality(s) = n + 1 PROVE F(s) <= G(s)
    OBVIOUS
  <2>1. PICK z : z \in s
    BY FS_EmptySet
  <2>2. F(s \ {z}) <= G(s \ {z})
    BY <1>1, <1>4, <2>1, FS_RemoveElement
  <2>3. F(s) = f[z] + F(s \ {z}) /\ G(s) = g[z] + G(s \ {z})
    BY <1>1, <2>1, SumTakeOut
  <2>4. /\ F(s \ {z}) \in Int /\ G(s \ {z}) \in Int
        /\ f[z] \in Int /\ g[z] \in Int /\ f[z] <= g[z]
    BY <1>2, <2>1
  <2> HIDE DEF F, G
  <2> QED
    BY <2>2, <2>3, <2>4
<1> HIDE DEF Good
<1>5. Nat \subseteq Good
  BY <1>3, <1>4, NatSetInduction
<1> QED
  BY <1>1, <1>5 DEF Good

\* A sum of natural numbers is a natural number, and no term exceeds it.
LEMMA SumNat ==
  ASSUME NEW S, IsFiniteSet(S), NEW f, \A x \in S : f[x] \in Nat
  PROVE  SumFunctionOnSet(f, S) \in Nat
<1> DEFINE zero == [x \in S |-> 0]
<1>1. SumFunctionOnSet(zero, S) \in Int
  BY SumInt
<1>2. \A x \in S : zero[x] = zero[x] + 1 * zero[x]
  OBVIOUS
<1>3. SumFunctionOnSet(zero, S)
        = SumFunctionOnSet(zero, S) + 1 * SumFunctionOnSet(zero, S)
  BY <1>2, SumLinear
<1>4. SumFunctionOnSet(zero, S) <= SumFunctionOnSet(f, S)
  BY SumMonotone
<1>5. SumFunctionOnSet(f, S) \in Int
  BY SumInt
<1> HIDE DEF zero
<1> QED
  BY <1>1, <1>3, <1>4, <1>5

LEMMA SumTerm ==
  ASSUME NEW S, IsFiniteSet(S), NEW f, \A x \in S : f[x] \in Nat, NEW y \in S
  PROVE  f[y] <= SumFunctionOnSet(f, S)
<1>1. IsFiniteSet(S \ {y})
  BY FS_RemoveElement
<1>2. SumFunctionOnSet(f, S \ {y}) \in Nat
  BY <1>1, SumNat
<1>3. SumFunctionOnSet(f, S) = f[y] + SumFunctionOnSet(f, S \ {y})
  BY SumTakeOut
<1> QED
  BY <1>2, <1>3

\* The same two moves when the terms of the other elements are given by another
\* function that agrees on them: an account is created, or closed.
LEMMA SumCreated ==
  ASSUME NEW S, IsFiniteSet(S), NEW y, y \notin S,
         NEW f, \A x \in S : f[x] \in Int,
         NEW g, g[y] \in Int, \A x \in S : g[x] = f[x]
  PROVE  SumFunctionOnSet(g, S \union {y}) = SumFunctionOnSet(f, S) + g[y]
<1>1. SumFunctionOnSet(g, S \union {y}) = g[y] + SumFunctionOnSet(g, S)
  BY SumAdd
<1>2. SumFunctionOnSet(f, S) = SumFunctionOnSet(g, S)
  BY SumSame
<1>3. SumFunctionOnSet(f, S) \in Int
  BY SumInt
<1> QED
  BY <1>1, <1>2, <1>3

LEMMA SumClosed ==
  ASSUME NEW S, IsFiniteSet(S), NEW y \in S,
         NEW f, \A x \in S : f[x] \in Int,
         NEW g, \A x \in S \ {y} : g[x] = f[x]
  PROVE  SumFunctionOnSet(g, S \ {y}) = SumFunctionOnSet(f, S) - f[y]
<1>1. IsFiniteSet(S \ {y}) /\ \A x \in S \ {y} : f[x] \in Int
  BY FS_RemoveElement
<1>2. SumFunctionOnSet(f, S \ {y}) = SumFunctionOnSet(g, S \ {y})
  BY <1>1, SumSame
<1>3. SumFunctionOnSet(f, S) = f[y] + SumFunctionOnSet(f, S \ {y})
  BY SumTakeOut
<1>4. SumFunctionOnSet(f, S \ {y}) \in Int
  BY <1>1, SumInt
<1> QED
  BY <1>2, <1>3, <1>4

\* One account alone.
LEMMA SumSingle ==
  ASSUME NEW y, NEW f, f[y] \in Int
  PROVE  SumFunctionOnSet(f, {y}) = f[y]
<1>1. IsFiniteSet({y}) /\ {y} \ {y} = {}
  BY FS_Singleton
<1>2. SumFunctionOnSet(f, {y}) = f[y] + SumFunctionOnSet(f, {y} \ {y})
  BY <1>1, SumTakeOut
<1>3. SumFunctionOnSet(f, {y} \ {y}) = 0
  BY <1>1, SumEmpty
<1> QED
  BY <1>2, <1>3

\* Scaled terms, scaled sum.
LEMMA SumScaled ==
  ASSUME NEW S, IsFiniteSet(S), NEW c \in Int,
         NEW g, \A x \in S : g[x] \in Int,
         NEW h, \A x \in S : h[x] = c * g[x]
  PROVE  SumFunctionOnSet(h, S) = c * SumFunctionOnSet(g, S)
<1> DEFINE zero == [x \in S |-> 0]
<1>1. SumFunctionOnSet(zero, S) \in Int
  BY SumInt
<1>2. SumFunctionOnSet(zero, S)
        = SumFunctionOnSet(zero, S) + 1 * SumFunctionOnSet(zero, S)
  <2>1. \A x \in S : zero[x] = zero[x] + 1 * zero[x]
    OBVIOUS
  <2> QED
    BY <2>1, SumLinear
<1>3. \A x \in S : zero[x] \in Int /\ h[x] = zero[x] + c * g[x]
  OBVIOUS
<1> HIDE DEF zero
<1>4. SumFunctionOnSet(h, S) = SumFunctionOnSet(zero, S) + c * SumFunctionOnSet(g, S)
  BY <1>3, SumLinear
<1>5. SumFunctionOnSet(zero, S) = 0
  <2>1. \A x \in Int : x = x + 1 * x => x = 0
    OBVIOUS
  <2> QED
    BY <1>1, <1>2, <2>1
<1>6. SumFunctionOnSet(g, S) \in Int
  BY SumInt
<1> QED
  BY <1>4, <1>5, <1>6

\* Floors summed never exceed the floor of the sum.
LEMMA SumFloors ==
  ASSUME NEW S, IsFiniteSet(S), NEW d \in Nat \ {0},
         NEW f, \A x \in S : f[x] \in Int,
         NEW g, \A x \in S : g[x] = f[x] \div d
  PROVE  /\ SumFunctionOnSet(g, S) \in Int
         /\ d * SumFunctionOnSet(g, S) <= SumFunctionOnSet(f, S)
         /\ SumFunctionOnSet(g, S) <= SumFunctionOnSet(f, S) \div d
<1> DEFINE h == [x \in S |-> d * g[x]]
<1>1. \A x \in S : /\ g[x] \in Int /\ h[x] = d * g[x]
                   /\ h[x] \in Int /\ h[x] <= f[x]
  OBVIOUS
<1> HIDE DEF h
<1>2. SumFunctionOnSet(h, S) = d * SumFunctionOnSet(g, S)
  BY <1>1, SumScaled
<1>3. SumFunctionOnSet(h, S) <= SumFunctionOnSet(f, S)
  BY <1>1, SumMonotone
<1>4. SumFunctionOnSet(g, S) \in Int /\ SumFunctionOnSet(f, S) \in Int
  BY <1>1, SumInt
<1>5. \A a, b \in Int : d * a <= b => a <= b \div d
  OBVIOUS
<1> QED
  BY <1>2, <1>3, <1>4, <1>5

\* Nothing summed is nothing.
LEMMA SumZero ==
  ASSUME NEW S, IsFiniteSet(S), NEW f, \A x \in S : f[x] = 0
  PROVE  SumFunctionOnSet(f, S) = 0
<1>1. \A x \in S : f[x] \in Int /\ f[x] = 0 * f[x]
  OBVIOUS
<1>2. SumFunctionOnSet(f, S) = 0 * SumFunctionOnSet(f, S)
  BY <1>1, SumScaled
<1>3. SumFunctionOnSet(f, S) \in Int
  BY <1>1, SumInt
<1> QED
  BY <1>2, <1>3

\* A sum may be taken part by part: over the keys, of what is under each.
LEMMA SumByKey ==
  ASSUME NEW W, IsFiniteSet(W), NEW S, IsFiniteSet(S),
         NEW f, \A x \in S : f[x] \in Int,
         NEW key, \A x \in S : key[x] \in W,
         NEW under, \A w \in W : under[w] = {x \in S : key[x] = w},
         NEW part, \A w \in W : part[w] = SumFunctionOnSet(f, under[w])
  PROVE  SumFunctionOnSet(part, W) = SumFunctionOnSet(f, S)
<1> DEFINE Under(s, w) == {x \in s : key[x] = w}
           Parts(s) == [w \in W |-> SumFunctionOnSet(f, Under(s, w))]
           Good == {n \in Nat : \A s \in SUBSET S : Cardinality(s) = n =>
                      SumFunctionOnSet(Parts(s), W) = SumFunctionOnSet(f, s)}
<1>1. ASSUME NEW s \in SUBSET S, NEW w \in W
      PROVE  /\ IsFiniteSet(s) /\ IsFiniteSet(Under(s, w))
             /\ SumFunctionOnSet(f, Under(s, w)) \in Int
             /\ Parts(s)[w] = SumFunctionOnSet(f, Under(s, w))
  <2>1. IsFiniteSet(s) /\ IsFiniteSet(Under(s, w)) /\ Under(s, w) \in SUBSET S
    BY FS_Subset
  <2> HIDE DEF Under
  <2>2. \A x \in Under(s, w) : f[x] \in Int
    BY <2>1
  <2> QED
    BY <2>1, <2>2, SumInt
<1>2. 0 \in Good
  <2> SUFFICES ASSUME NEW s \in SUBSET S, Cardinality(s) = 0
               PROVE  SumFunctionOnSet(Parts(s), W) = SumFunctionOnSet(f, s)
    OBVIOUS
  <2>1. IsFiniteSet(s)
    BY FS_Subset
  <2>2. s = {}
    BY <2>1, FS_EmptySet
  <2>3. \A w \in W : Under(s, w) = {}
    BY <2>2
  <2> HIDE DEF Under
  <2>4. \A w \in W : Parts(s)[w] = 0
    BY <2>3, SumEmpty
  <2> HIDE DEF Parts
  <2>5. SumFunctionOnSet(Parts(s), W) = 0
    BY <2>4, SumZero
  <2> QED
    BY <2>2, <2>5, SumEmpty
<1>3. ASSUME NEW n \in Nat, n \in Good PROVE n + 1 \in Good
  <2> SUFFICES ASSUME NEW s \in SUBSET S, Cardinality(s) = n + 1
               PROVE  SumFunctionOnSet(Parts(s), W) = SumFunctionOnSet(f, s)
    BY <1>3
  <2>1. IsFiniteSet(s)
    BY FS_Subset
  <2>2. s # {}
    <3>1. Cardinality({}) = 0 /\ n \in Nat
      BY <1>3, FS_EmptySet
    <3> QED
      BY <3>1
  <2>3. PICK x \in s : TRUE
    BY <2>2
  <2> DEFINE r == s \ {x}
             k == key[x]
  <2>4. r \in SUBSET S /\ IsFiniteSet(r) /\ Cardinality(r) = n /\ k \in W /\ x \in S
    <3>1. r \in SUBSET S /\ x \in S
      BY <2>3
    <3>2. IsFiniteSet(r) /\ Cardinality(r) = Cardinality(s) - 1
      BY <2>1, <2>3, FS_RemoveElement
    <3> QED
      BY <3>1, <3>2
  <2>5. SumFunctionOnSet(Parts(r), W) = SumFunctionOnSet(f, r)
    BY <1>3, <2>4
  <2>6. /\ Under(s, k) \ {x} = Under(r, k) /\ x \in Under(s, k)
        /\ \A w \in W \ {k} : Under(s, w) = Under(r, w)
        /\ Under(s, k) \in SUBSET S
    BY <2>3
  <2>7. SumFunctionOnSet(f, Under(s, k)) = f[x] + SumFunctionOnSet(f, Under(r, k))
    <3> DEFINE U == Under(s, k)
    <3>1. IsFiniteSet(U) /\ \A y \in U : f[y] \in Int
      BY <1>1, <2>4, <2>6
    <3>2. x \in U /\ U \ {x} = Under(r, k)
      BY <2>6
    <3> HIDE DEF U, Under
    <3>3. SumFunctionOnSet(f, U) = f[x] + SumFunctionOnSet(f, U \ {x})
      BY <3>1, <3>2, SumTakeOut
    <3> QED
      BY <3>2, <3>3 DEF U
  <2>8. SumFunctionOnSet(f, s) = f[x] + SumFunctionOnSet(f, r)
    <3>1. \A y \in s : f[y] \in Int
      OBVIOUS
    <3> QED
      BY <2>1, <2>3, <3>1, SumTakeOut
  <2> HIDE DEF Under
  <2>9. /\ \A w \in W : Parts(r)[w] \in Int /\ Parts(s)[w] \in Int
        /\ \A w \in W \ {k} : Parts(s)[w] = Parts(r)[w]
        /\ Parts(s)[k] = f[x] + Parts(r)[k]
    BY <1>1, <2>4, <2>6, <2>7
  <2> HIDE DEF Parts, r, k
  <2>10. SumFunctionOnSet(Parts(s), W)
           = SumFunctionOnSet(Parts(r), W) + (Parts(s)[k] - Parts(r)[k])
    BY <2>4, <2>9, SumUpdate
  <2>11. SumFunctionOnSet(f, r) \in Int /\ f[x] \in Int /\ Parts(r)[k] \in Int
    BY <2>4, <2>9, SumInt
  <2> QED
    BY <2>5, <2>8, <2>9, <2>10, <2>11
<1>4. SumFunctionOnSet(Parts(S), W) = SumFunctionOnSet(f, S)
  <2>1. Nat \subseteq Good
    <3> HIDE DEF Good
    <3> QED
      BY <1>2, <1>3, NatSetInduction
  <2>2. Cardinality(S) \in Nat
    BY FS_CardinalityType
  <2> HIDE DEF Parts
  <2> QED
    BY <2>1, <2>2
<1>5. \A w \in W : Parts(S)[w] = part[w] /\ Parts(S)[w] \in Int
  <2> TAKE w \in W
  <2>1. under[w] = Under(S, w)
    OBVIOUS
  <2> QED
    BY <1>1, <2>1
<1> HIDE DEF Parts
<1> QED
  BY <1>4, <1>5, SumSame

-----------------------------------------------------------------------------
(* Arithmetic of floors.                                                   *)

\* The defining inequality of a floored quotient.
LEMMA DivBounds ==
  ASSUME NEW a \in Int, NEW b \in Nat \ {0}
  PROVE  /\ a \div b \in Int
         /\ b * (a \div b) <= a /\ a < b * (a \div b) + b
OBVIOUS

\* The floor is the greatest such number.
LEMMA DivGreatest ==
  ASSUME NEW a \in Int, NEW b \in Nat \ {0}, NEW q \in Int, b * q <= a
  PROVE  q <= a \div b
OBVIOUS

LEMMA DivNat ==
  ASSUME NEW a \in Nat, NEW b \in Nat \ {0}
  PROVE  a \div b \in Nat
OBVIOUS

LEMMA DivExact ==
  ASSUME NEW a \in Int, NEW b \in Nat \ {0}
  PROVE  (a * b) \div b = a
OBVIOUS

LEMMA MulNat ==
  ASSUME NEW a \in Nat, NEW b \in Nat
  PROVE  a * b \in Nat
OBVIOUS

LEMMA MulMonotone ==
  ASSUME NEW a \in Nat, NEW b \in Int, NEW c \in Int, b <= c
  PROVE  a * b <= a * c
OBVIOUS

-----------------------------------------------------------------------------
(* The rules.                                                              *)

\* A fee is at most the amount it is taken from, and splits into two parts
\* that are both natural numbers: no instruction fails on its own fee.
LEMMA FeeOn ==
  ASSUME NEW amount \in Nat, NEW bps \in Nat
  PROVE  /\ fee_on(amount, bps) \in Nat /\ fee_on(amount, bps) <= amount
         /\ (amount > 0 => fee_on(amount, bps) > 0)
<1>1. amount * bps \in Nat
  BY MulNat
<1>2. (amount * bps + 9999) \div 10000 \in Nat
  BY <1>1, DivNat
<1> QED
  BY <1>2 DEF fee_on, Least, Most

LEMMA FeeRate ==
  ASSUME NEW left \in Int
  PROVE  fee_bps_at(left) \in Nat
<1> DEFINE rise == Most(FEE_PEAK_BPS, LADDER_FEE_BPS) - LADDER_FEE_BPS
           run  == FEE_RAMP_START - FEE_RAMP_END
           gone == FEE_RAMP_START - left
<1>1. rise \in Nat /\ run \in Nat \ {0}
  BY RuleConstants DEF Most
<1>2. ASSUME left < FEE_RAMP_START PROVE (rise * gone) \div run \in Nat
  <2>1. gone \in Nat
    BY <1>2, RuleConstants
  <2> HIDE DEF rise, run, gone
  <2> QED
    BY <1>1, <2>1, MulNat, DivNat
<1> QED
  BY <1>2, RuleConstants DEF fee_bps_at, Most

LEMMA FeeSplit ==
  ASSUME NEW fee \in Nat
  PROVE  /\ lp_part(fee) \in Nat /\ protocol_part(fee) \in Nat
         /\ lp_part(fee) + protocol_part(fee) = fee
BY DEF lp_part, protocol_part

LEMMA BountyBounds ==
  ASSUME NEW fees \in Nat
  PROVE  settle_bounty(fees) \in Nat /\ settle_bounty(fees) <= fees
BY DEF settle_bounty

LEMMA AccrualBounds ==
  ASSUME NEW fee \in Nat, NEW units \in Nat
  PROVE  /\ fee_accrual(fee, units) \in Nat
         /\ units * fee_accrual(fee, units) <= fee * FEE_ACC_SCALE
<1> DEFINE scaled == fee * FEE_ACC_SCALE
<1>1. scaled \in Nat
  BY RuleConstants, MulNat
<1>2. CASE fee = 0 \/ units = 0
  BY <1>1, <1>2 DEF fee_accrual
<1>3. CASE fee # 0 /\ units # 0
  <2>1. fee_accrual(fee, units) = scaled \div units
    BY <1>3 DEF fee_accrual
  <2> HIDE DEF scaled
  <2>2. scaled \div units \in Nat /\ units * (scaled \div units) <= scaled
    BY <1>1, <1>3, DivNat, DivBounds
  <2> QED
    BY <2>1, <2>2 DEF scaled
<1> QED
  BY <1>2, <1>3

\* Selling all of a position releases all of its basis; selling part of it
\* never more than it has.
LEMMA BasisReleased ==
  ASSUME NEW paid \in Nat, NEW sold \in Nat, NEW held \in Nat, sold <= held,
         held = 0 => paid = 0
  PROVE  /\ basis_released(paid, sold, held) \in Nat
         /\ basis_released(paid, sold, held) <= paid
         /\ sold = held => basis_released(paid, sold, held) = paid
<1>1. CASE held = 0
  BY <1>1 DEF basis_released
<1>2. CASE held # 0
  <2>1. paid * sold \in Nat
    BY MulNat
  <2> DEFINE up == CeilDiv(paid * sold, held)
  <2>2. up \in Nat
    BY <1>2, <2>1, DivNat DEF CeilDiv
  <2>3. ASSUME sold = held PROVE paid <= up
    <3>1. held * paid <= paid * sold + held - 1
      BY <2>3, <1>2
    <3> QED
      BY <3>1, <1>2, <2>1, DivGreatest DEF CeilDiv
  <2> HIDE DEF up
  <2>4. basis_released(paid, sold, held) = Least(up, paid)
    BY <1>2 DEF basis_released, up
  <2> QED
    BY <2>2, <2>3, <2>4 DEF Least
<1> QED
  BY <1>1, <1>2

\* A void takes no more than the vault for the depositors, and leaves the
\* traders something only when the depositors have all they put in.
LEMMA VoidSplit ==
  ASSUME NEW pot \in Nat, NEW deposits \in Nat, NEW basis \in Nat
  PROVE  /\ void_lp_part(pot, deposits, basis) \in Nat
         /\ void_lp_part(pot, deposits, basis) <= pot
         /\ void_lp_part(pot, deposits, basis) < pot =>
              basis # 0 /\ void_lp_part(pot, deposits, basis) = deposits
BY DEF void_lp_part, Least

LEMMA VoidShare ==
  ASSUME NEW claim \in Nat, NEW pot \in Nat, NEW claims \in Nat
  PROVE  /\ void_share(claim, pot, claims) \in Nat
         /\ claims * void_share(claim, pot, claims) <= pot * claim
         /\ claims # 0 => void_share(claim, claims, claims) = claim
<1>1. CASE claims = 0
  BY <1>1, MulNat DEF void_share
<1>2. CASE claims # 0
  <2>1. claim * pot \in Nat
    BY MulNat
  <2> QED
    BY <1>2, <2>1, DivNat, DivBounds, DivExact DEF void_share
<1> QED
  BY <1>1, <1>2
=============================================================================
