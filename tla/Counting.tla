------------------------------ MODULE Counting ------------------------------
(***************************************************************************)
(* Facts about the size of a changing set and about the sum of a changing  *)
(* function, for the proof modules.                                        *)
(***************************************************************************)
EXTENDS Integers, Functions, FiniteSetTheorems, WellFoundedInduction, TLAPS

\* What a subset of a finite set counts when one element enters or leaves it.
LEMMA CountStep ==
  ASSUME NEW U, IsFiniteSet(U), NEW S \in SUBSET U, NEW T \in SUBSET U, NEW t \in U,
         \A u \in U \ {t} : u \in T <=> u \in S
  PROVE  /\ IsFiniteSet(S) /\ Cardinality(S) \in Nat /\ Cardinality(T) \in Nat
         /\ t \in S /\ t \in T => Cardinality(T) = Cardinality(S)
         /\ t \notin S /\ t \notin T => Cardinality(T) = Cardinality(S)
         /\ t \notin S /\ t \in T => Cardinality(T) = Cardinality(S) + 1
         /\ t \in S /\ t \notin T => Cardinality(T) = Cardinality(S) - 1
<1>1. IsFiniteSet(S) /\ IsFiniteSet(T)
  BY FS_Subset
<1>2. Cardinality(S) \in Nat /\ Cardinality(T) \in Nat
  BY <1>1, FS_CardinalityType
<1>3. ASSUME t \in S <=> t \in T PROVE T = S
  BY <1>3
<1>4. ASSUME t \notin S, t \in T PROVE Cardinality(T) = Cardinality(S) + 1
  <2>1. T = S \cup {t}
    BY <1>4
  <2> QED
    BY <1>1, <1>4, <2>1, FS_AddElement
<1>5. ASSUME t \in S, t \notin T PROVE Cardinality(T) = Cardinality(S) - 1
  <2>1. T = S \ {t}
    BY <1>5
  <2> QED
    BY <1>1, <1>5, <2>1, FS_RemoveElement
<1> QED
  BY <1>1, <1>2, <1>3, <1>4, <1>5

(***************************************************************************)
(* Sums.  SumFunctionOnSet (module Functions) is a recursive function on   *)
(* the subsets of its index set that takes one picked element away at a    *)
(* time.  That a function with that recursion exists, and what it returns, *)
(* is shown by induction on the size of the subset; the induction is on a  *)
(* set of numbers, because a fact about any predicate cannot be applied    *)
(* here.                                                                   *)
(***************************************************************************)
Pick(s) == CHOOSE x \in s : TRUE

\* g is the recursive function of the sum of f, over the sets of D
IsPartial(g, f, D) ==
  g = [s \in D |-> IF s = {} THEN 0 ELSE f[Pick(s)] + g[s \ {Pick(s)}]]

\* the one that SumFunctionOnSet names
Partial(f, S) == CHOOSE g : IsPartial(g, f, SUBSET S)

\* What the definition of the sum says, its operators expanded.
LEMMA SumIsPartial ==
  ASSUME NEW f, NEW S
  PROVE  SumFunctionOnSet(f, S) = Partial(f, S)[S]
BY DEF SumFunctionOnSet, FoldFunctionOnSet, MapThenFoldSet, Partial, IsPartial, Pick

\* Induction on the naturals as a fact about sets: an inductive set is all of them.
LEMMA NatSetInduction ==
  ASSUME NEW T \in SUBSET Nat, 0 \in T, \A n \in T : n + 1 \in T
  PROVE  T = Nat
<1> DEFINE Less == {ss \in Nat \X Nat : ss[1] < ss[2]}
<1>1. IsWellFoundedOn(Less, Nat)
  BY NatLessThanWellFounded DEF OpToRel
<1>2. \A m, n \in Nat : m < n => <<m, n>> \in Less
  OBVIOUS
<1>3. SUFFICES ASSUME Nat \ T # {} PROVE FALSE
  OBVIOUS
<1> HIDE DEF Less
<1>4. PICK x \in Nat \ T : \A y \in Nat \ T : ~(<<y, x>> \in Less)
  BY <1>1, <1>3, WFMin
<1>5. x # 0 /\ x - 1 \in Nat /\ x - 1 < x /\ (x - 1) + 1 = x
  OBVIOUS
<1>6. x - 1 \in T
  BY <1>2, <1>4, <1>5
<1> QED
  BY <1>5, <1>6

\* the subsets of S with at most n elements
Layer(S, n) == {s \in SUBSET S : Cardinality(s) <= n}

\* Taking the picked element away makes a subset smaller by one.
LEMMA PickFacts ==
  ASSUME NEW S, IsFiniteSet(S), NEW s \in SUBSET S, s # {}
  PROVE  /\ Pick(s) \in s
         /\ s \ {Pick(s)} \in SUBSET S
         /\ Cardinality(s) \in Nat /\ Cardinality(s \ {Pick(s)}) = Cardinality(s) - 1
         /\ Cardinality(s) # 0
<1>1. Pick(s) \in s
  BY DEF Pick
<1>2. IsFiniteSet(s)
  BY FS_Subset
<1> HIDE DEF Pick
<1> QED
  BY <1>1, <1>2, FS_RemoveElement, FS_CardinalityType, FS_EmptySet

\* A function that satisfies the recursion exists on every layer: a layer's one
\* extends the one of the layer below.
LEMMA PartialOnLayers ==
  ASSUME NEW f, NEW S, IsFiniteSet(S)
  PROVE  \A n \in Nat : \E g : IsPartial(g, f, Layer(S, n))
<1> DEFINE T == {n \in Nat : \E g : IsPartial(g, f, Layer(S, n))}
<1>1. 0 \in T
  <2> DEFINE g == [s \in Layer(S, 0) |-> 0]
  <2>1. ASSUME NEW s \in Layer(S, 0), s # {} PROVE FALSE
    <3>1. s \in SUBSET S /\ Cardinality(s) <= 0
      BY DEF Layer
    <3>2. Cardinality(s) \in Nat /\ Cardinality(s) # 0
      BY <2>1, <3>1, PickFacts
    <3> QED
      BY <3>1, <3>2
  <2>2. IsPartial(g, f, Layer(S, 0))
    BY <2>1 DEF IsPartial
  <2> QED
    BY <2>2
<1>2. ASSUME NEW n \in T PROVE n + 1 \in T
  <2>1. PICK g : IsPartial(g, f, Layer(S, n))
    OBVIOUS
  <2> DEFINE h == [s \in Layer(S, n + 1) |->
                     IF s = {} THEN 0 ELSE f[Pick(s)] + g[s \ {Pick(s)}]]
  <2>2. ASSUME NEW s \in Layer(S, n + 1), s # {}
        PROVE  h[s \ {Pick(s)}] = g[s \ {Pick(s)}]
    <3> DEFINE r == s \ {Pick(s)}
    <3>1. r \in Layer(S, n) /\ r \in Layer(S, n + 1)
      BY <2>2, PickFacts DEF Layer
    <3>2. g[r] = IF r = {} THEN 0 ELSE f[Pick(r)] + g[r \ {Pick(r)}]
      <4> HIDE DEF r
      <4> QED BY <2>1, <3>1 DEF IsPartial
    <3>3. h[r] = IF r = {} THEN 0 ELSE f[Pick(r)] + g[r \ {Pick(r)}]
      <4> HIDE DEF r
      <4> QED BY <3>1
    <3> QED
      BY <3>2, <3>3
  <2>3. h = [s \in Layer(S, n + 1) |->
               IF s = {} THEN 0 ELSE f[Pick(s)] + h[s \ {Pick(s)}]]
    <3> DEFINE k == [s \in Layer(S, n + 1) |->
                       IF s = {} THEN 0 ELSE f[Pick(s)] + h[s \ {Pick(s)}]]
    <3>1. ASSUME NEW s \in Layer(S, n + 1) PROVE h[s] = k[s]
      BY <2>2
    <3> QED
      BY <3>1
  <2>4. IsPartial(h, f, Layer(S, n + 1))
    <3> HIDE DEF h
    <3> QED BY <2>3 DEF IsPartial
  <2> QED
    BY <2>4
<1>3. T = Nat
  <2>1. T \in SUBSET Nat
    OBVIOUS
  <2> HIDE DEF T
  <2> QED
    BY <1>1, <1>2, <2>1, NatSetInduction
<1> QED
  BY <1>3

\* So the function the definition chooses satisfies its recursion: over {} it is
LEMMA PartialDefined ==
  ASSUME NEW f, NEW S, IsFiniteSet(S)
  PROVE  IsPartial(Partial(f, S), f, SUBSET S)
<1>1. Cardinality(S) \in Nat
  BY FS_CardinalityType
<1>2. Layer(S, Cardinality(S)) = SUBSET S
  BY <1>1, FS_Subset, FS_CardinalityType DEF Layer
<1>3. \E g : IsPartial(g, f, SUBSET S)
  <2>1. \E g : IsPartial(g, f, Layer(S, Cardinality(S)))
    BY <1>1, PartialOnLayers
  <2> QED
    BY <1>2, <2>1
<1> QED
  BY <1>3 DEF Partial

\* zero,
LEMMA PartialEmpty ==
  ASSUME NEW f, NEW S, IsFiniteSet(S)
  PROVE  Partial(f, S)[{}] = 0
<1>1. IsPartial(Partial(f, S), f, SUBSET S)
  BY PartialDefined
<1> QED
  BY <1>1 DEF IsPartial

\* and elsewhere one value more than over the rest.
LEMMA PartialStep ==
  ASSUME NEW S, IsFiniteSet(S), NEW f, NEW s \in SUBSET S, s # {}
  PROVE  Partial(f, S)[s] = f[Pick(s)] + Partial(f, S)[s \ {Pick(s)}]
<1>1. IsPartial(Partial(f, S), f, SUBSET S)
  BY PartialDefined
<1> QED
  BY <1>1 DEF IsPartial

\* Induction on the subsets of a finite set, one picked element at a time.
LEMMA SubsetInduction ==
  ASSUME NEW S, IsFiniteSet(S), NEW T, {} \in T,
         \A s \in SUBSET S : s # {} /\ s \ {Pick(s)} \in T => s \in T
  PROVE  S \in T
<1> DEFINE N == {n \in Nat : \A s \in SUBSET S : Cardinality(s) <= n => s \in T}
<1>1. 0 \in N
  <2> SUFFICES ASSUME NEW s \in SUBSET S, Cardinality(s) <= 0, s # {} PROVE FALSE
    OBVIOUS
  <2>1. Cardinality(s) \in Nat /\ Cardinality(s) # 0
    BY PickFacts
  <2> QED
    BY <2>1
<1>2. ASSUME NEW n \in N PROVE n + 1 \in N
  <2> SUFFICES ASSUME NEW s \in SUBSET S, Cardinality(s) <= n + 1, s # {}
               PROVE  s \in T
    OBVIOUS
  <2>1. s \ {Pick(s)} \in SUBSET S /\ Cardinality(s \ {Pick(s)}) <= n
    BY PickFacts
  <2> QED
    BY <2>1
<1>3. N = Nat
  <2>1. N \in SUBSET Nat
    OBVIOUS
  <2> HIDE DEF N
  <2> QED
    BY <1>1, <1>2, <2>1, NatSetInduction
<1>4. Cardinality(S) \in N /\ Cardinality(S) <= Cardinality(S)
  BY <1>3, FS_CardinalityType
<1> QED
  BY <1>4

\* A sum of naturals is a natural.
LEMMA SumType ==
  ASSUME NEW S, IsFiniteSet(S), NEW f, \A x \in S : f[x] \in Nat
  PROVE  SumFunctionOnSet(f, S) \in Nat
<1> DEFINE T == {s \in SUBSET S : Partial(f, S)[s] \in Nat}
<1>1. {} \in T
  BY PartialEmpty
<1>2. ASSUME NEW s \in SUBSET S, s # {}, s \ {Pick(s)} \in T PROVE s \in T
  <2>1. f[Pick(s)] \in Nat
    BY <1>2, PickFacts
  <2>2. Partial(f, S)[s] = f[Pick(s)] + Partial(f, S)[s \ {Pick(s)}]
    BY <1>2, PartialStep
  <2> QED
    BY <1>2, <2>1, <2>2
<1>3. S \in T
  <2> HIDE DEF T
  <2> QED BY <1>1, <1>2, SubsetInduction
<1> QED
  BY <1>3, SumIsPartial

\* A sum of zeros is zero.
LEMMA SumOfZeros ==
  ASSUME NEW S, IsFiniteSet(S), NEW f, \A x \in S : f[x] = 0
  PROVE  SumFunctionOnSet(f, S) = 0
<1> DEFINE T == {s \in SUBSET S : Partial(f, S)[s] = 0}
<1>1. {} \in T
  BY PartialEmpty
<1>2. ASSUME NEW s \in SUBSET S, s # {}, s \ {Pick(s)} \in T PROVE s \in T
  <2>1. f[Pick(s)] = 0
    BY <1>2, PickFacts
  <2>2. Partial(f, S)[s] = f[Pick(s)] + Partial(f, S)[s \ {Pick(s)}]
    BY <1>2, PartialStep
  <2> QED
    BY <1>2, <2>1, <2>2
<1>3. S \in T
  <2> HIDE DEF T
  <2> QED BY <1>1, <1>2, SubsetInduction
<1> QED
  BY <1>3, SumIsPartial

\* When the value at one point changes by d, the sum does.
LEMMA SumStep ==
  ASSUME NEW S, IsFiniteSet(S), NEW t \in S, NEW d \in Int,
         NEW f, \A x \in S : f[x] \in Nat,
         NEW g, \A x \in S \ {t} : g[x] = f[x], g[t] = f[t] + d
  PROVE  SumFunctionOnSet(g, S) = SumFunctionOnSet(f, S) + d
<1> DEFINE T == {s \in SUBSET S :
                   /\ Partial(f, S)[s] \in Int
                   /\ Partial(g, S)[s] = Partial(f, S)[s] + (IF t \in s THEN d ELSE 0)}
<1>1. {} \in T
  BY PartialEmpty
<1>2. ASSUME NEW s \in SUBSET S, s # {}, s \ {Pick(s)} \in T PROVE s \in T
  <2> DEFINE x == Pick(s)
             r == s \ {x}
  <2>0. s # {}
    BY <1>2
  <2>1. x \in s /\ x \in S /\ f[x] \in Int
    <3>1. x \in s
      <4> HIDE DEF T
      <4> QED BY <2>0, PickFacts
    <3> HIDE DEF T, x
    <3> QED
      BY <3>1
  <2>2. Partial(f, S)[s] = f[x] + Partial(f, S)[r]
    <3>1. IsPartial(Partial(f, S), f, SUBSET S)
      BY PartialDefined
    <3> HIDE DEF T
    <3> QED
      BY <2>0, <3>1 DEF IsPartial
  <2>3. Partial(g, S)[s] = g[x] + Partial(g, S)[r]
    <3>1. IsPartial(Partial(g, S), g, SUBSET S)
      BY PartialDefined
    <3> HIDE DEF T
    <3> QED
      BY <2>0, <3>1 DEF IsPartial
  <2>4. /\ Partial(f, S)[r] \in Int
        /\ Partial(g, S)[r] = Partial(f, S)[r] + (IF t \in r THEN d ELSE 0)
    BY <1>2
  <2>5. x \notin r /\ r = s \ {x}
    OBVIOUS
  <2> HIDE DEF x, r
  <2>6. CASE x = t
    BY <2>1, <2>2, <2>3, <2>4, <2>5, <2>6
  <2>7. CASE x # t
    BY <2>1, <2>2, <2>3, <2>4, <2>5, <2>7
  <2> QED
    BY <2>6, <2>7
<1>3. S \in T
  <2> HIDE DEF T
  <2> QED BY <1>1, <1>2, SubsetInduction
<1> QED
  BY <1>3, SumIsPartial

\* The same three facts of a function summed over its domain.
LEMMA SumIsNat ==
  ASSUME NEW S, IsFiniteSet(S), NEW f \in [S -> Nat]
  PROVE  SumFunction(f) \in Nat
<1>1. SumFunctionOnSet(f, S) \in Nat
  BY SumType
<1> QED
  BY <1>1 DEF SumFunction

\* Nothing counted anywhere sums to nothing.
LEMMA SumIsZero ==
  ASSUME NEW S, IsFiniteSet(S), NEW f \in [S -> Nat], \A x \in S : f[x] = 0
  PROVE  SumFunction(f) = 0
<1>1. SumFunctionOnSet(f, S) = 0
  BY SumOfZeros
<1> QED
  BY <1>1 DEF SumFunction

\* What is counted at t is counted in the sum.
LEMMA SumChanges ==
  ASSUME NEW S, IsFiniteSet(S), NEW t \in S, NEW d \in Int,
         NEW f \in [S -> Nat], NEW g \in [S -> Nat],
         \A x \in S \ {t} : g[x] = f[x], g[t] = f[t] + d
  PROVE  SumFunction(g) = SumFunction(f) + d
<1>1. SumFunctionOnSet(g, S) = SumFunctionOnSet(f, S) + d
  BY SumStep
<1> QED
  BY <1>1 DEF SumFunction

=============================================================================
