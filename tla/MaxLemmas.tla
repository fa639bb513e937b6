---- MODULE MaxLemmas ----
(***************************************************************************)
(* Facts about the greatest element of a set, which the counters of the    *)
(* version allocator and the branch selection are built from.              *)
(***************************************************************************)
EXTENDS Integers, FiniteSetsExt, FiniteSetTheorems, WellFoundedInduction, TLAPS

\* A bound that is reached is the maximum.
LEMMA MaxIsReachedBound ==
  ASSUME NEW S \in SUBSET Int, NEW x \in S, \A y \in S : y <= x
  PROVE  Max(S) = x
<1>1. \A y \in S : x >= y
  OBVIOUS
<1>2. \A z \in S : (\A y \in S : z >= y) => z = x
  OBVIOUS
<1>3. QED
  BY <1>1, <1>2 DEF Max

\* A function on a finite set that is not empty takes a greatest value: of the
\* subsets where it takes none, a least one would lose an element and become
\* smaller still.
LEMMA GreatestValue ==
  ASSUME NEW S, IsFiniteSet(S), S # {}, NEW f \in [S -> Int]
  PROVE  \E x \in S : \A y \in S : f[y] <= f[x]
<1> DEFINE Reached(A) == \E x \in A : \A y \in A : f[y] <= f[x]
           T == {A \in SUBSET S : A # {} /\ ~ Reached(A)}
<1>1. SUFFICES ASSUME ~ Reached(S)
               PROVE  FALSE
  OBVIOUS
<1>2. S \in T
  BY <1>1
<1>3. T \subseteq FiniteSubsetsOf(S)
  <2>1. FiniteSubsetsOf(S) = SUBSET S
    BY FS_FiniteSubsetsOfFinite
  <2>2. QED
    BY <2>1
<1>4. PICK A \in T : \A B \in T : <<B, A>> \notin StrictSubsetOrdering(S)
  <2>1. IsWellFoundedOn(StrictSubsetOrdering(S), FiniteSubsetsOf(S))
    BY FS_StrictSubsetOrderingWellFounded
  <2> HIDE DEF T
  <2>2. T # {}
    BY <1>2
  <2>3. QED
    BY <2>1, <2>2, <1>3, WFMin
<1>5. PICK a \in A : TRUE
  OBVIOUS
<1> DEFINE B == A \ {a}
<1>6. B \in SUBSET S /\ B \subseteq A /\ B # A
  BY <1>5
<1>7. B \notin T
  BY <1>4, <1>6 DEF StrictSubsetOrdering
<1>8. f[a] \in Int /\ \A y \in B : f[y] \in Int
  BY <1>5, <1>6
<1>9. CASE B = {}
  <2>1. \A y \in A : y = a
    BY <1>9
  <2>2. Reached(A)
    BY <2>1, <1>5, <1>8
  <2>3. QED
    BY <2>2
<1>10. CASE B # {}
  <2>1. PICK b \in B : \A y \in B : f[y] <= f[b]
    BY <1>6, <1>7, <1>10
  <2>2. CASE f[a] <= f[b]
    BY <2>1, <2>2, <1>8
  <2>3. CASE f[b] <= f[a]
    BY <2>1, <2>3, <1>5, <1>8
  <2>4. QED
    BY <2>1, <2>2, <2>3, <1>8
<1>11. QED
  BY <1>9, <1>10

\* h is the greatest of a number and the values of a function.
IsGreatest(h, k, S, f) ==
  /\ h \in Int
  /\ k <= h
  /\ \A x \in S : f[x] <= h
  /\ h = k \/ \E x \in S : h = f[x]

\* The maximum of a number and the values of a function on a finite set bounds
\* them all and is one of them.
LEMMA MaxWithValues ==
  ASSUME NEW S, IsFiniteSet(S), NEW f \in [S -> Int], NEW k \in Int,
         NEW V, V = {k} \cup {f[x] : x \in S}
  PROVE  IsGreatest(Max(V), k, S, f)
<1>1. V \in SUBSET Int
  OBVIOUS
<1>2. PICK h \in V : \A y \in V : y <= h
  <2>1. CASE S = {}
    BY <2>1
  <2>2. CASE S # {}
    <3>1. PICK x \in S : \A y \in S : f[y] <= f[x]
      BY <2>2, GreatestValue
    <3>2. CASE f[x] <= k
      BY <3>1, <3>2
    <3>3. CASE k <= f[x]
      BY <3>1, <3>3
    <3>4. QED
      BY <3>2, <3>3
  <2>3. QED
    BY <2>1, <2>2
<1>3. Max(V) = h
  BY <1>1, <1>2, MaxIsReachedBound
<1>4. QED
  BY <1>1, <1>2, <1>3 DEF IsGreatest

\* The values of a function on a finite set are finitely many.
LEMMA ValuesAreFinite ==
  ASSUME NEW S, IsFiniteSet(S), NEW T, NEW f \in [S -> T]
  PROVE  IsFiniteSet({f[x] : x \in S})
<1> DEFINE V == {f[x] : x \in S}
<1>1. f \in [S -> V]
  OBVIOUS
<1>2. f \in Surjection(S, V)
  BY <1>1 DEF Surjection
<1>3. QED
  BY <1>2, FS_Surjection
====
