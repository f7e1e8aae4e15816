----------------------------- MODULE Aggregates -----------------------------
(***************************************************************************)
(* What the queries' aggregates compute: Min and Max choose a least and a   *)
(* greatest element, and a sum over a finite set does not depend on the     *)
(* order in which its elements are taken.  The library's induction          *)
(* principles cannot be used, its theorem on minimal elements can: what     *)
(* follows rests on it.  At the end, the arithmetic of shard identifiers.   *)
(***************************************************************************)
EXTENDS Integers, Sequences, FiniteSetsExt, FiniteSetTheorems, TLAPS, WellFoundedInduction

\* A non-empty set of naturals has a least element, and it is the one Min
\* chooses.
LEMMA MinOfNaturals ==
  ASSUME NEW S \in SUBSET Nat, S # {}
  PROVE  Min(S) \in S /\ \A x \in S : Min(S) =< x
PROOF
  <1> DEFINE R == {ss \in Nat \X Nat : ss[1] < ss[2]}
  <1>1. IsWellFoundedOn(R, Nat)
    BY NatLessThanWellFounded DEF OpToRel
  <1>2. PICK t \in S : \A u \in S : ~(<<u, t>> \in R)
    <2> HIDE DEF R
    <2> QED BY <1>1, WFMin
  <1>3. \A u \in S : t =< u
    <2> SUFFICES ASSUME NEW u \in S, ~(t =< u) PROVE FALSE
      OBVIOUS
    <2>1. u \in Nat /\ t \in Nat /\ u < t
      OBVIOUS
    <2>2. <<u, t>> \in R
      BY <2>1
    <2> QED BY <1>2, <2>2
  <1> QED BY <1>3 DEF Min

\* A non-empty set of naturals with an upper bound has a greatest element.
LEMMA MaxOfBounded ==
  ASSUME NEW n \in Nat, NEW S \in SUBSET (0..n), S # {}
  PROVE  Max(S) \in S /\ \A x \in S : x =< Max(S)
PROOF
  <1> DEFINE T == {n - x : x \in S}
  <1>1. T \in SUBSET Nat /\ T # {}
    <2>1. \A x \in S : n - x \in Nat
      OBVIOUS
    <2>2. T # {}
      OBVIOUS
    <2> QED BY <2>1, <2>2
  <1>2. Min(T) \in T /\ \A u \in T : Min(T) =< u
    <2> HIDE DEF T
    <2> QED BY <1>1, MinOfNaturals
  <1>3. PICK x \in S : Min(T) = n - x
    BY <1>2
  <1>4. \A y \in S : n - x =< n - y
    BY <1>2, <1>3
  <1>5. \A y \in S : x >= y
    BY <1>4
  <1> QED BY <1>5 DEF Max

\* Induction, for a set of naturals.
LEMMA SetOfNaturalsInduction ==
  ASSUME NEW T \in SUBSET Nat, 0 \in T, \A n \in T : n + 1 \in T
  PROVE  \A n \in Nat : n \in T
PROOF
  <1> DEFINE U == Nat \ T
  <1> SUFFICES ASSUME U # {} PROVE FALSE
    OBVIOUS
  <1>1. Min(U) \in U /\ \A x \in U : Min(U) =< x
    <2> HIDE DEF U
    <2>1. U \in SUBSET Nat
      BY DEF U
    <2> QED BY <2>1, MinOfNaturals
  <1>2. Min(U) - 1 \in T
    BY <1>1
  <1> QED BY <1>1, <1>2

-----------------------------------------------------------------------------
(* Sums. *)

SumOf(w, S) == MapThenSumSet(LAMBDA x : w[x], S)

SumOfAmounts(f, S) == MapThenSumSet(LAMBDA x : f[x].amount, S)

Pick(s) == CHOOSE x \in s : TRUE

\* What the fold computes for s, from its value for one element less.
FoldStep(w, g, s) == IF s = {} THEN 0 ELSE w[Pick(s)] + g[s \ {Pick(s)}]

\* The fold's equation has a solution.
LEMMA SolutionExists ==
  ASSUME NEW S, IsFiniteSet(S), NEW w, \A x \in S : w[x] \in Int
  PROVE  \E g \in [SUBSET S -> Int] : \A s \in SUBSET S : g[s] = FoldStep(w, g, s)
PROOF
  <1> DEFINE D(n) == {s \in SUBSET S : Cardinality(s) =< n}
             Sol(n) == \E g \in [D(n) -> Int] : \A s \in D(n) : g[s] = FoldStep(w, g, s)
             T == {n \in Nat : Sol(n)}
  <1>1. \A s \in SUBSET S : IsFiniteSet(s) /\ Cardinality(s) \in Nat /\ (Cardinality(s) = 0 <=> s = {})
    BY FS_Subset, FS_CardinalityType, FS_EmptySet
  <1>2. \A s \in SUBSET S : s # {} => /\ Pick(s) \in s /\ s \ {Pick(s)} \in SUBSET S
                                     /\ Cardinality(s \ {Pick(s)}) = Cardinality(s) - 1
    BY <1>1, FS_RemoveElement DEF Pick
  <1>3. 0 \in T
    <2> DEFINE g == [s \in D(0) |-> 0]
    <2>1. g \in [D(0) -> Int]
      OBVIOUS
    <2>2. \A s \in D(0) : g[s] = FoldStep(w, g, s)
      BY <1>1 DEF FoldStep
    <2> QED BY <2>1, <2>2
  <1>4. ASSUME NEW n \in T PROVE n + 1 \in T
    <2>1. PICK g \in [D(n) -> Int] : \A s \in D(n) : g[s] = FoldStep(w, g, s)
      OBVIOUS
    <2> DEFINE h == [s \in D(n + 1) |-> IF s \in D(n) THEN g[s] ELSE FoldStep(w, g, s)]
    <2>2. \A s \in D(n + 1) : s # {} => s \ {Pick(s)} \in D(n) /\ w[Pick(s)] \in Int
      BY <1>1, <1>2
    <2>3. \A s \in D(n + 1) : FoldStep(w, g, s) \in Int
      BY <2>1, <2>2 DEF FoldStep
    <2>4. h \in [D(n + 1) -> Int]
      BY <2>1, <2>3
    <2>5. \A s \in D(n) : s \in D(n + 1) /\ h[s] = g[s]
      BY <1>1
    <2>6. \A s \in D(n + 1) : h[s] = FoldStep(w, g, s)
      BY <2>1
    <2>7. \A s \in D(n + 1) : FoldStep(w, h, s) = FoldStep(w, g, s)
      <3> HIDE DEF h
      <3> QED BY <2>2, <2>5 DEF FoldStep
    <2>8. \A s \in D(n + 1) : h[s] = FoldStep(w, h, s)
      BY <2>6, <2>7
    <2>9. Sol(n + 1)
      <3> HIDE DEF h, D
      <3> QED BY <2>4, <2>8
    <2> HIDE DEF Sol
    <2> QED BY <2>9
  <1>5. Sol(Cardinality(S))
    <2>1. T \in SUBSET Nat
      OBVIOUS
    <2>2. \A n \in Nat : n \in T
      <3> HIDE DEF T
      <3> QED BY <1>3, <1>4, <2>1, SetOfNaturalsInduction
    <2> QED BY <1>1, <2>2
  <1>6. D(Cardinality(S)) = SUBSET S
    BY FS_Subset
  <1> QED BY <1>5, <1>6

\* Two solutions agree, for weights that agree.
LEMMA SolutionsAgree ==
  ASSUME NEW S, IsFiniteSet(S), NEW w, NEW v, \A x \in S : w[x] = v[x],
         NEW g, \A s \in SUBSET S : g[s] = FoldStep(w, g, s),
         NEW h, \A s \in SUBSET S : h[s] = FoldStep(v, h, s)
  PROVE  \A s \in SUBSET S : g[s] = h[s]
PROOF
  <1> DEFINE T == {n \in Nat : \A s \in SUBSET S : Cardinality(s) = n => g[s] = h[s]}
  <1>1. \A s \in SUBSET S : IsFiniteSet(s) /\ Cardinality(s) \in Nat /\ (Cardinality(s) = 0 <=> s = {})
    BY FS_Subset, FS_CardinalityType, FS_EmptySet
  <1>2. 0 \in T
    BY <1>1 DEF FoldStep
  <1>3. ASSUME NEW n \in T PROVE n + 1 \in T
    <2> SUFFICES ASSUME NEW s \in SUBSET S, Cardinality(s) = n + 1 PROVE g[s] = h[s]
      OBVIOUS
    <2>1. s # {} /\ Pick(s) \in s /\ s \ {Pick(s)} \in SUBSET S
      BY <1>1 DEF Pick
    <2>2. Cardinality(s \ {Pick(s)}) = n
      BY <1>1, <2>1, FS_RemoveElement
    <2>3. g[s \ {Pick(s)}] = h[s \ {Pick(s)}]
      BY <2>1, <2>2
    <2> QED BY <2>1, <2>3 DEF FoldStep
  <1>4. \A n \in Nat : n \in T
    <2>1. T \in SUBSET Nat
      OBVIOUS
    <2> HIDE DEF T
    <2> QED BY <1>2, <1>3, <2>1, SetOfNaturalsInduction
  <1> QED BY <1>1, <1>4

\* So the fold is the solution.
LEMMA SumSolution ==
  ASSUME NEW S, IsFiniteSet(S), NEW w, \A x \in S : w[x] \in Int
  PROVE  \E g \in [SUBSET S -> Int] : /\ \A s \in SUBSET S : g[s] = FoldStep(w, g, s)
                                       /\ SumOf(w, S) = g[S]
PROOF
  <1> DEFINE IsIt(f) == f = [s \in SUBSET S |-> FoldStep(w, f, s)]
             it == CHOOSE f : IsIt(f)
  <1>1. PICK g \in [SUBSET S -> Int] : \A s \in SUBSET S : g[s] = FoldStep(w, g, s)
    BY SolutionExists
  <1>2. IsIt(g)
    BY <1>1
  <1>3. IsIt(it)
    BY <1>2
  <1>4. SumOf(w, S) = it[S]
    BY DEF SumOf, MapThenSumSet, MapThenFoldSet, FoldStep, Pick
  <1>5. \A s \in SUBSET S : it[s] = FoldStep(w, it, s)
    <2> HIDE DEF it
    <2> QED BY <1>3
  <1>6. it[S] = g[S]
    <2> HIDE DEF it, IsIt
    <2> QED BY <1>1, <1>5, SolutionsAgree
  <1> QED BY <1>1, <1>4, <1>6

\* The same for the amounts of records.
LEMMA SumOfAmountsIsSum ==
  ASSUME NEW S, IsFiniteSet(S), NEW f, NEW w, \A x \in S : f[x].amount = w[x] /\ w[x] \in Int
  PROVE  SumOfAmounts(f, S) = SumOf(w, S)
PROOF
  <1> DEFINE Body(k, s) == IF s = {} THEN 0 ELSE f[Pick(s)].amount + k[s \ {Pick(s)}]
             IsIt(k) == k = [s \in SUBSET S |-> Body(k, s)]
             it == CHOOSE k : IsIt(k)
  <1>1. PICK g \in [SUBSET S -> Int] : /\ \A s \in SUBSET S : g[s] = FoldStep(w, g, s)
                                       /\ SumOf(w, S) = g[S]
    <2>1. \A x \in S : w[x] \in Int
      OBVIOUS
    <2> QED BY ONLY IsFiniteSet(S), <2>1, SumSolution
  <1>2. \A k : \A s \in SUBSET S : Body(k, s) = FoldStep(w, k, s)
    <2>1. \A s \in SUBSET S : s # {} => Pick(s) \in S
      BY DEF Pick
    <2> QED BY <2>1 DEF FoldStep
  <1>3. IsIt(g)
    <2> HIDE DEF Body
    <2> QED BY <1>1, <1>2
  <1>4. IsIt(it)
    BY <1>3
  <1>5. SumOfAmounts(f, S) = it[S]
    BY DEF SumOfAmounts, MapThenSumSet, MapThenFoldSet, Pick
  <1>6. \A s \in SUBSET S : it[s] = FoldStep(w, it, s)
    <2> HIDE DEF it, Body
    <2> QED BY <1>2, <1>4
  <1>7. it[S] = g[S]
    <2> HIDE DEF it, IsIt, Body
    <2>1. \A s \in SUBSET S : g[s] = FoldStep(w, g, s)
      BY <1>1
    <2> QED BY ONLY IsFiniteSet(S), <2>1, <1>6, SolutionsAgree
  <1> HIDE DEF it
  <1> QED BY <1>1, <1>5, <1>7

\* A sum is an integer.
LEMMA SumType ==
  ASSUME NEW S, IsFiniteSet(S), NEW w, \A x \in S : w[x] \in Int
  PROVE  SumOf(w, S) \in Int
PROOF
  <1>1. PICK g \in [SUBSET S -> Int] : (\A s \in SUBSET S : g[s] = FoldStep(w, g, s)) /\ SumOf(w, S) = g[S]
    BY SumSolution
  <1> QED BY <1>1

LEMMA SumEmpty ==
  ASSUME NEW w
  PROVE  SumOf(w, {}) = 0
PROOF
  <1>1. IsFiniteSet({})
    BY FS_EmptySet
  <1>2. PICK g \in [SUBSET {} -> Int] : /\ \A s \in SUBSET {} : g[s] = FoldStep(w, g, s)
                                        /\ SumOf(w, {}) = g[{}]
    BY <1>1, SumSolution
  <1> QED BY <1>2 DEF FoldStep

\* Any element may be taken out first.
AnyFirst(w, g, s) == \A x \in s : g[s] = w[x] + g[s \ {x}]

LEMMA SolutionAnyElement ==
  ASSUME NEW S, IsFiniteSet(S), NEW w, \A x \in S : w[x] \in Int,
         NEW g, \A s \in SUBSET S : g[s] \in Int /\ g[s] = FoldStep(w, g, s)
  PROVE  \A s \in SUBSET S : AnyFirst(w, g, s)
PROOF
  <1> DEFINE T == {n \in Nat : \A s \in SUBSET S : Cardinality(s) = n => AnyFirst(w, g, s)}
  <1>1. \A s \in SUBSET S : IsFiniteSet(s) /\ Cardinality(s) \in Nat /\ (Cardinality(s) = 0 <=> s = {})
    BY FS_Subset, FS_CardinalityType, FS_EmptySet
  <1>2. 0 \in T
    BY <1>1 DEF AnyFirst
  <1>3. ASSUME NEW n \in T PROVE n + 1 \in T
    <2> SUFFICES ASSUME NEW s \in SUBSET S, Cardinality(s) = n + 1, NEW x \in s
                 PROVE  g[s] = w[x] + g[s \ {x}]
      BY DEF AnyFirst
    <2> DEFINE y == Pick(s)
    <2>1. y \in s /\ g[s] = w[y] + g[s \ {y}]
      BY DEF FoldStep, Pick
    <2> HIDE DEF y
    <2>2. CASE x = y
      BY <2>1, <2>2
    <2>3. CASE x # y
      <3> DEFINE r == (s \ {x}) \ {y}
      <3>1. Cardinality(s \ {x}) = n /\ Cardinality(s \ {y}) = n
        <4> HIDE DEF T
        <4>1. IsFiniteSet(s) /\ n \in Nat
          BY <1>1 DEF T
        <4>2. \A e \in s : Cardinality(s \ {e}) = Cardinality(s) - 1
          BY ONLY <4>1, FS_RemoveElement
        <4> QED BY <2>1, <4>1, <4>2
      <3>2. AnyFirst(w, g, s \ {x}) /\ AnyFirst(w, g, s \ {y})
        BY <3>1
      <3>3. g[s \ {x}] = w[y] + g[r]
        BY <2>1, <2>3, <3>2 DEF AnyFirst
      <3>4. g[s \ {y}] = w[x] + g[r]
        <4>1. (s \ {y}) \ {x} = r
          OBVIOUS
        <4>2. g[s \ {y}] = w[x] + g[(s \ {y}) \ {x}]
          BY <2>1, <2>3, <3>2 DEF AnyFirst
        <4> QED BY <4>1, <4>2
      <3>5. w[x] \in Int /\ w[y] \in Int /\ g[r] \in Int
        BY <2>1
      <3> HIDE DEF r
      <3>6. w[y] + (w[x] + g[r]) = w[x] + (w[y] + g[r])
        BY <3>5
      <3> QED BY <2>1, <3>3, <3>4, <3>6
    <2> QED BY <2>2, <2>3
  <1>4. \A n \in Nat : n \in T
    <2>1. T \in SUBSET Nat
      OBVIOUS
    <2> HIDE DEF T
    <2> QED BY <1>2, <1>3, <2>1, SetOfNaturalsInduction
  <1> QED BY <1>1, <1>4

\* One element more.
LEMMA SumAdd ==
  ASSUME NEW S, IsFiniteSet(S), NEW x, x \notin S,
         NEW w, \A y \in S \cup {x} : w[y] \in Int
  PROVE  SumOf(w, S \cup {x}) = SumOf(w, S) + w[x]
PROOF
  <1> DEFINE U == S \cup {x}
  <1>1. IsFiniteSet(U) /\ U \ {x} = S /\ x \in U /\ S \in SUBSET U
    BY FS_AddElement
  <1>0. \A y \in U : w[y] \in Int
    OBVIOUS
  <1> HIDE DEF U
  <1>2. PICK g \in [SUBSET U -> Int] : (\A s \in SUBSET U : g[s] = FoldStep(w, g, s)) /\ SumOf(w, U) = g[U]
    BY <1>0, <1>1, SumSolution
  <1>3. PICK h \in [SUBSET S -> Int] : (\A s \in SUBSET S : h[s] = FoldStep(w, h, s)) /\ SumOf(w, S) = h[S]
    <2>1. \A y \in S : w[y] \in Int
      BY <1>0, <1>1
    <2> QED BY ONLY IsFiniteSet(S), <2>1, SumSolution
  <1>4. g[S] = h[S]
    <2>1. \A s \in SUBSET S : g[s] = FoldStep(w, g, s)
      BY <1>1, <1>2
    <2> QED BY <1>3, <2>1, SolutionsAgree
  <1>5. g[U] = w[x] + g[S]
    <2>1. \A s \in SUBSET U : g[s] \in Int /\ g[s] = FoldStep(w, g, s)
      BY <1>2
    <2>2. \A s \in SUBSET U : AnyFirst(w, g, s)
      BY <1>0, <1>1, <2>1, SolutionAnyElement
    <2> QED BY <1>1, <2>2 DEF AnyFirst
  <1>6. g[S] \in Int /\ w[x] \in Int
    BY <1>0, <1>1, <1>2
  <1> QED BY <1>2, <1>3, <1>4, <1>5, <1>6 DEF U

\* A sum depends on the weights of its elements only.
LEMMA SumAgrees ==
  ASSUME NEW S, IsFiniteSet(S), NEW w, NEW v, \A x \in S : w[x] = v[x] /\ w[x] \in Int
  PROVE  SumOf(w, S) = SumOf(v, S)
PROOF
  <1>1. PICK g \in [SUBSET S -> Int] : (\A s \in SUBSET S : g[s] = FoldStep(w, g, s)) /\ SumOf(w, S) = g[S]
    <2>1. \A x \in S : w[x] \in Int
      OBVIOUS
    <2> QED BY ONLY IsFiniteSet(S), <2>1, SumSolution
  <1>2. PICK h \in [SUBSET S -> Int] : (\A s \in SUBSET S : h[s] = FoldStep(v, h, s)) /\ SumOf(v, S) = h[S]
    <2>1. \A x \in S : v[x] \in Int
      OBVIOUS
    <2> QED BY ONLY IsFiniteSet(S), <2>1, SumSolution
  <1>3. \A x \in S : w[x] = v[x]
    OBVIOUS
  <1>4. g[S] = h[S]
    BY <1>1, <1>2, <1>3, SolutionsAgree
  <1> QED BY <1>1, <1>2, <1>4

\* Sums of disjoint sets add up.
LEMMA SumUnion ==
  ASSUME NEW S, IsFiniteSet(S), NEW R, IsFiniteSet(R), S \cap R = {},
         NEW w, \A x \in S \cup R : w[x] \in Int
  PROVE  SumOf(w, S \cup R) = SumOf(w, S) + SumOf(w, R)
PROOF
  <1> DEFINE Good(s) == SumOf(w, S \cup s) = SumOf(w, S) + SumOf(w, s)
             T == {n \in Nat : \A s \in SUBSET R : Cardinality(s) = n => Good(s)}
  <1>1. \A s \in SUBSET R : IsFiniteSet(s) /\ Cardinality(s) \in Nat /\ (Cardinality(s) = 0 <=> s = {})
    BY FS_Subset, FS_CardinalityType, FS_EmptySet
  <1>2. 0 \in T
    <2>1. S \cup {} = S /\ SumOf(w, {}) = 0 /\ SumOf(w, S) \in Int
      BY SumEmpty, SumType
    <2> QED BY <1>1, <2>1
  <1>3. ASSUME NEW n \in T PROVE n + 1 \in T
    <2> SUFFICES ASSUME NEW s \in SUBSET R, Cardinality(s) = n + 1 PROVE Good(s)
      OBVIOUS
    <2>1. PICK x \in s : TRUE
      BY <1>1
    <2> DEFINE r == s \ {x}
    <2>2. r \in SUBSET R /\ IsFiniteSet(r) /\ Cardinality(r) = n /\ x \notin r /\ r \cup {x} = s
      BY <1>1, <2>1, FS_RemoveElement
    <2> HIDE DEF r
    <2>3. Good(r)
      BY <2>2
    <2>4. SumOf(w, s) = SumOf(w, r) + w[x]
      <3>1. \A y \in r \cup {x} : w[y] \in Int
        BY <2>2
      <3>2. SumOf(w, r \cup {x}) = SumOf(w, r) + w[x]
        BY <2>2, <3>1, SumAdd
      <3> QED BY <2>2, <3>2
    <2>5. SumOf(w, S \cup s) = SumOf(w, S \cup r) + w[x]
      <3>1. IsFiniteSet(S \cup r) /\ x \notin S \cup r /\ (S \cup r) \cup {x} = S \cup s
        BY <2>1, <2>2, FS_Union
      <3>2. \A y \in (S \cup r) \cup {x} : w[y] \in Int
        BY <2>2
      <3>3. SumOf(w, (S \cup r) \cup {x}) = SumOf(w, S \cup r) + w[x]
        BY <3>1, <3>2, SumAdd
      <3> QED BY <3>1, <3>3
    <2>6. SumOf(w, S) \in Int /\ SumOf(w, r) \in Int /\ w[x] \in Int
      BY <2>1, <2>2, SumType
    <2> QED BY <2>3, <2>4, <2>5, <2>6
  <1>4. \A n \in Nat : n \in T
    <2>1. T \in SUBSET Nat
      OBVIOUS
    <2> HIDE DEF T
    <2> QED BY <1>2, <1>3, <2>1, SetOfNaturalsInduction
  <1> QED BY <1>1, <1>4

\* A sum of naturals is a natural, and not less than any of them.
LEMMA SumOfNaturals ==
  ASSUME NEW S, IsFiniteSet(S), NEW w, \A x \in S : w[x] \in Nat
  PROVE  SumOf(w, S) \in Nat /\ \A x \in S : w[x] =< SumOf(w, S)
PROOF
  <1> DEFINE T == {n \in Nat : \A s \in SUBSET S : Cardinality(s) = n => SumOf(w, s) \in Nat}
  <1>1. \A s \in SUBSET S : IsFiniteSet(s) /\ Cardinality(s) \in Nat /\ (Cardinality(s) = 0 <=> s = {})
    BY FS_Subset, FS_CardinalityType, FS_EmptySet
  <1>2. \A s \in SUBSET S : \A x \in s : SumOf(w, s) = SumOf(w, s \ {x}) + w[x]
    <2> SUFFICES ASSUME NEW s \in SUBSET S, NEW x \in s PROVE SumOf(w, s) = SumOf(w, s \ {x}) + w[x]
      OBVIOUS
    <2> DEFINE r == s \ {x}
    <2>1. IsFiniteSet(r) /\ x \notin r /\ r \cup {x} = s
      BY <1>1, FS_RemoveElement
    <2>2. \A y \in r \cup {x} : w[y] \in Int
      OBVIOUS
    <2> HIDE DEF r
    <2>3. SumOf(w, r \cup {x}) = SumOf(w, r) + w[x]
      BY ONLY <2>1, <2>2, SumAdd
    <2> QED BY <2>1, <2>3 DEF r
  <1>3. 0 \in T
    BY <1>1, SumEmpty
  <1>4. ASSUME NEW n \in T PROVE n + 1 \in T
    <2> SUFFICES ASSUME NEW s \in SUBSET S, Cardinality(s) = n + 1 PROVE SumOf(w, s) \in Nat
      OBVIOUS
    <2>1. PICK x \in s : TRUE
      BY <1>1
    <2>2. Cardinality(s \ {x}) = n
      <3>1. IsFiniteSet(s)
        BY <1>1
      <3>2. Cardinality(s \ {x}) = Cardinality(s) - 1
        BY ONLY <3>1, <2>1, FS_RemoveElement
      <3> QED BY <3>2
    <2>3. SumOf(w, s \ {x}) \in Nat /\ w[x] \in Nat
      BY <2>1, <2>2
    <2> HIDE DEF T
    <2> QED BY <1>2, <2>1, <2>3
  <1>5. \A n \in Nat : n \in T
    <2>1. T \in SUBSET Nat
      OBVIOUS
    <2> HIDE DEF T
    <2> QED BY <1>3, <1>4, <2>1, SetOfNaturalsInduction
  <1>6. \A s \in SUBSET S : SumOf(w, s) \in Nat
    BY <1>1, <1>5
  <1> HIDE DEF T
  <1>7. \A x \in S : w[x] =< SumOf(w, S)
    <2> TAKE x \in S
    <2>1. SumOf(w, S) = SumOf(w, S \ {x}) + w[x]
      BY <1>2
    <2> QED BY <1>6, <2>1
  <1> QED BY <1>6, <1>7

\* The elements may be numbered in any way.
LEMMA SumRenamed ==
  ASSUME NEW I, IsFiniteSet(I), NEW f, \A i, j \in I : f[i] = f[j] => i = j,
         NEW w, NEW v, \A i \in I : v[i] = w[f[i]] /\ v[i] \in Int
  PROVE  SumOf(v, I) = SumOf(w, {f[i] : i \in I})
PROOF
  <1> DEFINE Image(s) == {f[i] : i \in s}
             Good(s) == IsFiniteSet(Image(s)) /\ SumOf(v, s) = SumOf(w, Image(s))
             T == {n \in Nat : \A s \in SUBSET I : Cardinality(s) = n => Good(s)}
  <1>1. \A s \in SUBSET I : IsFiniteSet(s) /\ Cardinality(s) \in Nat /\ (Cardinality(s) = 0 <=> s = {})
    BY FS_Subset, FS_CardinalityType, FS_EmptySet
  <1>2. 0 \in T
    <2>1. Image({}) = {}
      OBVIOUS
    <2>2. Good({})
      BY <2>1, SumEmpty, FS_EmptySet
    <2> QED BY <1>1, <2>2
  <1>3. ASSUME NEW n \in T PROVE n + 1 \in T
    <2> SUFFICES ASSUME NEW s \in SUBSET I, Cardinality(s) = n + 1 PROVE Good(s)
      OBVIOUS
    <2>1. PICK i \in s : TRUE
      BY <1>1
    <2> DEFINE r == s \ {i}
    <2>2. r \in SUBSET I /\ i \notin r /\ r \cup {i} = s
      BY <2>1
    <2>3. IsFiniteSet(r) /\ Cardinality(r) = n
      <3>1. IsFiniteSet(s)
        BY <1>1
      <3>2. IsFiniteSet(s \ {i}) /\ Cardinality(s \ {i}) = Cardinality(s) - 1
        BY ONLY <3>1, <2>1, FS_RemoveElement
      <3> QED BY <3>2
    <2>4. Image(s) = Image(r) \cup {f[i]} /\ f[i] \notin Image(r)
      BY <2>1, <2>2
    <2>5. \A y \in Image(s) : w[y] \in Int
      OBVIOUS
    <2> HIDE DEF r
    <2>6. Good(r)
      BY <2>2, <2>3
    <2> HIDE DEF T
    <2>7. SumOf(v, r \cup {i}) = SumOf(v, r) + v[i]
      <3>1. \A j \in r \cup {i} : v[j] \in Int
        BY <2>2
      <3> QED BY ONLY <2>2, <2>3, <3>1, SumAdd
    <2>8. SumOf(w, Image(r) \cup {f[i]}) = SumOf(w, Image(r)) + w[f[i]]
      <3> HIDE DEF Image
      <3>1. \A y \in Image(r) \cup {f[i]} : w[y] \in Int
        BY <2>4, <2>5
      <3>2. IsFiniteSet(Image(r))
        BY <2>6
      <3> QED BY ONLY <2>4, <3>1, <3>2, SumAdd
    <2>9. IsFiniteSet(Image(s))
      <3> HIDE DEF Image
      <3> QED BY <2>4, <2>6, FS_AddElement
    <2> HIDE DEF Image
    <2> QED BY <2>1, <2>2, <2>4, <2>6, <2>7, <2>8, <2>9
  <1>4. \A n \in Nat : n \in T
    <2>1. T \in SUBSET Nat
      OBVIOUS
    <2> HIDE DEF T
    <2> QED BY <1>2, <1>3, <2>1, SetOfNaturalsInduction
  <1> QED BY <1>1, <1>4

-----------------------------------------------------------------------------
(* The same facts for sums of the amounts of records. *)

LEMMA AmountsEmpty ==
  ASSUME NEW f
  PROVE  SumOfAmounts(f, {}) = 0
PROOF
  <1>1. IsFiniteSet({}) /\ \A x \in {} : f[x].amount = f[x] /\ f[x] \in Int
    BY FS_EmptySet
  <1>2. SumOfAmounts(f, {}) = SumOf(f, {})
    BY ONLY <1>1, SumOfAmountsIsSum
  <1> QED BY <1>2, SumEmpty

LEMMA AmountsType ==
  ASSUME NEW S, IsFiniteSet(S), NEW f, \A x \in S : f[x].amount \in Nat
  PROVE  SumOfAmounts(f, S) \in Nat /\ \A x \in S : f[x].amount =< SumOfAmounts(f, S)
PROOF
  <1> DEFINE w == [x \in S |-> f[x].amount]
  <1>1. \A x \in S : f[x].amount = w[x] /\ w[x] \in Int
    OBVIOUS
  <1>2. \A x \in S : f[x].amount = w[x] /\ w[x] \in Nat
    OBVIOUS
  <1> HIDE DEF w
  <1>3. SumOfAmounts(f, S) = SumOf(w, S)
    BY ONLY IsFiniteSet(S), <1>1, SumOfAmountsIsSum
  <1>4. SumOf(w, S) \in Nat /\ \A x \in S : w[x] =< SumOf(w, S)
    <2>1. \A x \in S : w[x] \in Nat
      BY <1>2
    <2> QED BY ONLY IsFiniteSet(S), <2>1, SumOfNaturals
  <1> QED BY <1>2, <1>3, <1>4

LEMMA AmountsKept ==
  ASSUME NEW S, IsFiniteSet(S), NEW f, NEW g, \A x \in S : f[x].amount = g[x].amount /\ f[x].amount \in Int
  PROVE  SumOfAmounts(f, S) = SumOfAmounts(g, S)
PROOF
  <1> DEFINE w == [x \in S |-> f[x].amount]
  <1>1. \A x \in S : f[x].amount = w[x] /\ w[x] \in Int
    OBVIOUS
  <1>2. \A x \in S : g[x].amount = w[x] /\ w[x] \in Int
    OBVIOUS
  <1> HIDE DEF w
  <1>3. SumOfAmounts(f, S) = SumOf(w, S)
    BY ONLY IsFiniteSet(S), <1>1, SumOfAmountsIsSum
  <1>4. SumOfAmounts(g, S) = SumOf(w, S)
    BY ONLY IsFiniteSet(S), <1>2, SumOfAmountsIsSum
  <1> QED BY <1>3, <1>4

LEMMA AmountsUnion ==
  ASSUME NEW S, IsFiniteSet(S), NEW R, IsFiniteSet(R), S \cap R = {},
         NEW f, \A x \in S \cup R : f[x].amount \in Int
  PROVE  SumOfAmounts(f, S \cup R) = SumOfAmounts(f, S) + SumOfAmounts(f, R)
PROOF
  <1> DEFINE U == S \cup R
             w == [x \in U |-> f[x].amount]
  <1>1. IsFiniteSet(U) /\ S \subseteq U /\ R \subseteq U
    BY FS_Union
  <1>2. \A x \in U : f[x].amount \in Int
    OBVIOUS
  <1>3. \A x \in U : f[x].amount = w[x] /\ w[x] \in Int
    <2> HIDE DEF U
    <2> QED BY <1>2
  <1> HIDE DEF w
  <1>4. SumOfAmounts(f, U) = SumOf(w, U)
    <2> HIDE DEF U
    <2> QED BY ONLY <1>1, <1>3, SumOfAmountsIsSum
  <1>5. SumOfAmounts(f, S) = SumOf(w, S)
    <2>1. \A x \in S : f[x].amount = w[x] /\ w[x] \in Int
      BY <1>3
    <2> QED BY ONLY IsFiniteSet(S), <2>1, SumOfAmountsIsSum
  <1>6. SumOfAmounts(f, R) = SumOf(w, R)
    <2>1. \A x \in R : f[x].amount = w[x] /\ w[x] \in Int
      BY <1>3
    <2> QED BY ONLY IsFiniteSet(R), <2>1, SumOfAmountsIsSum
  <1>7. SumOf(w, U) = SumOf(w, S) + SumOf(w, R)
    <2>1. \A x \in S \cup R : w[x] \in Int
      BY <1>3
    <2> QED BY ONLY S \cap R = {}, IsFiniteSet(S), IsFiniteSet(R), <2>1, SumUnion
  <1> QED BY <1>4, <1>5, <1>6, <1>7

\* Records without an amount add nothing.
LEMMA AmountsZero ==
  ASSUME NEW S, IsFiniteSet(S), NEW f, \A x \in S : f[x].amount = 0
  PROVE  SumOfAmounts(f, S) = 0
PROOF
  <1> DEFINE T == {n \in Nat : \A s \in SUBSET S : Cardinality(s) = n => SumOfAmounts(f, s) = 0}
  <1>1. \A s \in SUBSET S : IsFiniteSet(s) /\ Cardinality(s) \in Nat /\ (Cardinality(s) = 0 <=> s = {})
    BY FS_Subset, FS_CardinalityType, FS_EmptySet
  <1>2. 0 \in T
    BY <1>1, AmountsEmpty
  <1>3. ASSUME NEW n \in T PROVE n + 1 \in T
    <2> SUFFICES ASSUME NEW s \in SUBSET S, Cardinality(s) = n + 1 PROVE SumOfAmounts(f, s) = 0
      OBVIOUS
    <2>1. PICK x \in s : TRUE
      BY <1>1
    <2> DEFINE r == s \ {x}
               o == {x}
    <2>2. r \in SUBSET S /\ o \in SUBSET S /\ r \cap o = {} /\ r \cup o = s
      BY <2>1
    <2>3. Cardinality(r) = n
      <3>1. IsFiniteSet(s)
        BY <1>1
      <3>2. Cardinality(s \ {x}) = Cardinality(s) - 1
        BY ONLY <3>1, <2>1, FS_RemoveElement
      <3> QED BY <3>2
    <2>4. SumOfAmounts(f, o) = 0
      <3> DEFINE w == [y \in o |-> 0]
      <3>1. \A y \in o : f[y].amount = w[y] /\ w[y] \in Int
        BY <2>1
      <3>2. IsFiniteSet(o) /\ IsFiniteSet({}) /\ {} \cup {x} = o /\ x \notin {} /\ w[x] = 0
        BY <1>1, <2>2, FS_EmptySet
      <3>3. \A y \in {} \cup {x} : w[y] \in Int
        BY <3>2
      <3> HIDE DEF w, o
      <3>4. SumOfAmounts(f, o) = SumOf(w, o)
        BY ONLY <3>1, <3>2, SumOfAmountsIsSum
      <3>5. SumOf(w, {} \cup {x}) = SumOf(w, {}) + w[x]
        BY ONLY <3>2, <3>3, SumAdd
      <3> QED BY <3>2, <3>4, <3>5, SumEmpty
    <2> HIDE DEF r, o
    <2>5. SumOfAmounts(f, r) = 0
      BY <2>2, <2>3
    <2> HIDE DEF T
    <2>6. SumOfAmounts(f, r \cup o) = SumOfAmounts(f, r) + SumOfAmounts(f, o)
      <3>1. IsFiniteSet(r) /\ IsFiniteSet(o)
        BY <1>1, <2>2
      <3>2. \A y \in r \cup o : f[y].amount \in Int
        BY <2>2
      <3> QED BY ONLY <2>2, <3>1, <3>2, AmountsUnion
    <2> QED BY <2>2, <2>4, <2>5, <2>6
  <1>4. \A n \in Nat : n \in T
    <2>1. T \in SUBSET Nat
      OBVIOUS
    <2> HIDE DEF T
    <2> QED BY <1>2, <1>3, <2>1, SetOfNaturalsInduction
  <1> QED BY <1>1, <1>4

LEMMA SumZero ==
  ASSUME NEW S, IsFiniteSet(S), NEW w, \A x \in S : w[x] = 0
  PROVE  SumOf(w, S) = 0
PROOF
  <1> DEFINE f == [x \in S |-> [amount |-> w[x]]]
  <1>1. \A x \in S : f[x].amount = w[x] /\ w[x] \in Int
    OBVIOUS
  <1>2. \A x \in S : f[x].amount = 0
    BY <1>1
  <1> HIDE DEF f
  <1>3. SumOfAmounts(f, S) = SumOf(w, S)
    BY ONLY IsFiniteSet(S), <1>1, SumOfAmountsIsSum
  <1>4. SumOfAmounts(f, S) = 0
    BY ONLY IsFiniteSet(S), <1>2, AmountsZero
  <1> QED BY <1>3, <1>4

\* Records may be numbered in any way.
LEMMA AmountsRenamed ==
  ASSUME NEW I, IsFiniteSet(I), NEW S, IsFiniteSet(S), NEW h \in [I -> S],
         \A i, j \in I : h[i] = h[j] => i = j, \A x \in S : \E i \in I : h[i] = x,
         NEW f, NEW g, \A i \in I : g[i].amount = f[h[i]].amount /\ g[i].amount \in Int
  PROVE  SumOfAmounts(g, I) = SumOfAmounts(f, S)
PROOF
  <1> DEFINE w == [x \in S |-> f[x].amount]
             v == [i \in I |-> g[i].amount]
  <1>0. S = {h[i] : i \in I}
    OBVIOUS
  <1>1. \A x \in S : f[x].amount = w[x] /\ w[x] \in Int
    OBVIOUS
  <1>2. \A i \in I : g[i].amount = v[i] /\ v[i] \in Int
    OBVIOUS
  <1>3. \A i \in I : v[i] = w[h[i]] /\ v[i] \in Int
    OBVIOUS
  <1> HIDE DEF w, v
  <1>4. SumOfAmounts(f, S) = SumOf(w, S)
    BY ONLY IsFiniteSet(S), <1>1, SumOfAmountsIsSum
  <1>5. SumOfAmounts(g, I) = SumOf(v, I)
    BY ONLY IsFiniteSet(I), <1>2, SumOfAmountsIsSum
  <1>6. SumOf(v, I) = SumOf(w, {h[i] : i \in I})
    <2>1. \A i, j \in I : h[i] = h[j] => i = j
      OBVIOUS
    <2> QED BY ONLY IsFiniteSet(I), <2>1, <1>3, SumRenamed
  <1> QED BY <1>0, <1>4, <1>5, <1>6

\* The amounts of a concatenation.
LEMMA AmountsConcat ==
  ASSUME NEW R, \A x \in R : x.amount \in Int, NEW s \in Seq(R), NEW t \in Seq(R)
  PROVE  SumOfAmounts(s \o t, 1..Len(s \o t)) = SumOfAmounts(s, 1..Len(s)) + SumOfAmounts(t, 1..Len(t))
PROOF
  <1> DEFINE u == s \o t
             A == 1..Len(s)
             B == (Len(s) + 1)..(Len(s) + Len(t))
             C == 1..Len(t)
             h == [i \in C |-> i + Len(s)]
  <1>1. /\ Len(s) \in Nat /\ Len(t) \in Nat /\ Len(u) = Len(s) + Len(t)
        /\ \A i \in A : u[i] = s[i] /\ s[i] \in R
        /\ \A i \in C : u[i + Len(s)] = t[i] /\ t[i] \in R
    OBVIOUS
  <1> HIDE DEF u
  <1>2. IsFiniteSet(A) /\ IsFiniteSet(B) /\ IsFiniteSet(C)
    BY <1>1, FS_Interval
  <1>3. 1..Len(u) = A \cup B /\ A \cap B = {}
    BY <1>1
  <1>4. h \in [C -> B] /\ \A k \in B : \E i \in C : h[i] = k
    <2>1. \A k \in B : k - Len(s) \in C /\ h[k - Len(s)] = k
      BY <1>1
    <2>2. h \in [C -> B]
      BY <1>1
    <2> HIDE DEF B, C, h
    <2> QED BY <2>1, <2>2
  <1>5. \A i, j \in C : h[i] = h[j] => i = j
    BY <1>1
  <1>6. \A i \in C : h[i] = i + Len(s)
    OBVIOUS
  <1> HIDE DEF h, A, B, C
  <1>7. \A i \in C : t[i].amount = u[h[i]].amount /\ t[i].amount \in Int
    BY <1>1, <1>6
  <1>8. \A i \in A : u[i].amount = s[i].amount /\ u[i].amount \in Int
    BY <1>1
  <1>9. \A i \in A \cup B : u[i].amount \in Int
    BY <1>4, <1>7, <1>8
  <1>10. SumOfAmounts(u, A \cup B) = SumOfAmounts(u, A) + SumOfAmounts(u, B)
    BY ONLY <1>2, <1>3, <1>9, AmountsUnion
  <1>11. SumOfAmounts(u, A) = SumOfAmounts(s, A)
    BY ONLY <1>2, <1>8, AmountsKept
  <1>12. SumOfAmounts(t, C) = SumOfAmounts(u, B)
    <2>1. IsFiniteSet(B) /\ IsFiniteSet(C)
      BY <1>2
    <2> QED BY ONLY <2>1, <1>4, <1>5, <1>7, AmountsRenamed
  <1> QED BY <1>3, <1>10, <1>11, <1>12 DEF u, A, C

\* The amount of a single record.
LEMMA AmountsOne ==
  ASSUME NEW x, NEW f, f[x].amount \in Int
  PROVE  SumOfAmounts(f, {x}) = f[x].amount
PROOF
  <1> DEFINE w == [y \in {x} |-> f[y].amount]
             e == {}
  <1>1. IsFiniteSet({}) /\ IsFiniteSet({x})
    BY FS_EmptySet, FS_Singleton
  <1>2. \A y \in {x} : f[y].amount = w[y] /\ w[y] \in Int
    OBVIOUS
  <1>3. w[x] = f[x].amount
    OBVIOUS
  <1> HIDE DEF w
  <1>4. SumOfAmounts(f, {x}) = SumOf(w, {x})
    BY ONLY <1>1, <1>2, SumOfAmountsIsSum
  <1>5. IsFiniteSet(e) /\ x \notin e /\ (\A y \in e \cup {x} : w[y] \in Int) /\ e \cup {x} = {x}
    BY <1>1, <1>2
  <1>6. SumOf(w, e) = 0
    BY SumEmpty
  <1> HIDE DEF e
  <1>7. SumOf(w, e \cup {x}) = SumOf(w, e) + w[x]
    BY ONLY <1>5, SumAdd
  <1>8. f[x].amount = 0 + f[x].amount
    OBVIOUS
  <1>9. SumOf(w, {x}) = 0 + f[x].amount
    BY ONLY <1>3, <1>5, <1>6, <1>7, Zenon
  <1> QED BY ONLY <1>4, <1>8, <1>9, Zenon

-----------------------------------------------------------------------------
(* Powers of two and division. *)

\* 2^n is the number of subsets of a set of n elements: all that the library
\* says of powers.
LEMMA PowerCounts ==
  ASSUME NEW n \in Nat
  PROVE  /\ IsFiniteSet(SUBSET (1..n))
         /\ 2^n = Cardinality(SUBSET (1..n))
PROOF
  <1>1. IsFiniteSet(1..n) /\ Cardinality(1..n) = n
    BY FS_Interval
  <1>2. IsFiniteSet(SUBSET (1..n)) /\ Cardinality(SUBSET (1..n)) = 2^Cardinality(1..n)
    BY <1>1, FS_SUBSET
  <1> QED BY <1>1, <1>2, Zenon

\* Powers of two are positive naturals.
LEMMA PowerPositive ==
  ASSUME NEW n \in Nat
  PROVE  2^n \in Nat /\ 2^n > 0
PROOF
  <1>1. Cardinality(SUBSET (1..n)) \in Nat /\ Cardinality(SUBSET (1..n)) # 0
    <2>1. SUBSET (1..n) # {}
      OBVIOUS
    <2> QED BY <2>1, PowerCounts, FS_CardinalityType, FS_EmptySet
  <1>2. 2^n = Cardinality(SUBSET (1..n))
    BY PowerCounts
  <1> QED BY ONLY <1>1, <1>2

LEMMA PowerZero == 2^0 = 1
PROOF
  <1>1. SUBSET (1..0) = {{}}
    OBVIOUS
  <1>2. Cardinality({{}}) = 1
    BY FS_Singleton
  <1>3. 2^0 = Cardinality(SUBSET (1..0))
    BY PowerCounts
  <1> QED BY <1>1, <1>2, <1>3, Zenon

\* One more element doubles the number of subsets.
LEMMA PowerStep ==
  ASSUME NEW n \in Nat
  PROVE  2^(n + 1) = 2 * 2^n
PROOF
  <1> DEFINE A == SUBSET (1..n)
             B == {T \cup {n + 1} : T \in A}
             f == [T \in A |-> T \cup {n + 1}]
  <1>1. A \cup B = SUBSET (1..(n + 1))
    <2>1. ASSUME NEW T \in SUBSET (1..(n + 1)) PROVE T \in A \cup B
      <3>1. CASE n + 1 \in T
        <4>1. T \ {n + 1} \in A
          OBVIOUS
        <4>2. T = (T \ {n + 1}) \cup {n + 1}
          BY <3>1
        <4> QED BY <4>1, <4>2
      <3>2. CASE n + 1 \notin T
        <4>1. T \in A
          BY <3>2
        <4> QED BY <4>1
      <3> QED BY <3>1, <3>2
    <2>2. \A T \in A : T \in SUBSET (1..(n + 1)) /\ T \cup {n + 1} \in SUBSET (1..(n + 1))
      OBVIOUS
    <2> HIDE DEF A
    <2> QED BY <2>1, <2>2
  <1>2. A \cap B = {}
    OBVIOUS
  <1>3. f \in Bijection(A, B)
    <2>1. f \in Surjection(A, B)
      BY DEF Surjection
    <2>2. ASSUME NEW T \in A, NEW U \in A, f[T] = f[U] PROVE T = U
      <3>1. n + 1 \notin T /\ n + 1 \notin U
        OBVIOUS
      <3>2. T \cup {n + 1} = U \cup {n + 1}
        BY <2>2
      <3> HIDE DEF A, f
      <3> QED BY <3>1, <3>2
    <2>3. f \in Injection(A, B)
      BY <2>1, <2>2 DEF Injection, Surjection, IsInjective
    <2> QED BY <2>1, <2>3 DEF Bijection
  <1>4. IsFiniteSet(A) /\ 2^n = Cardinality(A) /\ Cardinality(A) \in Nat
    BY PowerCounts, FS_CardinalityType
  <1>5. 2^(n + 1) = Cardinality(A \cup B)
    <2>1. n + 1 \in Nat
      OBVIOUS
    <2>2. 2^(n + 1) = Cardinality(SUBSET (1..(n + 1)))
      BY ONLY <2>1, PowerCounts
    <2> HIDE DEF A, B
    <2> QED BY ONLY <1>1, <2>2, Zenon
  <1> HIDE DEF A, B, f
  <1>6. IsFiniteSet(B) /\ Cardinality(B) = Cardinality(A)
    BY <1>3, <1>4, FS_Bijection DEF ExistsBijection
  <1>7. Cardinality(A \cup B) = Cardinality(A) + Cardinality(B) - Cardinality(A \cap B)
    BY <1>4, <1>6, FS_Union
  <1>8. Cardinality(A \cap B) = 0
    BY <1>2, FS_EmptySet
  <1> QED BY <1>4, <1>5, <1>6, <1>7, <1>8

\* The exponents of a product add up.
LEMMA PowerSum ==
  ASSUME NEW a \in Nat, NEW b \in Nat
  PROVE  2^(a + b) = 2^a * 2^b
PROOF
  <1> DEFINE T == {n \in Nat : 2^(a + n) = 2^a * 2^n}
  <1>1. 0 \in T
    <2>1. 2^(a + 0) = 2^a /\ 2^a \in Nat
      BY PowerPositive
    <2> QED BY <2>1, PowerZero
  <1>2. ASSUME NEW n \in T PROVE n + 1 \in T
    <2>1. n \in Nat /\ n + 1 \in Nat /\ a + (n + 1) = (a + n) + 1 /\ a + n \in Nat
      OBVIOUS
    <2>2. 2^(a + n) = 2^a * 2^n
      OBVIOUS
    <2>3. 2^((a + n) + 1) = 2 * 2^(a + n) /\ 2^(n + 1) = 2 * 2^n
      BY <2>1, PowerStep
    <2>4. 2^a \in Nat /\ 2^n \in Nat
      BY <2>1, PowerPositive
    <2>5. ASSUME NEW x \in Nat, NEW y \in Nat PROVE 2 * (x * y) = x * (2 * y)
      OBVIOUS
    <2>6. 2 * (2^a * 2^n) = 2^a * (2 * 2^n)
      BY ONLY <2>4, <2>5
    <2>7. 2^(a + (n + 1)) = 2^a * 2^(n + 1)
      BY ONLY <2>1, <2>2, <2>3, <2>6, Zenon
    <2> QED BY <2>1, <2>7
  <1>3. \A n \in Nat : n \in T
    <2> HIDE DEF T
    <2>1. T \in SUBSET Nat
      BY DEF T
    <2> QED BY <1>1, <1>2, <2>1, SetOfNaturalsInduction
  <1> QED BY <1>3

-----------------------------------------------------------------------------
\* Multiplication by a positive number keeps the order.
LEMMA ProductOrder ==
  ASSUME NEW a \in Int, NEW b \in Int, NEW d \in Nat, d > 0
  PROVE  /\ a * d \in Int
         /\ a * d < b * d <=> a < b
         /\ a * d =< b * d <=> a =< b
         /\ a * d = b * d <=> a = b
         /\ (a + 1) * d = a * d + d
         /\ (a + b) * d = a * d + b * d
OBVIOUS

\* Quotient and remainder.
LEMMA Division ==
  ASSUME NEW x \in Nat, NEW d \in Nat, d > 0
  PROVE  /\ x \div d \in Nat /\ x % d \in Nat
         /\ x = (x \div d) * d + (x % d)
         /\ x % d < d
OBVIOUS

\* There is only one quotient and one remainder.
LEMMA Quotient ==
  ASSUME NEW x \in Nat, NEW d \in Nat, d > 0, NEW q \in Int, NEW r \in Nat, r < d,
         x = q * d + r
  PROVE  x \div d = q /\ x % d = r
PROOF
  <1> DEFINE p == x \div d
             s == x % d
  <1>1. p \in Nat /\ s \in Nat /\ x = p * d + s /\ s < d
    BY Division
  <1> HIDE DEF p, s
  <1>2. p * d \in Int /\ q * d \in Int /\ (p + 1) * d = p * d + d /\ (q + 1) * d = q * d + d
    BY <1>1, ProductOrder
  <1>3. p * d < (q + 1) * d /\ q * d < (p + 1) * d
    BY <1>1, <1>2
  <1>4. p < q + 1 /\ q < p + 1
    <2>1. p + 1 \in Int /\ q + 1 \in Int /\ p \in Int
      BY <1>1
    <2> QED BY ONLY <2>1, <1>3, ProductOrder, d \in Nat, d > 0, q \in Int
  <1>5. p = q
    BY <1>1, <1>4
  <1>6. s = r
    BY <1>1, <1>2, <1>5
  <1> QED BY <1>5, <1>6 DEF p, s

\* The quotient in terms of order.
LEMMA QuotientBounds ==
  ASSUME NEW x \in Nat, NEW d \in Nat, d > 0, NEW q \in Int
  PROVE  x \div d = q <=> q * d =< x /\ x < (q + 1) * d
PROOF
  <1>1. q * d \in Int /\ (q + 1) * d = q * d + d
    BY ProductOrder
  <1>2. ASSUME x \div d = q PROVE q * d =< x /\ x < (q + 1) * d
    <2>1. x % d \in Nat /\ x = q * d + (x % d) /\ x % d < d
      BY <1>2, Division
    <2> HIDE <1>2
    <2> QED BY <2>1, <1>1
  <1>3. ASSUME q * d =< x, x < (q + 1) * d PROVE x \div d = q
    <2> DEFINE r == x - q * d
    <2>1. r \in Nat /\ r < d /\ x = q * d + r
      BY <1>1, <1>3
    <2> HIDE DEF r
    <2> QED BY <2>1, Quotient
  <1> QED BY <1>2, <1>3

\* A power of two is a multiple of the smaller ones.
LEMMA PowerMultiple ==
  ASSUME NEW m \in Nat, NEW n \in 0..m
  PROVE  \E d \in Nat : d > 0 /\ 2^m = d * 2^n
PROOF
  <1>1. n \in Nat /\ m - n \in Nat /\ m = (m - n) + n
    OBVIOUS
  <1>2. 2^((m - n) + n) = 2^(m - n) * 2^n
    BY ONLY <1>1, PowerSum
  <1>3. 2^(m - n) \in Nat /\ 2^(m - n) > 0
    BY ONLY <1>1, PowerPositive
  <1>4. 2^m = 2^(m - n) * 2^n
    BY ONLY <1>1, <1>2, Zenon
  <1> QED BY ONLY <1>3, <1>4

\* What a power of two divides, the smaller ones divide.
LEMMA DivisibleBelow ==
  ASSUME NEW x \in Nat, NEW m \in Nat, NEW n \in 0..m, x % 2^m = 0
  PROVE  x % 2^n = 0
PROOF
  <1> DEFINE c == 2^m
             e == 2^n
             q == x \div c
  <1>1. n \in Nat /\ c \in Nat /\ c > 0 /\ e \in Nat /\ e > 0
    BY PowerPositive
  <1>2. PICK d \in Nat : d > 0 /\ c = d * e
    BY PowerMultiple
  <1>3. q \in Nat /\ x = q * c
    BY <1>1, Division
  <1>4. x % e = 0
    <2> HIDE DEF c, e, q
    <2>1. q * d \in Nat /\ q * (d * e) = (q * d) * e /\ (q * d) * e \in Nat
      BY <1>1, <1>3
    <2>2. x = (q * d) * e + 0
      BY <1>2, <1>3, <2>1
    <2>3. q * d \in Int /\ 0 \in Nat /\ 0 < e
      BY <1>1, <2>1
    <2> QED BY ONLY x \in Nat, <1>1, <2>2, <2>3, Quotient
  <1> QED BY <1>4

\* Numbers that agree above bit n agree above every higher bit.
LEMMA SameQuotientBelow ==
  ASSUME NEW x \in Nat, NEW y \in Nat, NEW m \in Nat, NEW n \in 0..m,
         x \div 2^n = y \div 2^n
  PROVE  x \div 2^m = y \div 2^m
PROOF
  <1> DEFINE c == 2^m
             e == 2^n
             p == x \div e
             q == x \div c
  <1>1. n \in Nat /\ c \in Nat /\ c > 0 /\ e \in Nat /\ e > 0
    BY PowerPositive
  <1>2. PICK d \in Nat : d > 0 /\ c = d * e
    BY PowerMultiple
  <1>3. p \in Nat /\ q \in Nat /\ y \div e = p
    BY <1>1, Division
  <1>4. p * e =< x /\ x < (p + 1) * e /\ p * e =< y /\ y < (p + 1) * e
    <2>1. p = p /\ p \in Int
      BY <1>3
    <2> HIDE DEF e
    <2> QED BY <1>1, <1>3, <2>1, QuotientBounds
  <1>5. q * c =< x /\ x < (q + 1) * c
    <2>1. q = q /\ q \in Int
      BY <1>3
    <2> HIDE DEF c
    <2> QED BY <1>1, <1>3, <2>1, QuotientBounds
  <1> HIDE DEF c, e, p, q
  <1> DEFINE a == q * d
             b == (q + 1) * d
  <1>6. a \in Nat /\ b \in Nat /\ q * c = a * e /\ (q + 1) * c = b * e
    BY <1>1, <1>2, <1>3
  <1> HIDE DEF a, b
  <1>7. a * e < (p + 1) * e /\ p * e < b * e
    <2>1. a * e \in Int /\ b * e \in Int /\ p * e \in Int /\ (p + 1) * e \in Int
      BY <1>1, <1>3, <1>6
    <2> QED BY <1>4, <1>5, <1>6, <2>1
  <1>8. a < p + 1 /\ p < b
    <2>1. a \in Int /\ b \in Int /\ p \in Int /\ p + 1 \in Int
      BY <1>3, <1>6
    <2> QED BY ONLY <1>1, <1>7, <2>1, ProductOrder
  <1>9. a * e =< p * e /\ (p + 1) * e =< b * e
    <2>1. a \in Int /\ b \in Int /\ p \in Int /\ p + 1 \in Int /\ a =< p /\ p + 1 =< b
      BY <1>3, <1>6, <1>8
    <2> QED BY ONLY <1>1, <2>1, ProductOrder
  <1>10. q * c =< y /\ y < (q + 1) * c
    <2>1. a * e \in Int /\ b * e \in Int /\ p * e \in Int /\ (p + 1) * e \in Int
      BY <1>1, <1>3, <1>6
    <2> QED BY <1>4, <1>6, <1>9, <2>1
  <1>11. y \div c = q
    <2>1. q \in Int
      BY <1>3
    <2> QED BY ONLY y \in Nat, <1>1, <1>10, <2>1, QuotientBounds
  <1> QED BY <1>11 DEF c, q
=============================================================================
