------------------------------- MODULE SetSums -------------------------------
(***************************************************************************)
(* What a sum over a finite set is, for the proofs about the sums that      *)
(* MapThenSumSet and SumFunctionOnSet compute: it exists, is an integer, does not depend on the *)
(* order in which the elements are picked, and grows by the weight of an    *)
(* element that is added.  The induction is on the cardinality of a         *)
(* smallest counterexample.                                                 *)
(***************************************************************************)
EXTENDS Integers, FiniteSets, Functions, FiniteSetTheorems, WellFoundedInduction, TLAPS

AnyOf(s) == CHOOSE x \in s : TRUE

\* F adds up the weights w of every subset of S, one picked element at a time.
AddsUp(F, w, S) ==
    F = [s \in SUBSET S |-> IF s = {} THEN 0 ELSE w[AnyOf(s)] + F[s \ {AnyOf(s)}]]

\* n is the sum of the weights of S.
IsSum(n, w, S) == \E F : AddsUp(F, w, S) /\ n = F[S]

-----------------------------------------------------------------------------

\* A set of natural numbers that is not empty has a least element.
LEMMA LeastNumber ==
    ASSUME NEW B, B \subseteq Nat, B # {}
    PROVE  \E k \in B : \A m \in B : k <= m
<1> DEFINE R == OpToRel(<, Nat)
<1>1. IsWellFoundedOn(R, Nat)
    BY NatLessThanWellFounded
<1>2. \A m \in Nat, k \in Nat : <<m, k>> \in R <=> m < k
    BY DEF OpToRel
<1> HIDE DEF R
<1>3. PICK k \in B : \A m \in B : ~(<<m, k>> \in R)
    BY <1>1, WFMin
<1>4. ASSUME NEW m \in B PROVE k <= m
    <2>1. ~(m < k) /\ m \in Nat /\ k \in Nat
        BY <1>2, <1>3
    <2> QED BY <2>1
<1> QED BY <1>3, <1>4

\* A picked element is an element, when there is one.
LEMMA AnyOfFacts ==
    ASSUME NEW s, s # {} PROVE AnyOf(s) \in s
BY DEF AnyOf

\* The sizes of the subsets of a finite set.
LEMMA SubsetSizes ==
    ASSUME NEW S, IsFiniteSet(S), NEW s \in SUBSET S
    PROVE  /\ IsFiniteSet(s) /\ Cardinality(s) \in Nat
           /\ Cardinality(s) = 0 <=> s = {}
           /\ \A x \in s : s \ {x} \in SUBSET S /\ Cardinality(s \ {x}) = Cardinality(s) - 1
<1>1. IsFiniteSet(s)
    BY FS_Subset
<1>2. Cardinality(s) \in Nat
    BY <1>1, FS_CardinalityType
<1>3. Cardinality(s) = 0 <=> s = {}
    BY <1>1, FS_EmptySet
<1>4. \A x \in s : s \ {x} \in SUBSET S /\ Cardinality(s \ {x}) = Cardinality(s) - 1
    BY <1>1, FS_RemoveElement
<1> QED BY <1>1, <1>2, <1>3, <1>4

\* The subsets of S of at most n elements, and what adds up their weights.
Upto(S, n) == {s \in SUBSET S : Cardinality(s) <= n}
Level(F, w, S, n) ==
    /\ F \in [Upto(S, n) -> Int]
    /\ \A s \in Upto(S, n) : F[s] = IF s = {} THEN 0 ELSE w[AnyOf(s)] + F[s \ {AnyOf(s)}]

\* Level by level, the sums of all subsets exist.
LEMMA LevelsExist ==
    ASSUME NEW S, IsFiniteSet(S), NEW w \in [S -> Int], NEW n \in Nat
    PROVE  \E F : Level(F, w, S, n)
<1> DEFINE Bad == {k \in Nat : ~\E F : Level(F, w, S, k)}
<1> SUFFICES Bad = {}
    OBVIOUS
<1> SUFFICES ASSUME Bad # {} PROVE FALSE
    OBVIOUS
<1>1. PICK k \in Bad : \A m \in Bad : k <= m
    BY LeastNumber
<1>2. k \in Nat /\ ~\E F : Level(F, w, S, k)
    BY <1>1
<1>3. CASE k = 0
    <2> DEFINE F == [s \in Upto(S, 0) |-> 0]
    <2>1. \A s \in Upto(S, 0) : s = {}
        BY SubsetSizes DEF Upto
    <2>2. Level(F, w, S, 0)
        BY <2>1 DEF Level
    <2> QED BY <1>2, <1>3, <2>2
<1>4. CASE k # 0
    <2>1. k - 1 \in Nat /\ k - 1 \notin Bad
        BY <1>1, <1>2, <1>4
    <2>2. PICK G : Level(G, w, S, k - 1)
        BY <2>1
    <2> DEFINE F == [s \in Upto(S, k) |-> IF s = {} THEN 0 ELSE w[AnyOf(s)] + G[s \ {AnyOf(s)}]]
    <2>3. ASSUME NEW s \in Upto(S, k), s # {}
          PROVE  /\ AnyOf(s) \in S /\ s \ {AnyOf(s)} \in Upto(S, k - 1)
                 /\ w[AnyOf(s)] \in Int /\ G[s \ {AnyOf(s)}] \in Int
        <3>1. AnyOf(s) \in s /\ s \in SUBSET S /\ Cardinality(s) <= k
            BY <2>3, AnyOfFacts DEF Upto
        <3>2. Cardinality(s) \in Nat /\ Cardinality(s \ {AnyOf(s)}) = Cardinality(s) - 1
              /\ s \ {AnyOf(s)} \in SUBSET S
            BY <3>1, SubsetSizes
        <3>3. Cardinality(s \ {AnyOf(s)}) <= k - 1
            BY <1>2, <3>1, <3>2
        <3>4. s \ {AnyOf(s)} \in Upto(S, k - 1)
            BY <3>2, <3>3 DEF Upto
        <3> QED BY <2>2, <3>1, <3>4 DEF Level
    <2>4. F \in [Upto(S, k) -> Int]
        <3>1. \A s \in Upto(S, k) :
                (IF s = {} THEN 0 ELSE w[AnyOf(s)] + G[s \ {AnyOf(s)}]) \in Int
            <4> TAKE s \in Upto(S, k)
            <4>1. CASE s = {}
                BY <4>1
            <4>2. CASE s # {}
                <5>1. w[AnyOf(s)] \in Int /\ G[s \ {AnyOf(s)}] \in Int
                    BY <2>3, <4>2
                <5> QED BY <4>2, <5>1
            <4> QED BY <4>1, <4>2
        <3> QED BY <3>1
    <2>5. ASSUME NEW s \in Upto(S, k - 1) PROVE s \in Upto(S, k) /\ F[s] = G[s]
        <3>1. s \in SUBSET S /\ Cardinality(s) \in Nat /\ Cardinality(s) <= k - 1
            BY SubsetSizes DEF Upto
        <3>2. s \in Upto(S, k)
            BY <1>2, <3>1 DEF Upto
        <3>3. G[s] = IF s = {} THEN 0 ELSE w[AnyOf(s)] + G[s \ {AnyOf(s)}]
            BY <2>2 DEF Level
        <3> QED BY <3>2, <3>3
    <2>6. \A s \in Upto(S, k) : F[s] = IF s = {} THEN 0 ELSE w[AnyOf(s)] + F[s \ {AnyOf(s)}]
        BY <2>3, <2>5
    <2> HIDE DEF F
    <2>7. Level(F, w, S, k)
        BY <2>4, <2>6 DEF Level
    <2> QED BY <1>2, <2>7
<1> QED BY <1>3, <1>4

\* So does the sum over the whole set, and it is an integer.
LEMMA SumsExist ==
    ASSUME NEW S, IsFiniteSet(S), NEW w \in [S -> Int]
    PROVE  \E F : F \in [SUBSET S -> Int] /\ AddsUp(F, w, S)
<1>1. Upto(S, Cardinality(S)) = SUBSET S
    BY FS_Subset DEF Upto
<1>2. Cardinality(S) \in Nat
    BY FS_CardinalityType
<1>3. PICK F : Level(F, w, S, Cardinality(S))
    BY <1>2, LevelsExist
<1>4. F \in [SUBSET S -> Int]
      /\ \A s \in SUBSET S : F[s] = IF s = {} THEN 0 ELSE w[AnyOf(s)] + F[s \ {AnyOf(s)}]
    BY <1>1, <1>3 DEF Level
<1>5. AddsUp(F, w, S)
    BY <1>4 DEF AddsUp
<1> QED BY <1>4, <1>5

\* What adds up the weights, one element at a time.
LEMMA AddsUpFacts ==
    ASSUME NEW S, NEW w, NEW F, AddsUp(F, w, S)
    PROVE  /\ F[{}] = 0
           /\ \A s \in SUBSET S : s # {} => F[s] = w[AnyOf(s)] + F[s \ {AnyOf(s)}]
<1>1. \A s \in SUBSET S : F[s] = IF s = {} THEN 0 ELSE w[AnyOf(s)] + F[s \ {AnyOf(s)}]
    BY DEF AddsUp
<1> QED BY <1>1

\* Two ways of adding up the same weights agree.
LEMMA SumsAgree ==
    ASSUME NEW S, IsFiniteSet(S), NEW T, NEW w, NEW v, NEW F, NEW G,
           AddsUp(F, w, S), AddsUp(G, v, T), S \subseteq T,
           \A x \in S : w[x] = v[x], NEW s \in SUBSET S
    PROVE  F[s] = G[s]
<1> DEFINE Bad == {k \in Nat : \E t \in SUBSET S : Cardinality(t) = k /\ F[t] # G[t]}
<1>1. Bad = {}
    <2> SUFFICES ASSUME Bad # {} PROVE FALSE
        OBVIOUS
    <2>1. PICK k \in Bad : \A m \in Bad : k <= m
        BY LeastNumber
    <2>2. PICK t \in SUBSET S : Cardinality(t) = k /\ F[t] # G[t]
        BY <2>1
    <2>3. t # {}
        BY <2>2, AddsUpFacts
    <2>4. AnyOf(t) \in t
        BY <2>3, AnyOfFacts
    <2> DEFINE u == t \ {AnyOf(t)}
    <2>5. u \in SUBSET S /\ Cardinality(u) \in Nat /\ Cardinality(u) < Cardinality(t)
        BY <2>4, SubsetSizes
    <2>6. F[u] = G[u]
        BY <2>1, <2>2, <2>5
    <2>7. F[t] = w[AnyOf(t)] + F[u]
        BY <2>3, AddsUpFacts
    <2>8. G[t] = v[AnyOf(t)] + G[u]
        <3>1. t \in SUBSET T
            OBVIOUS
        <3> QED BY <2>3, <3>1, AddsUpFacts
    <2> QED BY <2>2, <2>4, <2>6, <2>7, <2>8
<1>2. Cardinality(s) \in Nat
    BY SubsetSizes
<1> QED BY <1>1, <1>2

\* x is as good an element to pick first as any.
First(F, w, s, x) == F[s] = w[x] + F[s \ {x}]

\* Any element may be picked first.
LEMMA AnyElement ==
    ASSUME NEW S, IsFiniteSet(S), NEW w \in [S -> Int], NEW F \in [SUBSET S -> Int],
           AddsUp(F, w, S), NEW s \in SUBSET S, NEW x \in s
    PROVE  First(F, w, s, x)
<1> SUFFICES F[s] = w[x] + F[s \ {x}]
    BY DEF First
<1> DEFINE Bad == {k \in Nat : \E t \in SUBSET S : /\ Cardinality(t) = k
                                                  /\ \E y \in t : F[t] # w[y] + F[t \ {y}]}
<1>1. Bad = {}
    <2> SUFFICES ASSUME Bad # {} PROVE FALSE
        OBVIOUS
    <2>1. PICK k \in Bad : \A m \in Bad : k <= m
        BY LeastNumber
    <2>2. PICK t \in SUBSET S : Cardinality(t) = k /\ \E y \in t : F[t] # w[y] + F[t \ {y}]
        BY <2>1
    <2>3. PICK y \in t : F[t] # w[y] + F[t \ {y}]
        BY <2>2
    <2> DEFINE p == AnyOf(t)
    <2>4. p \in t /\ F[t] = w[p] + F[t \ {p}]
        BY <2>3, AnyOfFacts, AddsUpFacts
    <2>5. p # y
        BY <2>3, <2>4
    <2> HIDE DEF p
    <2>6. /\ t \ {p} \in SUBSET S /\ Cardinality(t \ {p}) \in Nat /\ Cardinality(t \ {p}) < k
          /\ t \ {y} \in SUBSET S /\ Cardinality(t \ {y}) \in Nat /\ Cardinality(t \ {y}) < k
        BY <2>2, <2>3, <2>4, SubsetSizes
    <2>a. ASSUME NEW u \in SUBSET S, Cardinality(u) \in Nat, Cardinality(u) < k, NEW z \in u
          PROVE  F[u] = w[z] + F[u \ {z}]
        <3>1. Cardinality(u) \notin Bad
            <4> HIDE DEF Bad
            <4>1. k \in Nat
                BY <2>1 DEF Bad
            <4> QED BY <2>1, <2>a, <4>1
        <3> QED BY <2>a, <3>1
    <2> DEFINE rest == (t \ {p}) \ {y}
    <2>7. F[t \ {p}] = w[y] + F[rest]
        BY <2>a, <2>5, <2>6
    <2>8. F[t \ {y}] = w[p] + F[rest]
        <3>1. F[t \ {y}] = w[p] + F[(t \ {y}) \ {p}]
            BY <2>a, <2>4, <2>5, <2>6
        <3>2. (t \ {y}) \ {p} = rest
            OBVIOUS
        <3> QED BY <3>1, <3>2
    <2>9. w[p] \in Int /\ w[y] \in Int /\ F[rest] \in Int
        BY <2>3, <2>4
    <2> QED BY <2>3, <2>4, <2>7, <2>8, <2>9
<1>2. Cardinality(s) \in Nat
    BY SubsetSizes
<1> QED BY <1>1, <1>2

-----------------------------------------------------------------------------

\* The sum of a finite set of integers is an integer, and 0 if the set is empty.
LEMMA SumType ==
    ASSUME NEW S, IsFiniteSet(S), NEW w \in [S -> Int], NEW n, IsSum(n, w, S)
    PROVE  n \in Int /\ (S = {} => n = 0)
<1>1. PICK F : AddsUp(F, w, S) /\ n = F[S]
    BY DEF IsSum
<1>2. PICK G : G \in [SUBSET S -> Int] /\ AddsUp(G, w, S)
    BY SumsExist
<1>3. F[S] = G[S]
    BY <1>1, <1>2, SumsAgree
<1> QED BY <1>1, <1>2, <1>3, AddsUpFacts

\* The sum does not depend on how it is computed, nor on weights of other elements.
LEMMA SumUnique ==
    ASSUME NEW S, IsFiniteSet(S), NEW w, NEW v, \A x \in S : w[x] = v[x],
           NEW n, NEW m, IsSum(n, w, S), IsSum(m, v, S)
    PROVE  n = m
<1>1. PICK F : AddsUp(F, w, S) /\ n = F[S]
    BY DEF IsSum
<1>2. PICK G : AddsUp(G, v, S) /\ m = G[S]
    BY DEF IsSum
<1> QED BY <1>1, <1>2, SumsAgree

\* An element adds its weight to what the others sum up to.
LEMMA SumWithout ==
    ASSUME NEW T, IsFiniteSet(T), NEW x \in T, NEW w \in [T -> Int],
           NEW v, \A y \in T \ {x} : v[y] = w[y],
           NEW n, NEW m, IsSum(n, w, T), IsSum(m, v, T \ {x})
    PROVE  n = m + w[x]
<1>1. PICK F : AddsUp(F, w, T) /\ n = F[T]
    BY DEF IsSum
<1>2. PICK G : AddsUp(G, v, T \ {x}) /\ m = G[T \ {x}]
    BY DEF IsSum
<1>3. PICK H : H \in [SUBSET T -> Int] /\ AddsUp(H, w, T)
    BY SumsExist
<1>4. F[T] = H[T]
    BY <1>1, <1>3, SumsAgree
<1>5. G[T \ {x}] = H[T \ {x}]
    <2>1. IsFiniteSet(T \ {x})
        BY FS_RemoveElement
    <2> QED BY <1>2, <1>3, <2>1, SumsAgree
<1>6. H[T] = w[x] + H[T \ {x}]
    <2>1. First(H, w, T, x)
        BY <1>3, AnyElement
    <2> QED BY <2>1 DEF First
<1>7. H[T \ {x}] \in Int /\ w[x] \in Int
    BY <1>3
<1> QED BY <1>1, <1>2, <1>4, <1>5, <1>6, <1>7

-----------------------------------------------------------------------------
(* SumFunctionOnSet                                                         *)

\* SumFunctionOnSet is the sum of the function's values on the set.
LEMMA SumFunctionIsSum ==
    ASSUME NEW S, IsFiniteSet(S), NEW w, \A x \in S : w[x] \in Int
    PROVE  IsSum(SumFunctionOnSet(w, S), w, S)
<1> DEFINE v == [x \in S |-> w[x]]
           iter == CHOOSE F : AddsUp(F, w, S)
<1>1. PICK F : AddsUp(F, v, S)
    <2>1. v \in [S -> Int]
        OBVIOUS
    <2> HIDE DEF v
    <2> QED BY <2>1, SumsExist
<1>2. AddsUp(F, w, S)
    <2>1. \A s \in SUBSET S : s # {} => v[AnyOf(s)] = w[AnyOf(s)]
        BY AnyOfFacts
    <2>2. \A s \in SUBSET S :
            (IF s = {} THEN 0 ELSE v[AnyOf(s)] + F[s \ {AnyOf(s)}])
            = (IF s = {} THEN 0 ELSE w[AnyOf(s)] + F[s \ {AnyOf(s)}])
        BY <2>1
    <2> HIDE DEF v
    <2> QED BY <1>1, <2>2 DEF AddsUp
<1>3. AddsUp(iter, w, S)
    BY <1>2
<1>4. SumFunctionOnSet(w, S) = iter[S]
    BY DEF SumFunctionOnSet, FoldFunctionOnSet, MapThenFoldSet, AddsUp, AnyOf
<1> HIDE DEF iter
<1> QED BY <1>3, <1>4 DEF IsSum

\* It is an integer, and 0 on the empty set.
LEMMA SumFunctionType ==
    ASSUME NEW S, IsFiniteSet(S), NEW w, \A x \in S : w[x] \in Int
    PROVE  SumFunctionOnSet(w, S) \in Int /\ (S = {} => SumFunctionOnSet(w, S) = 0)
<1> DEFINE v == [x \in S |-> w[x]]
           n == SumFunctionOnSet(w, S)
           m == SumFunctionOnSet(v, S)
<1>1. v \in [S -> Int] /\ \A x \in S : v[x] = w[x] /\ v[x] \in Int
    OBVIOUS
<1> HIDE DEF v
<1>2. IsSum(n, w, S) /\ IsSum(m, v, S)
    BY <1>1, SumFunctionIsSum
<1> HIDE DEF n, m
<1>3. n = m
    BY <1>1, <1>2, SumUnique
<1>4. m \in Int /\ (S = {} => m = 0)
    BY <1>1, <1>2, SumType
<1> QED BY <1>3, <1>4 DEF n

\* It depends on the values on the set alone.
LEMMA SumFunctionSame ==
    ASSUME NEW S, IsFiniteSet(S), NEW w, NEW v, \A x \in S : w[x] \in Int /\ v[x] = w[x]
    PROVE  SumFunctionOnSet(v, S) = SumFunctionOnSet(w, S)
<1> DEFINE n == SumFunctionOnSet(w, S)
           m == SumFunctionOnSet(v, S)
<1>1. IsSum(n, w, S) /\ IsSum(m, v, S)
    BY SumFunctionIsSum
<1> HIDE DEF n, m
<1>2. n = m
    BY <1>1, SumUnique
<1> QED BY <1>2 DEF n, m

\* Splits(w, S, x): x adds its value to the sum over the others.
Splits(w, S, x) == SumFunctionOnSet(w, S) = SumFunctionOnSet(w, S \ {x}) + w[x]

\* Every element of the set adds its value to the sum over the others.
LEMMA SumFunctionSplits ==
    ASSUME NEW S, IsFiniteSet(S), NEW w, \A y \in S : w[y] \in Int, NEW x \in S
    PROVE  Splits(w, S, x)
<1> DEFINE v == [y \in S |-> w[y]]
           n == SumFunctionOnSet(v, S)
           m == SumFunctionOnSet(w, S \ {x})
<1>1. v \in [S -> Int] /\ v[x] = w[x] /\ \A y \in S : v[y] = w[y] /\ v[y] \in Int
    OBVIOUS
<1>2. IsFiniteSet(S \ {x})
    BY FS_RemoveElement
<1> HIDE DEF v
<1>3. SumFunctionOnSet(w, S) = n
    BY <1>1, SumFunctionSame
<1>4. IsSum(n, v, S) /\ IsSum(m, w, S \ {x})
    BY <1>1, <1>2, SumFunctionIsSum
<1>a. \A y \in S \ {x} : w[y] = v[y]
    BY <1>1
<1> HIDE DEF n, m
<1>5. n = m + v[x]
    BY <1>1, <1>4, <1>a, SumWithout
<1> QED BY <1>1, <1>3, <1>5 DEF Splits, m

\* A sum of natural numbers does not shrink when the set grows.
LEMMA SumFunctionGrows ==
    ASSUME NEW T, IsFiniteSet(T), NEW S \in SUBSET T, NEW w, \A x \in T : w[x] \in Nat
    PROVE  SumFunctionOnSet(w, S) <= SumFunctionOnSet(w, T)
<1> DEFINE Sum(U) == SumFunctionOnSet(w, U)
           Bad == {k \in Nat : \E U \in SUBSET T : /\ Cardinality(U) = k /\ S \subseteq U
                                                 /\ ~(Sum(S) <= Sum(U))}
<1>0. \A U \in SUBSET T : IsFiniteSet(U) /\ Cardinality(U) \in Nat /\ Sum(U) \in Int
    BY SubsetSizes, SumFunctionType
<1>1. Bad = {}
    <2> SUFFICES ASSUME Bad # {} PROVE FALSE
        OBVIOUS
    <2>1. PICK k \in Bad : \A m \in Bad : k <= m
        BY LeastNumber
    <2>2. PICK U \in SUBSET T : Cardinality(U) = k /\ S \subseteq U /\ ~(Sum(S) <= Sum(U))
        BY <2>1
    <2>3. PICK x \in U : x \notin S
        BY <1>0, <2>2
    <2> DEFINE V == U \ {x}
    <2>4. V \in SUBSET T /\ S \subseteq V /\ Cardinality(V) \in Nat /\ Cardinality(V) < k
        BY <2>2, <2>3, SubsetSizes
    <2>5. Sum(S) <= Sum(V)
        BY <2>1, <2>4
    <2>6. Sum(U) = Sum(V) + w[x]
        <3>1. Splits(w, U, x)
            BY <1>0, SumFunctionSplits
        <3> QED BY <3>1 DEF Splits
    <2>7. Sum(S) \in Int /\ Sum(V) \in Int /\ w[x] \in Nat
        BY <1>0, <2>4
    <2> HIDE DEF Sum, V
    <2> QED BY <2>2, <2>5, <2>6, <2>7
<1>2. Cardinality(T) \in Nat
    BY <1>0
<1> QED BY <1>1, <1>2

=============================================================================
