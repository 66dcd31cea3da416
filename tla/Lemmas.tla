------------------------------- MODULE Lemmas -------------------------------
(***************************************************************************)
(* Lemmas that the proofs about several components share: the least number *)
(* of a set, the larger and the smaller of two numbers, and sums.          *)
(*                                                                         *)
(* Sums are defined by recursion and their lemmas proved by induction:     *)
(* what is false of some subset of a finite set is false of one with the   *)
(* least number of elements, which comes to an absurdity.                  *)
(***************************************************************************)
EXTENDS Sums, FiniteSetTheorems, NaturalsInduction, WellFoundedInduction, TLAPS

\* Every set of natural numbers has a least one.
LEMMA Least ==
  ASSUME NEW S \in SUBSET Nat, S # {}
  PROVE  \E m \in S : \A k \in S : m <= k
<1>1. PICK m \in S : \A k \in S : ~ (<<k, m>> \in OpToRel(<, Nat))
  BY NatLessThanWellFounded, WFMin
<1>2. \A k \in S : ~ (k < m)
  BY <1>1 DEF OpToRel
<1> QED BY <1>2

LEMMA LeastIsMin ==
  ASSUME NEW S \in SUBSET Nat, S # {}
  PROVE  Min(S) \in S /\ \A k \in S : Min(S) <= k
<1>1. \E m \in S : \A k \in S : m <= k
  BY Least
<1> QED BY <1>1 DEF Min

\* Of the sets in a family of subsets of a finite set, one has the fewest elements.
LEMMA Smallest ==
  ASSUME NEW U, IsFiniteSet(U), NEW F \in SUBSET (SUBSET U), F # {}
  PROVE  \E t \in F : IsFiniteSet(t) /\ \A s \in F : Cardinality(t) <= Cardinality(s)
<1> DEFINE N == {Cardinality(s) : s \in F}
<1>1. \A s \in F : IsFiniteSet(s) /\ Cardinality(s) \in Nat
  BY FS_Subset, FS_CardinalityType
<1>2. N \in SUBSET Nat /\ N # {}
  BY <1>1
<1>3. PICK m \in N : \A k \in N : m <= k
  BY <1>2, Least
<1> QED BY <1>1, <1>3

\* A smaller set of a family of finite ones has fewer elements.
LEMMA Fewer ==
  ASSUME NEW S, IsFiniteSet(S), NEW T \in SUBSET S, T # S
  PROVE  Cardinality(T) < Cardinality(S)
<1>1. Cardinality(T) <= Cardinality(S) /\ Cardinality(T) # Cardinality(S) /\ IsFiniteSet(T)
  BY FS_Subset
<1>2. Cardinality(T) \in Nat /\ Cardinality(S) \in Nat
  BY <1>1, FS_CardinalityType
<1>3. \A i, j \in Nat : i <= j /\ i # j => i < j
  OBVIOUS
<1> QED BY <1>1, <1>2, <1>3

\* Some element of a finite set has the largest number.
LEMMA Largest ==
  ASSUME NEW S, IsFiniteSet(S), S # {}, NEW f, \A x \in S : f[x] \in Nat
  PROVE  \E x \in S : \A y \in S : f[y] <= f[x]
<1> DEFINE Above(x) == {y \in S : f[y] > f[x]}
           F == {Above(x) : x \in S}
<1>1. F \in SUBSET (SUBSET S) /\ F # {}
  OBVIOUS
<1>2. PICK t \in F : IsFiniteSet(t) /\ \A s \in F : Cardinality(t) <= Cardinality(s)
  BY <1>1, Smallest
<1>3. PICK x \in S : t = Above(x)
  BY <1>2
<1>4. ASSUME NEW y \in t PROVE FALSE
  <2>1. y \in S /\ f[y] > f[x] /\ f[x] \in Nat /\ f[y] \in Nat
    BY <1>3
  <2>2. Above(y) \in SUBSET t /\ y \notin Above(y)
    BY <1>3, <2>1
  <2>3. Cardinality(Above(y)) < Cardinality(t)
    BY <1>2, <2>2, Fewer
  <2>4. Cardinality(t) <= Cardinality(Above(y))
    BY <1>2, <2>1
  <2>5. Cardinality(t) \in Nat /\ Cardinality(Above(y)) \in Nat
    BY <1>2, <2>2, FS_Subset, FS_CardinalityType
  <2>6. \A i, j \in Nat : ~ (i < j /\ j <= i)
    OBVIOUS
  <2> HIDE DEF Above
  <2> QED BY <2>3, <2>4, <2>5, <2>6
<1>5. \A y \in S : f[y] <= f[x]
  <2> SUFFICES ASSUME NEW y \in S PROVE f[y] <= f[x]
    OBVIOUS
  <2>1. ~ (f[y] > f[x])
    BY <1>3, <1>4
  <2>2. f[x] \in Nat /\ f[y] \in Nat
    OBVIOUS
  <2> QED BY <2>1, <2>2
<1> QED BY <1>5

LEMMA MaxOfTwo == \A i, j \in Int : Max({i, j}) = IF i >= j THEN i ELSE j
<1> SUFFICES ASSUME NEW i \in Int, NEW j \in Int
             PROVE  Max({i, j}) = IF i >= j THEN i ELSE j
  OBVIOUS
<1> DEFINE m == IF i >= j THEN i ELSE j
<1>1. m \in {i, j} /\ \A y \in {i, j} : m >= y
  OBVIOUS
<1>2. \A x \in {i, j} : (\A y \in {i, j} : x >= y) => x = m
  OBVIOUS
<1> HIDE DEF m
<1>3. (CHOOSE x \in {i, j} : \A y \in {i, j} : x >= y) = m
  BY <1>1, <1>2
<1> QED BY <1>3 DEF Max, m

LEMMA MinOfTwo == \A i, j \in Int : Min({i, j}) = IF i <= j THEN i ELSE j
<1> SUFFICES ASSUME NEW i \in Int, NEW j \in Int
             PROVE  Min({i, j}) = IF i <= j THEN i ELSE j
  OBVIOUS
<1> DEFINE m == IF i <= j THEN i ELSE j
<1>1. m \in {i, j} /\ \A y \in {i, j} : m <= y
  OBVIOUS
<1>2. \A x \in {i, j} : (\A y \in {i, j} : x <= y) => x = m
  OBVIOUS
<1> HIDE DEF m
<1>3. (CHOOSE x \in {i, j} : \A y \in {i, j} : x <= y) = m
  BY <1>1, <1>2
<1> QED BY <1>3 DEF Min, m

-----------------------------------------------------------------------------
(* Sums.  The sum of f over a subset of S is g of that subset, where g     *)
(* takes away one element after the other.                                 *)

Pick(s) == CHOOSE x \in s : TRUE

Walk(g, f, S) ==
  g = [s \in SUBSET S |-> IF s = {} THEN 0 ELSE f[Pick(s)] + g[s \ {Pick(s)}]]

LEMMA PickIsElement == \A s : s # {} => Pick(s) \in s
BY DEF Pick

LEMMA SumIsWalk ==
  ASSUME NEW f, NEW S
  PROVE  SumOver(f, S) = (CHOOSE g : Walk(g, f, S))[S]
BY DEF SumOver, MapThenSumSet, MapThenFoldSet, Walk, Pick

\* Two walks agree wherever what they add up does.
LEMMA WalksAgree ==
  ASSUME NEW S, IsFiniteSet(S), NEW T, S \subseteq T, NEW f, NEW h, NEW g, NEW k,
         Walk(g, f, S), Walk(k, h, T), \A x \in S : f[x] = h[x]
  PROVE  \A s \in SUBSET S : g[s] = k[s]
<1> SUFFICES ASSUME NEW z \in SUBSET S, g[z] # k[z] PROVE FALSE
  OBVIOUS
<1> DEFINE F == {s \in SUBSET S : g[s] # k[s]}
<1>1. PICK t \in F : IsFiniteSet(t) /\ \A s \in F : Cardinality(t) <= Cardinality(s)
  BY Smallest
<1>2. g[t] = IF t = {} THEN 0 ELSE f[Pick(t)] + g[t \ {Pick(t)}]
  BY DEF Walk
<1>3. k[t] = IF t = {} THEN 0 ELSE h[Pick(t)] + k[t \ {Pick(t)}]
  BY DEF Walk
<1>4. t # {} /\ Pick(t) \in t
  BY <1>1, <1>2, <1>3, PickIsElement
<1>5. Cardinality(t \ {Pick(t)}) = Cardinality(t) - 1 /\ Cardinality(t) \in Nat
  BY <1>1, <1>4, FS_RemoveElement, FS_CardinalityType
<1>6. t \ {Pick(t)} \notin F
  BY <1>1, <1>5
<1>7. g[t \ {Pick(t)}] = k[t \ {Pick(t)}]
  BY <1>1, <1>6
<1> QED BY <1>1, <1>2, <1>3, <1>4, <1>7

\* A walk over numbers has numbers everywhere.
LEMMA WalkType ==
  ASSUME NEW S, IsFiniteSet(S), NEW f, \A x \in S : f[x] \in Int, NEW g, Walk(g, f, S)
  PROVE  \A s \in SUBSET S : g[s] \in Int
<1> SUFFICES ASSUME NEW z \in SUBSET S, g[z] \notin Int PROVE FALSE
  OBVIOUS
<1> DEFINE F == {s \in SUBSET S : g[s] \notin Int}
<1>1. PICK t \in F : IsFiniteSet(t) /\ \A s \in F : Cardinality(t) <= Cardinality(s)
  BY Smallest
<1>2. g[t] = IF t = {} THEN 0 ELSE f[Pick(t)] + g[t \ {Pick(t)}]
  BY DEF Walk
<1>4. t # {} /\ Pick(t) \in t
  BY <1>1, <1>2, PickIsElement
<1>5. Cardinality(t \ {Pick(t)}) = Cardinality(t) - 1 /\ Cardinality(t) \in Nat
  BY <1>1, <1>4, FS_RemoveElement, FS_CardinalityType
<1>6. t \ {Pick(t)} \notin F
  BY <1>1, <1>5
<1> QED BY <1>1, <1>2, <1>4, <1>6

\* A walk over a finite set exists: one over the sets of n elements can be continued.
SetsUpto(S, n) == {s \in SUBSET S : Cardinality(s) <= n}

WalkUpto(g, f, S, n) ==
  g = [s \in SetsUpto(S, n) |-> IF s = {} THEN 0 ELSE f[Pick(s)] + g[s \ {Pick(s)}]]

LEMMA WalkGoesOn ==
  ASSUME NEW S, IsFiniteSet(S), NEW f, NEW n \in Nat, NEW g, WalkUpto(g, f, S, n)
  PROVE  \E h : WalkUpto(h, f, S, n + 1)
<1> DEFINE h == [s \in SetsUpto(S, n + 1) |->
                   IF s = {} THEN 0 ELSE f[Pick(s)] + g[s \ {Pick(s)}]]
<1>1. \A s \in SUBSET S : /\ IsFiniteSet(s) /\ Cardinality(s) \in Nat
                          /\ (s # {} => Cardinality(s \ {Pick(s)}) = Cardinality(s) - 1)
  BY FS_Subset, FS_CardinalityType, FS_RemoveElement, PickIsElement
<1>2. \A s \in SetsUpto(S, n + 1) : s # {} => s \ {Pick(s)} \in SetsUpto(S, n)
  BY <1>1 DEF SetsUpto
<1>3. ASSUME NEW s \in SetsUpto(S, n) PROVE s \in SetsUpto(S, n + 1)
  <2>1. s \in SUBSET S /\ Cardinality(s) <= n
    BY DEF SetsUpto
  <2>2. \A i \in Nat : i <= n => i <= n + 1
    OBVIOUS
  <2>3. Cardinality(s) <= n + 1
    BY <1>1, <2>1, <2>2
  <2> QED BY <2>1, <2>3 DEF SetsUpto
<1>4. \A s \in SetsUpto(S, n) : g[s] = IF s = {} THEN 0 ELSE f[Pick(s)] + g[s \ {Pick(s)}]
  BY Zenon DEF WalkUpto
<1>5. \A s \in SetsUpto(S, n) : h[s] = g[s]
  BY <1>3, <1>4
<1>6. \A s \in SetsUpto(S, n + 1) : s # {} => h[s \ {Pick(s)}] = g[s \ {Pick(s)}]
  BY <1>2, <1>5
<1>7. h = [s \in SetsUpto(S, n + 1) |-> IF s = {} THEN 0 ELSE f[Pick(s)] + h[s \ {Pick(s)}]]
  BY <1>6
<1> QED BY <1>7 DEF WalkUpto

LEMMA WalkExists ==
  ASSUME NEW S, IsFiniteSet(S), NEW f
  PROVE  \E g : Walk(g, f, S)
<1> DEFINE N == {n \in Nat : ~ \E g : WalkUpto(g, f, S, n)}
<1>0. \A s \in SUBSET S : /\ IsFiniteSet(s) /\ Cardinality(s) \in Nat
                          /\ Cardinality(s) <= Cardinality(S)
                          /\ (Cardinality(s) = 0 => s = {})
  BY FS_Subset, FS_CardinalityType, FS_EmptySet
<1>1. 0 \notin N
  <2>1. \A s \in SetsUpto(S, 0) : s = {}
    BY <1>0 DEF SetsUpto
  <2>2. WalkUpto([s \in SetsUpto(S, 0) |-> 0], f, S, 0)
    BY <2>1 DEF WalkUpto
  <2> QED BY <2>2
<1>2. ASSUME NEW n \in Nat, n \notin N PROVE n + 1 \notin N
  BY <1>2, WalkGoesOn
<1>3. N = {}
  <2> SUFFICES ASSUME N # {} PROVE FALSE
    OBVIOUS
  <2>0. N \in SUBSET Nat
    OBVIOUS
  <2> HIDE DEF N
  <2>1. PICK n \in N : \A k \in N : n <= k
    BY <2>0, Least
  <2>2. n - 1 \in Nat /\ n - 1 \notin N
    BY <1>1, <2>0, <2>1
  <2> QED BY <1>2, <2>0, <2>1, <2>2
<1>4. Cardinality(S) \in Nat
  BY FS_CardinalityType
<1>5. PICK g : WalkUpto(g, f, S, Cardinality(S))
  BY <1>3, <1>4
<1>6. SetsUpto(S, Cardinality(S)) = SUBSET S
  BY <1>0 DEF SetsUpto
<1> QED BY <1>5, <1>6 DEF Walk, WalkUpto

\* What is known of a sum, once and for all.
LEMMA SumWalk ==
  ASSUME NEW S, IsFiniteSet(S), NEW f
  PROVE  \E g : Walk(g, f, S) /\ SumOver(f, S) = g[S]
BY WalkExists, SumIsWalk

LEMMA SumAgrees ==
  ASSUME NEW S, IsFiniteSet(S), NEW f, NEW h, \A x \in S : f[x] = h[x]
  PROVE  SumOver(f, S) = SumOver(h, S)
<1>1. PICK g : Walk(g, f, S) /\ SumOver(f, S) = g[S]
  BY SumWalk
<1>2. PICK k : Walk(k, h, S) /\ SumOver(h, S) = k[S]
  BY SumWalk
<1>3. \A s \in SUBSET S : g[s] = k[s]
  BY <1>1, <1>2, WalksAgree, S \subseteq S
<1> QED BY <1>1, <1>2, <1>3

LEMMA SumType ==
  ASSUME NEW S, IsFiniteSet(S), NEW f, \A x \in S : f[x] \in Int
  PROVE  SumOver(f, S) \in Int
BY SumWalk, WalkType

LEMMA SumOfNone == \A f : SumOver(f, {}) = 0
<1> SUFFICES ASSUME NEW f PROVE SumOver(f, {}) = 0
  OBVIOUS
<1>1. PICK g : Walk(g, f, {}) /\ SumOver(f, {}) = g[{}]
  BY SumWalk, FS_EmptySet
<1> QED BY <1>1 DEF Walk

LEMMA SumPicks ==
  ASSUME NEW S, IsFiniteSet(S), S # {}, NEW f
  PROVE  SumOver(f, S) = f[Pick(S)] + SumOver(f, S \ {Pick(S)})
<1> DEFINE R == S \ {Pick(S)}
<1>1. PICK g : Walk(g, f, S) /\ SumOver(f, S) = g[S]
  BY SumWalk
<1>2. IsFiniteSet(R) /\ R \subseteq S
  BY FS_Subset
<1>3. PICK k : Walk(k, f, R) /\ SumOver(f, R) = k[R]
  BY <1>2, SumWalk
<1>4. k[R] = g[R]
  BY <1>1, <1>2, <1>3, WalksAgree
<1>5. g[S] = f[Pick(S)] + g[R]
  BY <1>1 DEF Walk
<1> QED BY <1>1, <1>3, <1>4, <1>5

\* The order in which the elements are taken does not matter.
LEMMA SumSplits ==
  ASSUME NEW S, IsFiniteSet(S), NEW f, \A x \in S : f[x] \in Int, NEW a \in S
  PROVE  SumOver(f, S) = f[a] + SumOver(f, S \ {a})
<1> DEFINE F == {s \in SUBSET S : \E x \in s : SumOver(f, s) # f[x] + SumOver(f, s \ {x})}
<1> SUFFICES ASSUME F # {} PROVE FALSE
  OBVIOUS
<1>1. PICK t \in F : IsFiniteSet(t) /\ \A s \in F : Cardinality(t) <= Cardinality(s)
  BY Smallest
<1>2. PICK x \in t : SumOver(f, t) # f[x] + SumOver(f, t \ {x})
  BY <1>1
<1> DEFINE y == Pick(t)
<1>3. y \in t /\ t \subseteq S
  BY <1>1, <1>2, PickIsElement
<1>4. SumOver(f, t) = f[y] + SumOver(f, t \ {y})
  BY <1>1, <1>3, SumPicks
<1> HIDE DEF y
<1>5. x # y
  BY <1>2, <1>4
<1>6. \A z \in t : /\ IsFiniteSet(t \ {z}) /\ Cardinality(t \ {z}) = Cardinality(t) - 1
                   /\ Cardinality(t) \in Nat
  BY <1>1, FS_RemoveElement, FS_CardinalityType
<1>7. \A z \in t : t \ {z} \notin F
  <2> HIDE DEF F
  <2>1. \A i \in Nat : ~ (i <= i - 1)
    OBVIOUS
  <2>2. \A z \in t : ~ (Cardinality(t) <= Cardinality(t \ {z}))
    BY <1>6, <2>1
  <2> QED BY <1>1, <2>2
<1>8. SumOver(f, t \ {y}) = f[x] + SumOver(f, (t \ {y}) \ {x})
  BY <1>2, <1>3, <1>5, <1>7
<1>9. SumOver(f, t \ {x}) = f[y] + SumOver(f, (t \ {x}) \ {y})
  BY <1>2, <1>3, <1>5, <1>7
<1>10. (t \ {x}) \ {y} = (t \ {y}) \ {x}
  OBVIOUS
<1> DEFINE rest == SumOver(f, (t \ {x}) \ {y})
<1>11. rest \in Int /\ f[x] \in Int /\ f[y] \in Int
  <2>1. IsFiniteSet((t \ {x}) \ {y}) /\ \A z \in (t \ {x}) \ {y} : f[z] \in Int
    BY <1>2, <1>3, <1>6, FS_RemoveElement
  <2> QED BY <1>2, <1>3, <2>1, SumType
<1> HIDE DEF rest
<1>12. \A i, j, k \in Int : i + (j + k) = j + (i + k)
  OBVIOUS
<1>13. SumOver(f, t) = f[y] + (f[x] + rest) /\ SumOver(f, t \ {x}) = f[y] + rest
  BY <1>4, <1>8, <1>9, <1>10 DEF rest
<1> QED BY <1>2, <1>11, <1>12, <1>13

\* Fewer terms, none of them negative, have a smaller sum.
LEMMA SumGrows ==
  ASSUME NEW S, IsFiniteSet(S), NEW f, \A x \in S : f[x] \in Nat, NEW T \in SUBSET S
  PROVE  SumOver(f, T) \in Nat /\ SumOver(f, T) <= SumOver(f, S)
<1> DEFINE F == {s \in SUBSET S : ~ (T \cap s \in SUBSET s
                    /\ SumOver(f, T \cap s) \in Nat /\ SumOver(f, T \cap s) <= SumOver(f, s))}
<1>0. T \cap S = T
  OBVIOUS
<1> SUFFICES ASSUME F # {} PROVE FALSE
  BY <1>0
<1>1. PICK t \in F : IsFiniteSet(t) /\ \A s \in F : Cardinality(t) <= Cardinality(s)
  BY Smallest
<1>2. t # {}
  BY <1>1, SumOfNone
<1>3. PICK x \in t : TRUE
  BY <1>2
<1>4. IsFiniteSet(t \ {x}) /\ Cardinality(t \ {x}) = Cardinality(t) - 1 /\ Cardinality(t) \in Nat
  BY <1>1, <1>3, FS_RemoveElement, FS_CardinalityType
<1>5. t \ {x} \notin F
  BY <1>1, <1>4
<1> DEFINE some == T \cap (t \ {x})
<1>6. SumOver(f, some) \in Nat /\ SumOver(f, some) <= SumOver(f, t \ {x})
  BY <1>1, <1>5
<1>7. SumOver(f, t) = f[x] + SumOver(f, t \ {x}) /\ f[x] \in Nat
  BY <1>1, <1>3, SumSplits
<1>8. SumOver(f, t \ {x}) \in Int
  BY <1>1, <1>4, SumType
<1>9. CASE x \in T
  <2>0. T \cap t \in SUBSET t
    OBVIOUS
  <2>1. IsFiniteSet(T \cap t) /\ \A z \in T \cap t : f[z] \in Int
    BY <1>1, <2>0, FS_Subset
  <2>2. SumOver(f, T \cap t) = f[x] + SumOver(f, (T \cap t) \ {x})
    BY <1>3, <1>9, <2>1, SumSplits
  <2>3. (T \cap t) \ {x} = some
    OBVIOUS
  <2> HIDE DEF some
  <2> QED BY <1>1, <1>6, <1>7, <1>8, <2>2, <2>3
<1>10. CASE x \notin T
  <2>1. T \cap t = some
    BY <1>10
  <2> HIDE DEF some
  <2> QED BY <1>1, <1>6, <1>7, <1>8, <2>1
<1> QED BY <1>9, <1>10

\* A sum in two parts.
LEMMA SumParts ==
  ASSUME NEW S, IsFiniteSet(S), NEW f, \A x \in S : f[x] \in Int, NEW A
  PROVE  SumOver(f, S) = SumOver(f, S \cap A) + SumOver(f, S \ A)
<1> DEFINE F == {s \in SUBSET S : SumOver(f, s) # SumOver(f, s \cap A) + SumOver(f, s \ A)}
<1> SUFFICES ASSUME F # {} PROVE FALSE
  OBVIOUS
<1>1. PICK t \in F : IsFiniteSet(t) /\ \A s \in F : Cardinality(t) <= Cardinality(s)
  BY Smallest
<1>2. t # {}
  <2>1. SumOver(f, {}) = 0 /\ {} \cap A = {} /\ {} \ A = {}
    BY SumOfNone
  <2>2. SumOver(f, {}) = SumOver(f, {} \cap A) + SumOver(f, {} \ A)
    BY <2>1
  <2> QED BY <1>1, <2>2
<1>3. PICK x \in t : TRUE
  BY <1>2
<1>4. /\ IsFiniteSet(t \ {x}) /\ Cardinality(t \ {x}) = Cardinality(t) - 1
      /\ Cardinality(t) \in Nat
  BY <1>1, <1>3, FS_RemoveElement, FS_CardinalityType
<1>5. t \ {x} \notin F
  BY <1>1, <1>4
<1> DEFINE some == (t \ {x}) \cap A
           others == (t \ {x}) \ A
<1>6. SumOver(f, t \ {x}) = SumOver(f, some) + SumOver(f, others)
  BY <1>1, <1>5
<1>7. SumOver(f, t) = f[x] + SumOver(f, t \ {x}) /\ f[x] \in Int
  BY <1>1, <1>3, SumSplits
<1>8. SumOver(f, some) \in Int /\ SumOver(f, others) \in Int
  <2>1. IsFiniteSet(some) /\ IsFiniteSet(others)
    BY <1>4, FS_Subset
  <2> QED BY <1>1, <2>1, SumType
<1>9. /\ IsFiniteSet(t \cap A) /\ \A z \in t \cap A : f[z] \in Int
      /\ IsFiniteSet(t \ A) /\ \A z \in t \ A : f[z] \in Int
  BY <1>1, FS_Subset
<1>10. CASE x \in A
  <2>1. t \ A = others /\ (t \cap A) \ {x} = some /\ x \in t \cap A
    BY <1>3, <1>10
  <2>2. SumOver(f, t \cap A) = f[x] + SumOver(f, some)
    BY <1>9, <2>1, SumSplits
  <2>3. \A i, j, k \in Int : i + (j + k) = (i + j) + k
    OBVIOUS
  <2>4. f[x] + (SumOver(f, some) + SumOver(f, others))
          = (f[x] + SumOver(f, some)) + SumOver(f, others)
    BY <1>7, <1>8, <2>3
  <2>5. SumOver(f, t) = SumOver(f, t \cap A) + SumOver(f, t \ A)
    BY <1>6, <1>7, <2>1, <2>2, <2>4, Zenon
  <2> QED BY <1>1, <2>5
<1>11. CASE x \notin A
  <2>1. t \cap A = some /\ (t \ A) \ {x} = others /\ x \in t \ A
    BY <1>3, <1>11
  <2>2. SumOver(f, t \ A) = f[x] + SumOver(f, others)
    BY <1>9, <2>1, SumSplits
  <2>3. \A i, j, k \in Int : i + (j + k) = j + (i + k)
    OBVIOUS
  <2>4. f[x] + (SumOver(f, some) + SumOver(f, others))
          = SumOver(f, some) + (f[x] + SumOver(f, others))
    BY <1>7, <1>8, <2>3
  <2>5. SumOver(f, t) = SumOver(f, t \cap A) + SumOver(f, t \ A)
    BY <1>6, <1>7, <2>1, <2>2, <2>4, Zenon
  <2> QED BY <1>1, <2>5
<1> QED BY <1>10, <1>11

\* A sum over what the elements of a set are sent to, each to another.
LEMMA SumImage ==
  ASSUME NEW S, IsFiniteSet(S), NEW f, NEW h, NEW m,
         \A x \in S : f[x] \in Int /\ h[m[x]] = f[x],
         \A x, y \in S : m[x] = m[y] => x = y
  PROVE  SumOver(h, {m[x] : x \in S}) = SumOver(f, S) /\ IsFiniteSet({m[x] : x \in S})
<1> DEFINE image(s) == {m[x] : x \in s}
           F == {s \in SUBSET S :
                   ~ (SumOver(h, image(s)) = SumOver(f, s) /\ IsFiniteSet(image(s)))}
<1> SUFFICES ASSUME F # {} PROVE FALSE
  OBVIOUS
<1>1. PICK t \in F : IsFiniteSet(t) /\ \A s \in F : Cardinality(t) <= Cardinality(s)
  BY Smallest
<1>2. t # {}
  <2>1. image({}) = {}
    OBVIOUS
  <2> QED BY <1>1, <2>1, SumOfNone, FS_EmptySet
<1>3. PICK x \in t : TRUE
  BY <1>2
<1>4. /\ IsFiniteSet(t \ {x}) /\ Cardinality(t \ {x}) = Cardinality(t) - 1
      /\ Cardinality(t) \in Nat
  BY <1>1, <1>3, FS_RemoveElement, FS_CardinalityType
<1>5. t \ {x} \notin F /\ t \ {x} \in SUBSET S
  BY <1>1, <1>4
<1>6. SumOver(h, image(t \ {x})) = SumOver(f, t \ {x}) /\ IsFiniteSet(image(t \ {x}))
  BY <1>5
<1>7. image(t) \ {m[x]} = image(t \ {x}) /\ image(t) = image(t \ {x}) \cup {m[x]}
  BY <1>1, <1>3
<1>8. IsFiniteSet(image(t)) /\ m[x] \in image(t)
  <2>1. m[x] \in image(t)
    BY <1>3
  <2>2. \A T : IsFiniteSet(T) => IsFiniteSet(T \cup {m[x]})
    BY FS_AddElement
  <2> HIDE DEF image
  <2> QED BY <1>6, <1>7, <2>1, <2>2
<1>9. \A z \in image(t) : h[z] \in Int
  BY <1>1
<1>10. SumOver(f, t) = f[x] + SumOver(f, t \ {x}) /\ h[m[x]] = f[x]
  BY <1>1, <1>3, SumSplits
<1>11. SumOver(h, image(t)) = h[m[x]] + SumOver(h, image(t) \ {m[x]})
  <2> HIDE DEF image
  <2> QED BY <1>8, <1>9, SumSplits
<1> QED BY <1>1, <1>6, <1>7, <1>8, <1>10, <1>11

LEMMA SumOfZeros ==
  ASSUME NEW S, IsFiniteSet(S), NEW f, \A x \in S : f[x] = 0
  PROVE  SumOver(f, S) = 0
<1> DEFINE F == {s \in SUBSET S : SumOver(f, s) # 0}
<1> SUFFICES ASSUME F # {} PROVE FALSE
  OBVIOUS
<1>1. PICK t \in F : IsFiniteSet(t) /\ \A s \in F : Cardinality(t) <= Cardinality(s)
  BY Smallest
<1>2. PICK x \in t : TRUE
  BY <1>1, SumOfNone
<1>3. Cardinality(t \ {x}) = Cardinality(t) - 1 /\ Cardinality(t) \in Nat
  BY <1>1, <1>2, FS_RemoveElement, FS_CardinalityType
<1>4. t \ {x} \notin F
  BY <1>1, <1>3
<1>5. SumOver(f, t) = f[x] + SumOver(f, t \ {x})
  BY <1>1, <1>2, SumSplits
<1> QED BY <1>1, <1>2, <1>4, <1>5
=============================================================================
