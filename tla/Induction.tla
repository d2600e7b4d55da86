------------------------------ MODULE Induction ------------------------------
(***************************************************************************)
(* What the proofs about recursive functions and folds rest on: induction  *)
(* and recursion over the naturals and over the subsets of a finite set,   *)
(* stated for sets of numbers and for functions.                           *)
(***************************************************************************)
EXTENDS Integers, Sequences, FiniteSetsExt, SequencesExt, FiniteSetTheorems, SequenceTheorems,
        WellFoundedInduction, TLAPS

\* A set of numbers that is not empty has a least one.
LEMMA LeastNumber ==
  ASSUME NEW S \in SUBSET Nat, S # {}
  PROVE  \E m \in S : \A n \in S : m <= n
<1> DEFINE Less == {p \in Nat \X Nat : p[1] < p[2]}
<1>1. IsWellFoundedOn(Less, Nat)
  BY NatLessThanWellFounded, Zenon DEF OpToRel
<1>2. PICK m \in S : \A n \in S : ~ (<<n, m>> \in Less)
  <2> HIDE DEF Less
  <2> QED BY <1>1, WFMin
<1>3. \A n \in S : m <= n
  <2> TAKE n \in S
  <2>1. ~ (<<n, m>> \in Less)
    BY <1>2
  <2>2. n \in Nat /\ m \in Nat
    OBVIOUS
  <2> QED BY <2>1, <2>2
<1> QED BY <1>3

\* Induction over the naturals: a set that has 0 and with every number the next one.
LEMMA InductionOnSet ==
  ASSUME NEW S \in SUBSET Nat, 0 \in S, \A n \in S : n + 1 \in S
  PROVE  S = Nat
<1> SUFFICES ASSUME Nat \ S # {}
             PROVE  FALSE
  OBVIOUS
<1>1. PICK m \in Nat \ S : \A n \in Nat \ S : m <= n
  BY LeastNumber
<1>2. m # 0 /\ m - 1 \in Nat /\ m - 1 \in S
  BY <1>1
<1>3. (m - 1) + 1 \in S
  BY <1>2
<1> QED BY <1>1, <1>3

\* f is computed from its value at 0, one number after the other.
Unrolls(f, N, base, G) == f = [n \in 0..N |-> IF n = 0 THEN base ELSE G[<<n, f[n - 1]>>]]

\* A function given by its value at 0 and by a step exists on 0..N.
LEMMA RecursionOnRange ==
  ASSUME NEW N \in Nat, NEW V, NEW base \in V, NEW G \in [(1..N) \X V -> V]
  PROVE  \E f \in [0..N -> V] : Unrolls(f, N, base, G)
<1> DEFINE Is(f, m) ==
             /\ f \in [0..m -> V]
             /\ \A n \in 0..m : f[n] = IF n = 0 THEN base ELSE G[<<n, f[n - 1]>>]
           S == {m \in Nat : m <= N => \E f \in [0..m -> V] : Is(f, m)}
<1>1. 0 \in S
  <2> DEFINE g == [n \in 0..0 |-> base]
  <2>1. Is(g, 0)
    OBVIOUS
  <2> QED BY <2>1
<1>2. \A m \in S : m + 1 \in S
  <2> SUFFICES ASSUME NEW m \in S, m + 1 <= N
               PROVE  \E f \in [0..(m + 1) -> V] : Is(f, m + 1)
    OBVIOUS
  <2>1. PICK f \in [0..m -> V] : Is(f, m)
    OBVIOUS
  <2> DEFINE g == [n \in 0..(m + 1) |-> IF n <= m THEN f[n] ELSE G[<<m + 1, f[m]>>]]
  <2>2. f[m] \in V /\ m + 1 \in 1..N
    BY <2>1
  <2>3. G[<<m + 1, f[m]>>] \in V
    BY <2>2
  <2>4. g \in [0..(m + 1) -> V]
    BY <2>1, <2>3
  <2>5. \A n \in 0..(m + 1) : g[n] = IF n = 0 THEN base ELSE G[<<n, g[n - 1]>>]
    <3> TAKE n \in 0..(m + 1)
    <3>1. CASE n <= m
      <4>1. g[n] = f[n] /\ (n # 0 => g[n - 1] = f[n - 1])
        BY <3>1
      <4>2. f[n] = IF n = 0 THEN base ELSE G[<<n, f[n - 1]>>]
        BY <2>1, <3>1
      <4>3. CASE n = 0
        BY <4>1, <4>2, <4>3
      <4>4. CASE n # 0
        BY <4>1, <4>2, <4>4
      <4> QED BY <4>3, <4>4
    <3>2. CASE n = m + 1
      <4>1. g[n] = G[<<m + 1, f[m]>>] /\ g[n - 1] = f[m] /\ n # 0
        BY <3>2
      <4> HIDE DEF g
      <4> QED BY <4>1, <3>2
    <3> QED BY <3>1, <3>2
  <2> HIDE DEF g
  <2> QED BY <2>4, <2>5
<1>3. N \in S
  <2> HIDE DEF S
  <2>1. S \in SUBSET Nat
    BY DEF S
  <2> QED BY <1>1, <1>2, <2>1, InductionOnSet
<1>4. PICK f \in [0..N -> V] : Is(f, N)
  BY <1>3
<1>5. f = [n \in 0..N |-> IF n = 0 THEN base ELSE G[<<n, f[n - 1]>>]]
  BY <1>4
<1> QED BY <1>5 DEF Unrolls

\* c takes an element out of every subset of S that is not empty.
Chooses(c, S) == \A s \in SUBSET S : s # {} => c[s] \in s

\* f is computed by taking elements out of a set in the order of c.
Unfolds(f, S, c, base, G) ==
  f = [s \in SUBSET S |-> IF s = {} THEN base ELSE G[<<c[s], f[s \ {c[s]}]>>]]

\* T has the empty set, and with a set the one that has one element more.
ClosedOnSubsets(T, S, c) ==
  /\ T \in SUBSET SUBSET S
  /\ {} \in T
  /\ \A s \in SUBSET S : s # {} /\ s \ {c[s]} \in T => s \in T

\* A function that is computed by taking elements out of a finite set exists.
LEMMA RecursionOnSubsets ==
  ASSUME NEW S, IsFiniteSet(S), NEW c, Chooses(c, S),
         NEW V, NEW base \in V, NEW G \in [S \X V -> V]
  PROVE  \E f \in [SUBSET S -> V] : Unfolds(f, S, c, base, G)
<1> USE DEF Chooses, Unfolds
<1> DEFINE Small(m) == {s \in SUBSET S : Cardinality(s) <= m}
           Is(f, m) ==
             /\ f \in [Small(m) -> V]
             /\ \A s \in Small(m) : f[s] = IF s = {} THEN base ELSE G[<<c[s], f[s \ {c[s]}]>>]
           T == {m \in Nat : \E f : Is(f, m)}
<1>1. \A s \in SUBSET S : /\ IsFiniteSet(s) /\ Cardinality(s) \in Nat
                          /\ Cardinality(s) <= Cardinality(S)
                          /\ Cardinality(s) = 0 <=> s = {}
  BY FS_Subset, FS_CardinalityType, FS_EmptySet
<1>2. \A s \in SUBSET S : s # {} => /\ c[s] \in S /\ s \ {c[s]} \in SUBSET S
                                    /\ Cardinality(s \ {c[s]}) = Cardinality(s) - 1
  BY <1>1, FS_RemoveElement
<1>3. 0 \in T
  <2> DEFINE g == [s \in Small(0) |-> base]
  <2>1. \A s \in Small(0) : s = {}
    BY <1>1
  <2>2. Is(g, 0)
    BY <2>1
  <2> QED BY <2>2
<1>4. \A m \in T : m + 1 \in T
  <2> SUFFICES ASSUME NEW m \in T
               PROVE  m + 1 \in T
    OBVIOUS
  <2>1. PICK f : Is(f, m)
    OBVIOUS
  <2> DEFINE g == [s \in Small(m + 1) |-> IF Cardinality(s) <= m THEN f[s]
                                          ELSE G[<<c[s], f[s \ {c[s]}]>>]]
  <2>2. \A s \in Small(m + 1) : s # {} => s \ {c[s]} \in Small(m)
    BY <1>1, <1>2
  <2>3. \A s \in Small(m + 1) :
           /\ g[s] \in V
           /\ g[s] = IF s = {} THEN base ELSE G[<<c[s], f[s \ {c[s]}]>>]
    <3> TAKE s \in Small(m + 1)
    <3>1. CASE Cardinality(s) <= m
      <4>1. s \in Small(m) /\ g[s] = f[s]
        BY <3>1
      <4> QED BY <2>1, <4>1
    <3>2. CASE ~ (Cardinality(s) <= m)
      <4>1. s # {} /\ c[s] \in S /\ f[s \ {c[s]}] \in V
        BY <1>1, <1>2, <2>1, <2>2, <3>2
      <4> QED BY <3>2, <4>1
    <3> QED BY <3>1, <3>2
  <2>4. \A s \in Small(m + 1) : s # {} => g[s \ {c[s]}] = f[s \ {c[s]}]
    BY <1>1, <2>2
  <2>5. Is(g, m + 1)
    <3>1. g \in [Small(m + 1) -> V]
      BY <2>3
    <3> HIDE DEF g
    <3> QED BY <2>3, <2>4, <3>1
  <2>6. m + 1 \in Nat /\ \E h : Is(h, m + 1)
    <3> HIDE DEF g, Is
    <3> QED BY <2>5
  <2> QED BY <2>6
<1>5. T = Nat
  <2> HIDE DEF T
  <2>1. T \in SUBSET Nat
    BY DEF T
  <2> QED BY <1>3, <1>4, <2>1, InductionOnSet
<1>6. Cardinality(S) \in T
  BY <1>1, <1>5
<1>7. PICK f : Is(f, Cardinality(S))
  BY <1>6
<1>8. Small(Cardinality(S)) = SUBSET S
  BY <1>1
<1>9. f = [s \in SUBSET S |-> IF s = {} THEN base ELSE G[<<c[s], f[s \ {c[s]}]>>]]
  BY <1>7, <1>8
<1> QED BY <1>7, <1>8, <1>9

\* Induction over the subsets of a finite set.
LEMMA SubsetInduction ==
  ASSUME NEW S, IsFiniteSet(S), NEW c, Chooses(c, S),
         NEW T, ClosedOnSubsets(T, S, c)
  PROVE  T = SUBSET S
<1> USE DEF Chooses, ClosedOnSubsets
<1> DEFINE N == {n \in Nat : \A s \in SUBSET S : Cardinality(s) = n => s \in T}
<1>1. \A s \in SUBSET S : /\ IsFiniteSet(s) /\ Cardinality(s) \in Nat
                          /\ Cardinality(s) = 0 <=> s = {}
  BY FS_Subset, FS_CardinalityType, FS_EmptySet
<1>2. 0 \in N
  BY <1>1
<1>3. \A n \in N : n + 1 \in N
  <2> SUFFICES ASSUME NEW n \in N, NEW s \in SUBSET S, Cardinality(s) = n + 1
               PROVE  s \in T
    OBVIOUS
  <2>1. s # {} /\ c[s] \in s /\ s \ {c[s]} \in SUBSET S
    BY <1>1
  <2>2. Cardinality(s \ {c[s]}) = n
    <3>1. IsFiniteSet(s) /\ Cardinality(s) = n + 1 /\ n \in Nat
      BY <1>1
    <3>2. Cardinality(s \ {c[s]}) = Cardinality(s) - 1
      BY <2>1, <3>1, FS_RemoveElement
    <3> QED BY <3>1, <3>2
  <2> QED BY <2>1, <2>2
<1>4. N = Nat
  <2> HIDE DEF N
  <2>1. N \in SUBSET Nat
    BY DEF N
  <2> QED BY <1>2, <1>3, <2>1, InductionOnSet
<1> QED BY <1>1, <1>4

\* The sum of d over S.
SumOver(d, S) == MapThenSumSet(LAMBDA a : d[a], S)

\* A sum is computed by taking the elements out one by one, in an order that
\* does not depend on the numbers.
Order(S) == [s \in SUBSET S |-> CHOOSE x \in s : TRUE]
Partial(f, d, S) ==
  /\ f \in [SUBSET S -> Int]
  /\ f[{}] = 0
  /\ \A s \in SUBSET S : s # {} => f[s] = d[Order(S)[s]] + f[s \ {Order(S)[s]}]

LEMMA SumUnfolds ==
  ASSUME NEW S, IsFiniteSet(S), NEW d, \A a \in S : d[a] \in Int
  PROVE  \E f : Partial(f, d, S) /\ SumOver(d, S) = f[S]
<1>1. PICK c : c = Order(S)
  OBVIOUS
<1>2. PICK G : G = [p \in S \X Int |-> d[p[1]] + p[2]]
  OBVIOUS
<1>3. /\ Chooses(c, S)
      /\ G \in [S \X Int -> Int]
      /\ \A s \in SUBSET S : c[s] = CHOOSE x \in s : TRUE
  BY <1>1, <1>2 DEF Chooses, Order
<1>4. PICK f \in [SUBSET S -> Int] : Unfolds(f, S, c, 0, G)
  <2>1. PICK base \in Int : base = 0
    OBVIOUS
  <2>2. \E f \in [SUBSET S -> Int] : Unfolds(f, S, c, base, G)
    BY <1>3, RecursionOnSubsets
  <2> QED BY <2>1, <2>2
<1> DEFINE step(g) == [s \in SUBSET S |-> IF s = {} THEN 0
                                          ELSE LET x == CHOOSE x \in s : TRUE
                                               IN  d[x] + g[s \ {x}]]
           iter == CHOOSE g : g = step(g)
<1>5. \A s \in SUBSET S : s # {} => /\ c[s] \in S /\ f[s \ {c[s]}] \in Int
                                    /\ G[<<c[s], f[s \ {c[s]}]>>] = d[c[s]] + f[s \ {c[s]}]
  BY <1>2, <1>3, <1>4 DEF Chooses
<1>6. f = step(f)
  <2>1. f = [s \in SUBSET S |-> IF s = {} THEN 0 ELSE G[<<c[s], f[s \ {c[s]}]>>]]
    BY <1>4 DEF Unfolds
  <2>2. \A s \in SUBSET S :
          (IF s = {} THEN 0 ELSE G[<<c[s], f[s \ {c[s]}]>>])
            = IF s = {} THEN 0 ELSE LET x == CHOOSE x \in s : TRUE IN d[x] + f[s \ {x}]
    BY <1>3, <1>5
  <2> QED BY <2>1, <2>2
<1>7. iter = step(iter)
  <2> HIDE DEF step
  <2> QED BY <1>6
<1>8. SumOver(d, S) = iter[S]
  BY DEF SumOver, MapThenSumSet, MapThenFoldSet
<1> HIDE DEF iter
<1>9. /\ iter[{}] = 0
      /\ \A s \in SUBSET S : s # {} => iter[s] = d[c[s]] + iter[s \ {c[s]}]
  <2>1. \A s \in SUBSET S :
          iter[s] = IF s = {} THEN 0 ELSE LET x == CHOOSE x \in s : TRUE IN d[x] + iter[s \ {x}]
    BY <1>7
  <2>2. iter[{}] = 0
    BY <2>1
  <2>3. \A s \in SUBSET S : s # {} => iter[s] = d[c[s]] + iter[s \ {c[s]}]
    BY <1>3, <2>1
  <2> QED BY <2>2, <2>3
<1>10. iter = [s \in SUBSET S |-> iter[s]]
  BY <1>7
<1> DEFINE T == {s \in SUBSET S : iter[s] \in Int}
<1>11. ASSUME NEW s \in SUBSET S, s # {}, s \ {c[s]} \in T
       PROVE  s \in T
  <2>1. d[c[s]] \in Int
    BY <1>3, <1>11 DEF Chooses
  <2> QED BY <1>9, <1>11, <2>1
<1>12. T = SUBSET S
  <2>1. {} \in T /\ T \in SUBSET SUBSET S
    BY <1>9
  <2> HIDE DEF T
  <2>2. ClosedOnSubsets(T, S, c)
    BY <1>11, <2>1 DEF ClosedOnSubsets
  <2> QED BY <1>3, <2>2, SubsetInduction
<1>13. iter \in [SUBSET S -> Int]
  BY <1>10, <1>12
<1> QED BY <1>1, <1>8, <1>9, <1>13 DEF Partial

\* A sum of integers is an integer, and one of naturals a natural.
LEMMA SumOfIntegers ==
  ASSUME NEW S, IsFiniteSet(S), NEW d, \A a \in S : d[a] \in Int
  PROVE  SumOver(d, S) \in Int
<1>1. PICK f : Partial(f, d, S) /\ SumOver(d, S) = f[S]
  BY SumUnfolds
<1> QED BY <1>1 DEF Partial

LEMMA SumOfNumbers ==
  ASSUME NEW S, IsFiniteSet(S), NEW d, \A a \in S : d[a] \in Nat
  PROVE  SumOver(d, S) \in Nat
<1>1. PICK f : Partial(f, d, S) /\ SumOver(d, S) = f[S]
  BY SumUnfolds
<1>2. PICK c : c = Order(S)
  OBVIOUS
<1>3. Chooses(c, S)
  BY <1>2 DEF Chooses, Order
<1> DEFINE T == {s \in SUBSET S : f[s] \in Nat}
<1>4. ASSUME NEW s \in SUBSET S, s # {}, s \ {c[s]} \in T
      PROVE  s \in T
  <2>1. d[c[s]] \in Nat
    BY <1>3, <1>4 DEF Chooses
  <2> QED BY <1>1, <1>2, <1>4, <2>1 DEF Partial
<1>5. T = SUBSET S
  <2>0. f[{}] = 0
    BY <1>1 DEF Partial
  <2>1. ClosedOnSubsets(T, S, c)
    BY <1>4, <2>0 DEF ClosedOnSubsets
  <2> HIDE DEF T
  <2> QED BY <1>3, <2>1, SubsetInduction
<1> QED BY <1>1, <1>5

\* One number changes, and the sum by as much.
LEMMA SumChanges ==
  ASSUME NEW S, IsFiniteSet(S), NEW d \in [S -> Int], NEW a \in S, NEW x \in Int,
         NEW e \in [S -> Int], e[a] = d[a] + x, \A b \in S : b # a => e[b] = d[b]
  PROVE  SumOver(e, S) = SumOver(d, S) + x
<1>2. PICK f : Partial(f, d, S) /\ SumOver(d, S) = f[S]
  BY SumUnfolds
<1>3. PICK g : Partial(g, e, S) /\ SumOver(e, S) = g[S]
  BY SumUnfolds
<1>4. PICK c : c = Order(S)
  OBVIOUS
<1>5. Chooses(c, S)
  BY <1>4 DEF Chooses, Order
<1> DEFINE T == {s \in SUBSET S : g[s] = f[s] + IF a \in s THEN x ELSE 0}
<1>6. ASSUME NEW s \in SUBSET S, s # {}, s \ {c[s]} \in T
      PROVE  s \in T
  <2>1. PICK b \in s : b = c[s]
    BY <1>5, <1>6 DEF Chooses
  <2>2. PICK r \in SUBSET S : r = s \ {b}
    OBVIOUS
  <2>3. /\ f[s] = d[b] + f[r] /\ g[s] = e[b] + g[r]
        /\ f[r] \in Int /\ g[r] \in Int /\ d[b] \in Int
    BY <1>2, <1>3, <1>4, <1>6, <2>1, <2>2 DEF Partial
  <2>4. g[r] = f[r] + IF a \in r THEN x ELSE 0
    BY <1>6, <2>1, <2>2
  <2>5. CASE a = b
    <3>1. e[b] = d[b] + x /\ a \in s /\ a \notin r
      BY <2>2, <2>5
    <3> QED BY <2>3, <2>4, <3>1
  <2>6. CASE a # b
    <3>1. e[b] = d[b] /\ (a \in s <=> a \in r)
      BY <1>6, <2>2, <2>6
    <3>2. CASE a \in r
      BY <2>3, <2>4, <3>1, <3>2
    <3>3. CASE a \notin r
      BY <2>3, <2>4, <3>1, <3>3
    <3> QED BY <3>2, <3>3
  <2> QED BY <2>5, <2>6
<1>7. T = SUBSET S
  <2>1. {} \in T
    BY <1>2, <1>3 DEF Partial
  <2>2. ClosedOnSubsets(T, S, c)
    BY <1>6, <2>1 DEF ClosedOnSubsets
  <2> HIDE DEF T
  <2> QED BY <1>5, <2>2, SubsetInduction
<1>8. g[S] = f[S] + x
  BY <1>7
<1> QED BY <1>2, <1>3, <1>8

\* The sums over the subsets, from one function.
LEMMA SumsOfSubsets ==
  ASSUME NEW S, IsFiniteSet(S), NEW d, \A a \in S : d[a] \in Int
  PROVE  \E f : Partial(f, d, S) /\ \A s \in SUBSET S : SumOver(d, s) = f[s]
<1>1. PICK f : Partial(f, d, S)
  BY SumUnfolds
<1>2. ASSUME NEW s \in SUBSET S
      PROVE  SumOver(d, s) = f[s]
  <2>1. IsFiniteSet(s) /\ \A a \in s : d[a] \in Int
    BY FS_Subset
  <2>2. PICK g : Partial(g, d, s) /\ SumOver(d, s) = g[s]
    BY <2>1, SumUnfolds
  <2>3. PICK c : c = Order(s)
    OBVIOUS
  <2>4. /\ Chooses(c, s)
        /\ \A x \in SUBSET s : c[x] = Order(s)[x] /\ c[x] = Order(S)[x] /\ x \in SUBSET S
    BY <2>3 DEF Chooses, Order
  <2> DEFINE T == {x \in SUBSET s : f[x] = g[x]}
  <2>5. ASSUME NEW x \in SUBSET s, x # {}, x \ {c[x]} \in T
        PROVE  x \in T
    <3>1. x \ {c[x]} \in SUBSET s /\ f[x \ {c[x]}] = g[x \ {c[x]}]
      BY <2>5
    <3>2. f[x] = d[c[x]] + f[x \ {c[x]}]
      BY <1>1, <2>4, <2>5 DEF Partial
    <3>3. g[x] = d[c[x]] + g[x \ {c[x]}]
      BY <2>2, <2>4, <2>5 DEF Partial
    <3> QED BY <3>1, <3>2, <3>3
  <2>6. T = SUBSET s
    <3>1. {} \in T
      BY <1>1, <2>2 DEF Partial
    <3>2. ClosedOnSubsets(T, s, c)
      BY <2>5, <3>1 DEF ClosedOnSubsets
    <3> HIDE DEF T
    <3> QED BY <2>1, <2>4, <3>2, SubsetInduction
  <2> QED BY <2>2, <2>6
<1> QED BY <1>1, <1>2

\* Any element can be taken out of a sum.
LEMMA SumWithout ==
  ASSUME NEW S, IsFiniteSet(S), NEW d, \A a \in S : d[a] \in Int, NEW a \in S
  PROVE  SumOver(d, S) = d[a] + SumOver(d, S \ {a})
<1>1. PICK f : Partial(f, d, S) /\ \A s \in SUBSET S : SumOver(d, s) = f[s]
  BY SumsOfSubsets
<1>2. PICK c : c = Order(S)
  OBVIOUS
<1>3. /\ Chooses(c, S)
      /\ \A s \in SUBSET S : s # {} => f[s] = d[c[s]] + f[s \ {c[s]}]
      /\ \A s \in SUBSET S : f[s] \in Int
  BY <1>1, <1>2 DEF Chooses, Order, Partial
<1> DEFINE N == {n \in Nat : \A s \in SUBSET S : Cardinality(s) = n =>
                               \A b \in s : f[s] = d[b] + f[s \ {b}]}
<1>4. \A s \in SUBSET S : /\ IsFiniteSet(s) /\ Cardinality(s) \in Nat
                          /\ Cardinality(s) = 0 <=> s = {}
  BY FS_Subset, FS_CardinalityType, FS_EmptySet
<1>5. 0 \in N
  BY <1>4
<1>6. \A n \in N : n + 1 \in N
  <2> TAKE n \in N
  <2>0. n \in Nat /\ n + 1 \in Nat
    OBVIOUS
  <2> SUFFICES ASSUME NEW s \in SUBSET S, Cardinality(s) = n + 1
               PROVE  \A b \in s : f[s] = d[b] + f[s \ {b}]
    BY <2>0
  <2> TAKE b \in s
  <2>1. PICK e \in s : e = c[s]
    BY <1>3 DEF Chooses
  <2>2. f[s] = d[e] + f[s \ {e}]
    BY <1>3, <2>1
  <2>3. CASE b = e
    BY <2>2, <2>3
  <2>4. CASE b # e
    <3>1. Cardinality(s \ {b}) = n /\ Cardinality(s \ {e}) = n
      <4>1. IsFiniteSet(s) /\ Cardinality(s) = n + 1 /\ n \in Nat
        BY <1>4
      <4>2. /\ Cardinality(s \ {b}) = Cardinality(s) - 1
            /\ Cardinality(s \ {e}) = Cardinality(s) - 1
        BY <4>1, FS_RemoveElement
      <4> QED BY <4>1, <4>2
    <3>2. s \ {b} \in SUBSET S /\ e \in s \ {b} /\ s \ {e} \in SUBSET S /\ b \in s \ {e}
      BY <2>4
    <3>3. PICK r : r = (s \ {b}) \ {e}
      OBVIOUS
    <3>4. r = (s \ {e}) \ {b} /\ r \in SUBSET S
      BY <3>3
    <3>5. f[s \ {b}] = d[e] + f[r]
      BY <3>1, <3>2, <3>3
    <3>6. f[s \ {e}] = d[b] + f[r]
      BY <3>1, <3>2, <3>4
    <3>7. d[b] \in Int /\ d[e] \in Int /\ f[r] \in Int
      BY <1>3, <3>4
    <3> QED BY <2>2, <3>5, <3>6, <3>7
  <2> QED BY <2>3, <2>4
<1>7. N = Nat
  <2>1. N \in SUBSET Nat
    OBVIOUS
  <2> HIDE DEF N
  <2> QED BY <1>5, <1>6, <2>1, InductionOnSet
<1>8. f[S] = d[a] + f[S \ {a}]
  BY <1>4, <1>7
<1> QED BY <1>1, <1>8

LEMMA SumOfNothing ==
  ASSUME NEW d
  PROVE  SumOver(d, {}) = 0
<1>1. \E f : Partial(f, d, {}) /\ SumOver(d, {}) = f[{}]
  BY FS_EmptySet, SumUnfolds
<1> QED BY <1>1 DEF Partial

\* A claim about sums holds for S if it holds for no elements and with one more.
LEMMA SumInduction ==
  ASSUME NEW S, IsFiniteSet(S), NEW T \in SUBSET SUBSET S, {} \in T,
         \A s \in T : \A a \in S \ s : s \union {a} \in T
  PROVE  T = SUBSET S
<1>1. PICK c : c = Order(S)
  OBVIOUS
<1>2. Chooses(c, S)
  BY <1>1 DEF Chooses, Order
<1>3. ASSUME NEW s \in SUBSET S, s # {}, s \ {c[s]} \in T
      PROVE  s \in T
  <2>1. c[s] \in s /\ c[s] \in S \ (s \ {c[s]}) /\ (s \ {c[s]}) \union {c[s]} = s
    BY <1>2, <1>3 DEF Chooses
  <2> QED BY <1>3, <2>1
<1>4. ClosedOnSubsets(T, S, c)
  BY <1>3 DEF ClosedOnSubsets
<1> QED BY <1>2, <1>4, SubsetInduction

LEMMA SumNext ==
  ASSUME NEW S, IsFiniteSet(S), NEW d, NEW a, a \notin S,
         \A b \in S \union {a} : d[b] \in Int
  PROVE  /\ IsFiniteSet(S \union {a})
         /\ SumOver(d, S \union {a}) = d[a] + SumOver(d, S)
         /\ SumOver(d, S) \in Int
<1>1. IsFiniteSet(S \union {a})
  BY FS_AddElement
<1>2. (S \union {a}) \ {a} = S
  OBVIOUS
<1>3. SumOver(d, S) \in Int
  BY SumOfIntegers
<1> QED BY <1>1, <1>2, <1>3, SumWithout

\* Sums are compared, added and scaled number by number.
LEMMA SumAtMost ==
  ASSUME NEW S, IsFiniteSet(S), NEW d, NEW e,
         \A a \in S : d[a] \in Int /\ e[a] \in Int /\ d[a] <= e[a]
  PROVE  SumOver(d, S) <= SumOver(e, S)
<1> DEFINE T == {s \in SUBSET S : SumOver(d, s) <= SumOver(e, s)}
<1>1. {} \in T
  BY SumOfNothing
<1>2. ASSUME NEW s \in T, NEW a \in S \ s
      PROVE  s \union {a} \in T
  <2>1. IsFiniteSet(s) /\ s \in SUBSET S /\ s \union {a} \in SUBSET S
    BY FS_Subset
  <2>2. SumOver(d, s \union {a}) = d[a] + SumOver(d, s) /\ SumOver(d, s) \in Int
    BY <2>1, SumNext
  <2>3. SumOver(e, s \union {a}) = e[a] + SumOver(e, s) /\ SumOver(e, s) \in Int
    BY <2>1, SumNext
  <2>4. SumOver(d, s) <= SumOver(e, s) /\ d[a] <= e[a] /\ d[a] \in Int /\ e[a] \in Int
    OBVIOUS
  <2>5. SumOver(d, s \union {a}) <= SumOver(e, s \union {a})
    BY <2>2, <2>3, <2>4
  <2> QED BY <2>1, <2>5
<1>3. T = SUBSET S
  <2>1. T \in SUBSET SUBSET S
    OBVIOUS
  <2> HIDE DEF T
  <2> QED BY <1>1, <1>2, <2>1, SumInduction
<1>4. S \in T
  BY <1>3
<1> QED BY <1>4

LEMMA SumSame ==
  ASSUME NEW S, IsFiniteSet(S), NEW d, NEW e,
         \A a \in S : d[a] \in Int /\ d[a] = e[a]
  PROVE  SumOver(d, S) = SumOver(e, S)
<1>1. \A a \in S : e[a] \in Int /\ d[a] <= e[a] /\ e[a] <= d[a]
  OBVIOUS
<1>2. SumOver(d, S) <= SumOver(e, S) /\ SumOver(e, S) <= SumOver(d, S)
  BY <1>1, SumAtMost
<1>3. SumOver(d, S) \in Int /\ SumOver(e, S) \in Int
  BY <1>1, SumOfIntegers
<1> QED BY <1>2, <1>3

LEMMA SumAdds ==
  ASSUME NEW S, IsFiniteSet(S), NEW d, NEW e, NEW g,
         \A a \in S : d[a] \in Int /\ e[a] \in Int /\ g[a] = d[a] + e[a]
  PROVE  SumOver(g, S) = SumOver(d, S) + SumOver(e, S)
<1> DEFINE T == {s \in SUBSET S : SumOver(g, s) = SumOver(d, s) + SumOver(e, s)}
<1>1. {} \in T
  BY SumOfNothing
<1>2. ASSUME NEW s \in T, NEW a \in S \ s
      PROVE  s \union {a} \in T
  <2>1. IsFiniteSet(s) /\ s \in SUBSET S /\ s \union {a} \in SUBSET S
    BY FS_Subset
  <2>2. SumOver(d, s \union {a}) = d[a] + SumOver(d, s) /\ SumOver(d, s) \in Int
    BY <2>1, SumNext
  <2>3. SumOver(e, s \union {a}) = e[a] + SumOver(e, s) /\ SumOver(e, s) \in Int
    BY <2>1, SumNext
  <2>4. SumOver(g, s \union {a}) = g[a] + SumOver(g, s) /\ SumOver(g, s) \in Int
    <3>1. \A b \in s \union {a} : g[b] \in Int
      OBVIOUS
    <3> QED BY <2>1, <3>1, SumNext
  <2>5. /\ SumOver(g, s) = SumOver(d, s) + SumOver(e, s)
        /\ g[a] = d[a] + e[a] /\ d[a] \in Int /\ e[a] \in Int
    OBVIOUS
  <2>6. SumOver(g, s \union {a}) = SumOver(d, s \union {a}) + SumOver(e, s \union {a})
    BY <2>2, <2>3, <2>4, <2>5
  <2> QED BY <2>1, <2>6
<1>3. T = SUBSET S
  <2>1. T \in SUBSET SUBSET S
    OBVIOUS
  <2> HIDE DEF T
  <2> QED BY <1>1, <1>2, <2>1, SumInduction
<1>4. S \in T
  BY <1>3
<1> QED BY <1>4

LEMMA SumScales ==
  ASSUME NEW S, IsFiniteSet(S), NEW k \in Int, NEW d, NEW g,
         \A a \in S : d[a] \in Int /\ g[a] = k * d[a]
  PROVE  SumOver(g, S) = k * SumOver(d, S)
<1> DEFINE T == {s \in SUBSET S : SumOver(g, s) = k * SumOver(d, s)}
<1>1. {} \in T
  BY SumOfNothing
<1>2. ASSUME NEW s \in T, NEW a \in S \ s
      PROVE  s \union {a} \in T
  <2>1. IsFiniteSet(s) /\ s \in SUBSET S /\ s \union {a} \in SUBSET S
    BY FS_Subset
  <2>2. SumOver(d, s \union {a}) = d[a] + SumOver(d, s) /\ SumOver(d, s) \in Int
    BY <2>1, SumNext
  <2>3. SumOver(g, s \union {a}) = g[a] + SumOver(g, s)
    <3>1. \A b \in s \union {a} : g[b] \in Int
      OBVIOUS
    <3> QED BY <2>1, <3>1, SumNext
  <2>4. /\ SumOver(g, s) = k * SumOver(d, s)
        /\ g[a] = k * d[a] /\ d[a] \in Int
    OBVIOUS
  <2>5. k * (d[a] + SumOver(d, s)) = k * d[a] + k * SumOver(d, s)
    BY <2>2, <2>4
  <2>6. SumOver(g, s \union {a}) = k * SumOver(d, s \union {a})
    BY <2>2, <2>3, <2>4, <2>5
  <2> QED BY <2>1, <2>6
<1>3. T = SUBSET S
  <2>1. T \in SUBSET SUBSET S
    OBVIOUS
  <2> HIDE DEF T
  <2> QED BY <1>1, <1>2, <2>1, SumInduction
<1>4. S \in T
  BY <1>3
<1> QED BY <1>4

\* As many times the same number.
LEMMA SumOfEquals ==
  ASSUME NEW S, IsFiniteSet(S), NEW k \in Int, NEW d, \A a \in S : d[a] = k
  PROVE  SumOver(d, S) = Cardinality(S) * k
<1> DEFINE T == {s \in SUBSET S : SumOver(d, s) = Cardinality(s) * k}
<1>1. {} \in T
  <2>1. Cardinality({}) = 0
    BY FS_EmptySet
  <2> QED BY <2>1, SumOfNothing
<1>2. ASSUME NEW s \in T, NEW a \in S \ s
      PROVE  s \union {a} \in T
  <2>1. IsFiniteSet(s) /\ s \in SUBSET S /\ s \union {a} \in SUBSET S
    BY FS_Subset
  <2>2. SumOver(d, s \union {a}) = d[a] + SumOver(d, s)
    <3>1. \A b \in s \union {a} : d[b] \in Int
      OBVIOUS
    <3> QED BY <2>1, <3>1, SumNext
  <2>3. Cardinality(s \union {a}) = Cardinality(s) + 1 /\ Cardinality(s) \in Nat
    BY <2>1, FS_AddElement, FS_CardinalityType
  <2>4. SumOver(d, s) = Cardinality(s) * k /\ d[a] = k
    OBVIOUS
  <2>5. (Cardinality(s) + 1) * k = Cardinality(s) * k + k
    BY <2>3
  <2>6. SumOver(d, s \union {a}) = Cardinality(s \union {a}) * k
    BY <2>2, <2>3, <2>4, <2>5
  <2> QED BY <2>1, <2>6
<1>3. T = SUBSET S
  <2>1. T \in SUBSET SUBSET S
    OBVIOUS
  <2> HIDE DEF T
  <2> QED BY <1>1, <1>2, <2>1, SumInduction
<1>4. S \in T
  BY <1>3
<1> QED BY <1>4

\* A sum of numbers above zero is at least how many they are.
LEMMA SumCounts ==
  ASSUME NEW S, IsFiniteSet(S), NEW d, \A a \in S : d[a] \in Nat \ {0}
  PROVE  /\ Cardinality(S) \in Nat
         /\ SumOver(d, S) \in Nat
         /\ Cardinality(S) <= SumOver(d, S)
         /\ S # {} => Cardinality(S) >= 1
<1>1. PICK e : e = [a \in S |-> 1]
  OBVIOUS
<1>2. SumOver(e, S) = Cardinality(S) * 1
  BY <1>1, SumOfEquals
<1>3. SumOver(e, S) <= SumOver(d, S)
  BY <1>1, SumAtMost
<1>4. SumOver(d, S) \in Nat
  BY SumOfNumbers
<1>5. Cardinality(S) \in Nat /\ (Cardinality(S) = 0 <=> S = {})
  BY FS_CardinalityType, FS_EmptySet
<1> QED BY <1>2, <1>3, <1>4, <1>5

\* The sums of the elements that g sends to the same place add up to the sum.
LEMMA SumFibers ==
  ASSUME NEW S, IsFiniteSet(S), NEW d, \A x \in S : d[x] \in Int,
         NEW G, IsFiniteSet(G), NEW g, \A x \in S : g[x] \in G
  PROVE  SumOver([y \in G |-> SumOver(d, {x \in S : g[x] = y})], G) = SumOver(d, S)
<1> DEFINE F(s) == [y \in G |-> SumOver(d, {x \in s : g[x] = y})]
           T == {s \in SUBSET S : SumOver(F(s), G) = SumOver(d, s)}
<1>0. ASSUME NEW s \in SUBSET S
      PROVE  /\ IsFiniteSet(s) /\ F(s) \in [G -> Int]
             /\ \A y \in G : IsFiniteSet({x \in s : g[x] = y})
  <2>1. IsFiniteSet(s) /\ \A y \in G : IsFiniteSet({x \in s : g[x] = y})
    BY FS_Subset
  <2>2. ASSUME NEW y \in G
        PROVE  SumOver(d, {x \in s : g[x] = y}) \in Int
    BY <2>1, SumOfIntegers
  <2> QED BY <2>1, <2>2
<1>1. {} \in T
  <2>1. \A y \in G : {x \in {} : g[x] = y} = {}
    OBVIOUS
  <2>2. \A y \in G : F({})[y] = 0
    BY <2>1, SumOfNothing
  <2> HIDE DEF F
  <2>3. SumOver(F({}), G) = Cardinality(G) * 0
    BY <2>2, SumOfEquals
  <2>4. Cardinality(G) \in Nat
    BY FS_CardinalityType
  <2> QED BY <2>3, <2>4, SumOfNothing
<1>2. ASSUME NEW s \in T, NEW a \in S \ s
      PROVE  s \union {a} \in T
  <2>1. s \in SUBSET S /\ s \union {a} \in SUBSET S /\ SumOver(F(s), G) = SumOver(d, s)
    OBVIOUS
  <2>2. SumOver(d, s \union {a}) = d[a] + SumOver(d, s) /\ SumOver(d, s) \in Int /\ d[a] \in Int
    <3>1. IsFiniteSet(s)
      BY <1>0, <2>1
    <3> QED BY <2>1, <3>1, SumNext
  <2>3. PICK z \in G : z = g[a]
    OBVIOUS
  <2>4. F(s \union {a})[z] = F(s)[z] + d[a]
    <3>1. PICK r : r = {x \in s : g[x] = z}
      OBVIOUS
    <3>2. {x \in s \union {a} : g[x] = z} = r \union {a} /\ a \notin r /\ r \in SUBSET S
      BY <2>3, <3>1
    <3>3. IsFiniteSet(r)
      BY <1>0, <2>1, <3>1
    <3>4. SumOver(d, r \union {a}) = d[a] + SumOver(d, r) /\ SumOver(d, r) \in Int
      BY <2>2, <3>2, <3>3, SumNext
    <3>5. F(s)[z] = SumOver(d, r)
      BY <3>1
    <3>6. F(s \union {a})[z] = SumOver(d, r \union {a})
      BY <3>2
    <3> HIDE DEF F
    <3> QED BY <2>2, <3>4, <3>5, <3>6
  <2>5. \A y \in G : y # z => F(s \union {a})[y] = F(s)[y]
    <3> SUFFICES ASSUME NEW y \in G, y # z
                 PROVE  {x \in s \union {a} : g[x] = y} = {x \in s : g[x] = y}
      OBVIOUS
    <3> QED BY <2>3
  <2>6. F(s) \in [G -> Int] /\ F(s \union {a}) \in [G -> Int]
    BY <1>0, <2>1
  <2> HIDE DEF F
  <2>7. SumOver(F(s \union {a}), G) = SumOver(F(s), G) + d[a]
    <3>1. PICK u \in [G -> Int] : u = F(s)
      BY <2>6
    <3>2. PICK v \in [G -> Int] : v = F(s \union {a})
      BY <2>6
    <3>3. v[z] = u[z] + d[a] /\ \A y \in G : y # z => v[y] = u[y]
      BY <2>4, <2>5, <3>1, <3>2
    <3>4. SumOver(v, G) = SumOver(u, G) + d[a]
      BY <2>2, <3>3, SumChanges
    <3> QED BY <3>1, <3>2, <3>4
  <2> QED BY <2>1, <2>2, <2>7
<1>3. T = SUBSET S
  <2>1. T \in SUBSET SUBSET S
    OBVIOUS
  <2> HIDE DEF T
  <2> QED BY <1>1, <1>2, <2>1, SumInduction
<1>4. S \in T
  BY <1>3
<1> QED BY <1>4

\* Rows and columns of a table have the same sum.
ColumnSums(m, R, S) == [a \in S |-> SumOver([r \in R |-> m[r][a]], R)]
RowSums(m, R, S) == [r \in R |-> SumOver(m[r], S)]

LEMMA SumSwaps ==
  ASSUME NEW R, IsFiniteSet(R), NEW S, IsFiniteSet(S), NEW m,
         \A r \in R, a \in S : m[r][a] \in Int
  PROVE  SumOver(ColumnSums(m, R, S), S) = SumOver(RowSums(m, R, S), R)
<1> USE DEF ColumnSums, RowSums
<1> DEFINE C(q) == [a \in S |-> SumOver([r \in R |-> m[r][a]], q)]
           rows == [r \in R |-> SumOver(m[r], S)]
           T == {q \in SUBSET R : SumOver(C(q), S) = SumOver(rows, q)}
<1>0. /\ \A q \in SUBSET R : IsFiniteSet(q)
      /\ \A r \in R : rows[r] \in Int
      /\ \A q \in SUBSET R : \A a \in S : C(q)[a] \in Int
  <2>1. \A q \in SUBSET R : IsFiniteSet(q)
    BY FS_Subset
  <2>2. ASSUME NEW r \in R
        PROVE  rows[r] \in Int
    BY <2>2, SumOfIntegers
  <2>3. ASSUME NEW q \in SUBSET R, NEW a \in S
        PROVE  C(q)[a] \in Int
    <3>1. PICK d : d = [r \in R |-> m[r][a]]
      OBVIOUS
    <3>2. \A r \in q : d[r] \in Int
      BY <3>1
    <3>3. SumOver(d, q) \in Int
      BY <2>1, <3>2, SumOfIntegers
    <3> QED BY <3>1, <3>3
  <2> QED BY <2>1, <2>2, <2>3
<1>1. {} \in T
  <2>1. \A a \in S : C({})[a] = 0
    BY SumOfNothing
  <2> HIDE DEF C, rows
  <2>2. SumOver(C({}), S) = Cardinality(S) * 0
    BY <2>1, SumOfEquals
  <2>3. Cardinality(S) \in Nat
    BY FS_CardinalityType
  <2> QED BY <2>2, <2>3, SumOfNothing
<1>2. ASSUME NEW q \in T, NEW r \in R \ q
      PROVE  q \union {r} \in T
  <2>1. q \in SUBSET R /\ q \union {r} \in SUBSET R /\ SumOver(C(q), S) = SumOver(rows, q)
    OBVIOUS
  <2>2. SumOver(rows, q \union {r}) = rows[r] + SumOver(rows, q) /\ SumOver(rows, q) \in Int
    <3>1. IsFiniteSet(q) /\ \A x \in q \union {r} : rows[x] \in Int
      BY <1>0, <2>1
    <3> HIDE DEF rows
    <3> QED BY <3>1, SumNext
  <2>3. ASSUME NEW a \in S
        PROVE  C(q \union {r})[a] = m[r][a] + C(q)[a]
    <3>1. PICK d : d = [x \in R |-> m[x][a]]
      OBVIOUS
    <3>2. IsFiniteSet(q) /\ \A x \in q \union {r} : d[x] \in Int
      BY <1>0, <2>1, <3>1
    <3>3. SumOver(d, q \union {r}) = d[r] + SumOver(d, q)
      BY <3>2, SumNext
    <3> QED BY <3>1, <3>3
  <2>4. \A a \in S : C(q)[a] \in Int /\ m[r][a] \in Int
    BY <1>0, <2>1
  <2>5. rows[r] = SumOver(m[r], S)
    OBVIOUS
  <2> HIDE DEF C, rows
  <2>6. SumOver(C(q \union {r}), S) = SumOver(m[r], S) + SumOver(C(q), S)
    <3>1. PICK g : g = C(q \union {r})
      OBVIOUS
    <3>2. PICK d : d = m[r]
      OBVIOUS
    <3>3. PICK e : e = C(q)
      OBVIOUS
    <3>4. \A a \in S : d[a] \in Int /\ e[a] \in Int /\ g[a] = d[a] + e[a]
      BY <2>3, <2>4, <3>1, <3>2, <3>3
    <3>5. SumOver(g, S) = SumOver(d, S) + SumOver(e, S)
      BY <3>4, SumAdds
    <3> QED BY <3>1, <3>2, <3>3, <3>5
  <2> QED BY <2>1, <2>2, <2>5, <2>6
<1>3. T = SUBSET R
  <2>1. T \in SUBSET SUBSET R
    OBVIOUS
  <2> HIDE DEF T
  <2> QED BY <1>1, <1>2, <2>1, SumInduction
<1>4. R \in T
  BY <1>3
<1> QED BY <1>4

\* SumFunction of the community modules, of a function on S.
LEMMA FunctionSum ==
  ASSUME NEW S, NEW d, DOMAIN d = S
  PROVE  SumFunction(d) = SumOver(d, S)
BY DEF SumFunction, SumFunctionOnSet, FoldFunctionOnSet, SumOver, MapThenSumSet

LEMMA ImageIsFinite ==
  ASSUME NEW S, IsFiniteSet(S), NEW f
  PROVE  /\ IsFiniteSet({f[x] : x \in S})
         /\ Cardinality({f[x] : x \in S}) <= Cardinality(S)
<1>1. PICK T : T = {f[x] : x \in S}
  OBVIOUS
<1>2. PICK g : g = [x \in S |-> f[x]]
  OBVIOUS
<1>3. g \in Surjection(S, T)
  BY <1>1, <1>2 DEF Surjection
<1>4. IsFiniteSet(T) /\ Cardinality(T) <= Cardinality(S)
  BY <1>3, FS_Surjection
<1> QED BY <1>1, <1>4

\* A finite set of integers that is not empty has a greatest one.
LEMMA GreatestOfFinite ==
  ASSUME NEW S \in SUBSET Int, IsFiniteSet(S), S # {}
  PROVE  Max(S) \in S /\ \A n \in S : n <= Max(S)
<1> DEFINE T == {s \in SUBSET S : s # {} => \E m \in s : \A n \in s : n <= m}
<1>1. {} \in T
  OBVIOUS
<1>2. ASSUME NEW s \in T, NEW a \in S \ s
      PROVE  s \union {a} \in T
  <2>1. CASE s = {}
    BY <2>1
  <2>2. CASE s # {}
    <3>1. PICK m \in s : \A n \in s : n <= m
      BY <2>2
    <3>2. m \in Int /\ a \in Int
      OBVIOUS
    <3>3. CASE a <= m
      BY <3>1, <3>2, <3>3
    <3>4. CASE ~ (a <= m)
      BY <3>1, <3>2, <3>4
    <3> QED BY <3>3, <3>4
  <2> QED BY <2>1, <2>2
<1>3. T = SUBSET S
  <2>1. T \in SUBSET SUBSET S
    OBVIOUS
  <2> HIDE DEF T
  <2> QED BY <1>1, <1>2, <2>1, SumInduction
<1>4. \E m \in S : \A n \in S : n <= m
  BY <1>3
<1> QED BY <1>4 DEF Max

\* A set of numbers below a bound that is not empty has a greatest one.
LEMMA GreatestNumber ==
  ASSUME NEW N \in Nat, NEW S \in SUBSET (0..N), S # {}
  PROVE  Max(S) \in S /\ \A n \in S : n <= Max(S)
<1> DEFINE T == {n \in Nat : N - n \in S}
<1>1. T \in SUBSET Nat /\ T # {}
  <2>1. PICK n \in S : TRUE
    OBVIOUS
  <2>2. N - n \in Nat /\ N - (N - n) = n
    BY <2>1
  <2>3. N - n \in T
    BY <2>1, <2>2
  <2> QED BY <2>3
<1>2. PICK m \in T : \A n \in T : m <= n
  <2> HIDE DEF T
  <2> QED BY <1>1, LeastNumber
<1>3. \A n \in S : N - m >= n
  <2> TAKE n \in S
  <2>1. N - n \in Nat /\ N - (N - n) = n
    OBVIOUS
  <2>2. N - n \in T
    BY <2>1
  <2>3. m <= N - n /\ m \in Nat
    BY <1>2, <2>2
  <2> QED BY <2>1, <2>3
<1>4. N - m \in S
  BY <1>2
<1>5. Max(S) \in S /\ \A n \in S : Max(S) >= n
  BY <1>3, <1>4 DEF Max
<1>6. \A n \in S : n \in Int
  OBVIOUS
<1> QED BY <1>5, <1>6

\* A set of integers that is not empty and bounded below by 0 has a least one.
LEMMA LeastOfRange ==
  ASSUME NEW N \in Nat, NEW S \in SUBSET (0..N), S # {}
  PROVE  Min(S) \in S /\ \A n \in S : Min(S) <= n
<1>1. PICK m \in S : \A n \in S : m <= n
  BY LeastNumber
<1> QED BY <1>1 DEF Min

-----------------------------------------------------------------------------
(* Folds.  FoldLeft and FoldRight take the elements of a sequence by their  *)
(* places, the last one first or the first one first.                       *)

Lasts(D) == [s \in SUBSET D |-> Max(s)]
Firsts(D) == [s \in SUBSET D |-> Min(s)]

\* The places of a sequence, and how a fold chooses among them.
LEMMA FoldPlaces ==
  ASSUME NEW A, NEW q \in Seq(A)
  PROVE  /\ IsFiniteSet(DOMAIN q)
         /\ Cardinality(DOMAIN q) = Len(q)
         /\ Chooses(Lasts(DOMAIN q), DOMAIN q)
         /\ Chooses(Firsts(DOMAIN q), DOMAIN q)
         /\ \A s \in SUBSET DOMAIN q : s # {} => /\ Max(s) \in s /\ q[Max(s)] \in A
                                                 /\ Min(s) \in s /\ q[Min(s)] \in A
<1>1. PICK n \in Nat : n = Len(q) /\ DOMAIN q = 1..n
  OBVIOUS
<1>2. \A s \in SUBSET (1..n) : s \in SUBSET (0..n)
  OBVIOUS
<1>3. \A s \in SUBSET (1..n) : s # {} => Max(s) \in s /\ Min(s) \in s
  BY <1>2, GreatestNumber, LeastOfRange
<1>4. \A i \in 1..n : q[i] \in A
  BY <1>1
<1>5. IsFiniteSet(1..n) /\ Cardinality(1..n) = n
  BY FS_Interval
<1> QED BY <1>1, <1>3, <1>4, <1>5 DEF Chooses, Lasts, Firsts

\* A function that computes the fold of a step that stays in W exists.
Folds(f, W, D, c, base, G) ==
  /\ f \in [SUBSET D -> W]
  /\ f[{}] = base
  /\ \A s \in SUBSET D : s # {} => f[s] = G[<<c[s], f[s \ {c[s]}]>>]

LEMMA FoldExists ==
  ASSUME NEW D, IsFiniteSet(D), NEW c, Chooses(c, D), NEW W, NEW base \in W,
         NEW G \in [D \X W -> W]
  PROVE  \E f : Folds(f, W, D, c, base, G)
<1>1. PICK f \in [SUBSET D -> W] : Unfolds(f, D, c, base, G)
  BY RecursionOnSubsets
<1> QED BY <1>1 DEF Unfolds, Folds

\* What is computed in steps that stay in W stays in W.
LEMMA FoldStays ==
  ASSUME NEW D, IsFiniteSet(D), NEW c, Chooses(c, D), NEW W, NEW iter,
         iter[{}] \in W,
         \A s \in SUBSET D : s # {} /\ iter[s \ {c[s]}] \in W => iter[s] \in W
  PROVE  iter[D] \in W
<1> DEFINE T == {s \in SUBSET D : iter[s] \in W}
<1>1. T = SUBSET D
  <2>1. ClosedOnSubsets(T, D, c)
    BY DEF ClosedOnSubsets
  <2> HIDE DEF T
  <2> QED BY <2>1, SubsetInduction
<1> QED BY <1>1

\* What is computed in steps, from P[0] into P[1], P[2] and so on, ends in the set
\* of as many steps as there are elements.
LEMMA FoldReaches ==
  ASSUME NEW D, IsFiniteSet(D), NEW c, Chooses(c, D), NEW P, NEW iter,
         iter[{}] \in P[0],
         \A s \in SUBSET D : s # {} /\ iter[s \ {c[s]}] \in P[Cardinality(s) - 1]
                               => iter[s] \in P[Cardinality(s)]
  PROVE  iter[D] \in P[Cardinality(D)]
<1> DEFINE T == {s \in SUBSET D : iter[s] \in P[Cardinality(s)]}
<1>1. {} \in T
  BY FS_EmptySet
<1>2. ASSUME NEW s \in SUBSET D, s # {}, s \ {c[s]} \in T
      PROVE  s \in T
  <2>1. IsFiniteSet(s) /\ c[s] \in s
    BY <1>2, FS_Subset DEF Chooses
  <2>2. Cardinality(s \ {c[s]}) = Cardinality(s) - 1
    BY <2>1, FS_RemoveElement
  <2> QED BY <1>2, <2>2
<1>3. T = SUBSET D
  <2>1. ClosedOnSubsets(T, D, c)
    BY <1>1, <1>2 DEF ClosedOnSubsets
  <2> HIDE DEF T
  <2> QED BY <2>1, SubsetInduction
<1> QED BY <1>3

\* The elements of sequences, one sequence after the other.
LEMMA FlattenedHold ==
  ASSUME NEW A, NEW q \in Seq(Seq(A))
  PROVE  FlattenSeq(q) \in Seq(A)
<1>1. PICK n \in Nat : n = Len(q) /\ DOMAIN q = 1..n /\ \A i \in 1..n : q[i] \in Seq(A)
  OBVIOUS
<1>2. CASE n = 0
  <2>1. FlattenSeq(q) = q /\ q = <<>>
    BY <1>1, <1>2 DEF FlattenSeq
  <2> QED BY <2>1
<1>3. CASE n # 0
  <2> DEFINE V == Seq(A)
             step(g) == [i \in 1..Len(q) |-> IF i = 1 THEN q[i] ELSE g[i - 1] \o q[i]]
             flatten == CHOOSE g : g = step(g)
  <2>1. PICK N \in Nat : N = n - 1 /\ n = N + 1
    BY <1>3
  <2>2. PICK base \in V : base = q[1]
    BY <1>1, <1>3
  <2>3. PICK G : G = [p \in (1..N) \X V |-> p[2] \o q[p[1] + 1]]
    OBVIOUS
  <2>4. ASSUME NEW i \in 1..N, NEW v \in V
        PROVE  v \o q[i + 1] \in V
    <3>1. i + 1 \in 1..n
      BY <2>1
    <3>2. PICK u \in V : u = q[i + 1]
      BY <1>1, <3>1
    <3>3. v \o u \in Seq(A)
      BY ConcatProperties
    <3> QED BY <3>2, <3>3
  <2>5. G \in [(1..N) \X V -> V]
    <3> HIDE DEF V
    <3> QED BY <2>3, <2>4
  <2>6. PICK h \in [0..N -> V] : Unrolls(h, N, base, G)
    <3> HIDE DEF V
    <3> QED BY <2>5, RecursionOnRange
  <2>7. PICK f : f = [i \in 1..n |-> h[i - 1]]
    OBVIOUS
  <2>8. f = step(f)
    <3>1. ASSUME NEW i \in 1..n
          PROVE  f[i] = IF i = 1 THEN q[i] ELSE f[i - 1] \o q[i]
      <4>1. CASE i = 1
        <5>1. h[0] = base
          BY <2>6 DEF Unrolls
        <5> QED BY <2>2, <2>7, <4>1, <5>1
      <4>2. CASE i # 1
        <5>1. i - 1 \in 1..N /\ (i - 1) + 1 = i /\ i - 1 \in 0..N /\ i - 1 # 0 /\ i - 1 \in 1..n
              /\ (i - 1) - 1 \in 0..N
          BY <2>1, <4>2
        <5>2. h[i - 1] = G[<<i - 1, h[(i - 1) - 1]>>]
          BY <2>6, <5>1 DEF Unrolls
        <5>3. h[(i - 1) - 1] \in V
          BY <5>1
        <5>4. G[<<i - 1, h[(i - 1) - 1]>>] = h[(i - 1) - 1] \o q[(i - 1) + 1]
          <6> HIDE DEF V
          <6> QED BY <2>3, <5>1, <5>3
        <5>5. f[i] = h[i - 1] /\ f[i - 1] = h[(i - 1) - 1]
          BY <2>7, <5>1
        <5> QED BY <4>2, <5>1, <5>2, <5>4, <5>5
      <4> QED BY <4>1, <4>2
    <3>2. f = [i \in 1..n |-> f[i]]
      BY <2>7
    <3> QED BY <1>1, <3>1, <3>2
  <2>9. flatten = step(flatten)
    <3> HIDE DEF step
    <3> QED BY <2>8
  <2>10. FlattenSeq(q) = flatten[n]
    BY <1>1, <1>3 DEF FlattenSeq
  <2>11. PICK z : z = flatten
    OBVIOUS
  <2>12. \A i \in 1..n : z[i] = IF i = 1 THEN q[i] ELSE z[i - 1] \o q[i]
    <3>1. z = step(z)
      BY <2>9, <2>11, ZenonT(30)
    <3> QED BY <1>1, <3>1
  <2> DEFINE T == {i \in Nat : i + 1 <= n => z[i + 1] \in Seq(A)}
  <2>13. 0 \in T
    BY <1>1, <1>3, <2>12
  <2>14. ASSUME NEW i \in T
         PROVE  i + 1 \in T
    <3>1. CASE (i + 1) + 1 <= n
      <4>1. /\ i \in Nat /\ i + 1 <= n /\ (i + 1) + 1 \in 1..n /\ (i + 1) + 1 # 1
            /\ ((i + 1) + 1) - 1 = i + 1
        BY <3>1
      <4>2. PICK u \in Seq(A), v \in Seq(A) : u = z[i + 1] /\ v = q[(i + 1) + 1]
        BY <1>1, <4>1
      <4>3. z[(i + 1) + 1] = u \o v
        BY <2>12, <4>1, <4>2
      <4>4. u \o v \in Seq(A)
        BY ConcatProperties
      <4>5. z[(i + 1) + 1] \in Seq(A)
        BY <4>3, <4>4
      <4> QED BY <4>1, <4>5
    <3>2. CASE ~ ((i + 1) + 1 <= n)
      BY <3>2
    <3> QED BY <3>1, <3>2
  <2>15. T = Nat
    <3>1. T \in SUBSET Nat
      OBVIOUS
    <3> HIDE DEF T
    <3> QED BY <2>13, <2>14, <3>1, InductionOnSet
  <2>16. N \in T
    BY <2>15
  <2> QED BY <2>1, <2>10, <2>11, <2>16
<1> QED BY <1>2, <1>3
=============================================================================
