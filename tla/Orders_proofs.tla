---------------------------- MODULE Orders_proofs ----------------------------
(***************************************************************************)
(* What Ascending says of a set of positive integers, and the least and    *)
(* the greatest element of such a set: lemmas of the other proof modules.  *)
(***************************************************************************)
EXTENDS Orders, FiniteSetTheorems, WellFoundedInduction, TLAPS

Smaller == {p \in Nat \X Nat : p[1] < p[2]}

LEMMA LeastExists ==
  ASSUME NEW S \in SUBSET Nat, S # {}
  PROVE  \E m \in S : \A k \in S : m <= k
<1>1. IsWellFoundedOn(Smaller, Nat)
  BY NatLessThanWellFounded, Zenon DEF OpToRel, Smaller
<1>2. PICK m \in S : \A k \in S : ~ (<<k, m>> \in Smaller)
  BY <1>1, WFMin
<1>3. \A k \in S : ~ (k < m)
  BY <1>2 DEF Smaller
<1> QED  BY <1>3

LEMMA GreatestExists ==
  ASSUME NEW n \in Nat, NEW S \in SUBSET (1 .. n), S # {}
  PROVE  \E m \in S : \A k \in S : k <= m
<1> DEFINE T == {n - k : k \in S}
<1>1. \A k \in S : n - k \in Nat
  OBVIOUS
<1>2. T \in SUBSET Nat /\ T # {}
  BY <1>1
<1>3. PICK d \in T : \A e \in T : d <= e
  BY <1>2, LeastExists
<1>4. PICK m \in S : d = n - m
  BY <1>3
<1>5. \A k \in S : n - m <= n - k
  BY <1>3, <1>4
<1> QED  BY <1>5

\* A function on 1 .. n is a sequence.
LEMMA FunctionIsSeq ==
  ASSUME NEW S, NEW n \in Nat, NEW s \in [1 .. n -> S]
  PROVE  s \in Seq(S) /\ Len(s) = n
  OBVIOUS

Increasing(b, S) ==
  /\ b \in [1 .. Cardinality(S) -> S]
  /\ \A i, j \in DOMAIN b : i < j => b[i] < b[j]

LEMMA FiniteSubset ==
  ASSUME NEW n \in Nat, NEW S \in SUBSET (1 .. n)
  PROVE  IsFiniteSet(S) /\ Cardinality(S) \in Nat
<1>1. IsFiniteSet(1 .. n)
  BY FS_Interval
<1>2. IsFiniteSet(S)
  BY <1>1, FS_Subset
<1> QED  BY <1>2, FS_CardinalityType

LEMMA IncreasingExtended ==
  ASSUME NEW n \in Nat, NEW Q \in SUBSET (1 .. n), NEW x \in Q,
         \A k \in Q : k <= x, NEW b, Increasing(b, Q \ {x})
  PROVE  \E d : Increasing(d, Q)
<1> DEFINE c == Cardinality(Q \ {x})
           d == [i \in 1 .. c + 1 |-> IF i = c + 1 THEN x ELSE b[i]]
<1>1. /\ IsFiniteSet(Q) /\ Cardinality(Q) \in Nat
      /\ Q \ {x} \in SUBSET (1 .. n) /\ \A k \in Q : k \in Nat
  BY FiniteSubset
<1>2. c \in Nat /\ Cardinality(Q) = c + 1
  <2>1. c \in Nat
    BY <1>1, FiniteSubset
  <2>2. c = Cardinality(Q) - 1
    BY <1>1, FS_RemoveElement
  <2> QED  BY <1>1, <2>1, <2>2
<1>3. /\ b \in [1 .. c -> Q \ {x}]
      /\ \A i, j \in 1 .. c : i < j => b[i] < b[j]
  BY DEF Increasing
<1> HIDE DEF c
<1>4. \A i \in 1 .. c : b[i] \in Q /\ b[i] \in Nat /\ b[i] < x
  <2> SUFFICES ASSUME NEW i \in 1 .. c
               PROVE  b[i] \in Q /\ b[i] \in Nat /\ b[i] < x
    OBVIOUS
  <2>1. b[i] \in Q \ {x}
    BY <1>3
  <2>2. b[i] \in Q /\ b[i] # x /\ b[i] <= x
    BY <2>1
  <2>3. b[i] \in Nat /\ x \in Nat
    BY <1>1, <2>2
  <2> QED  BY <2>2, <2>3
<1>5. \A i \in 1 .. c + 1 : i = c + 1 \/ i \in 1 .. c
  BY <1>2
<1>6. d \in [1 .. c + 1 -> Q]
  BY <1>4, <1>5
<1>7. ASSUME NEW i \in 1 .. c + 1, NEW j \in 1 .. c + 1, i < j
      PROVE  d[i] < d[j]
  <2>1. i \in 1 .. c /\ i # c + 1 /\ d[i] = b[i]
    BY <1>2, <1>7
  <2>2. CASE j = c + 1
    BY <1>4, <2>1, <2>2
  <2>3. CASE j \in 1 .. c
    <3>1. d[j] = b[j]
      BY <1>2, <2>3
    <3> QED  BY <1>3, <1>7, <2>1, <2>3, <3>1
  <2> QED  BY <1>5, <2>2, <2>3
<1>8. d \in [1 .. Cardinality(Q) -> Q]
  BY <1>2, <1>6
<1> QED  BY <1>2, <1>7, <1>8 DEF Increasing

\* Take the greatest element out of a smallest set that has no such sequence.
LEMMA IncreasingExists ==
  ASSUME NEW n \in Nat, NEW S \in SUBSET (1 .. n)
  PROVE  \E b : Increasing(b, S)
<1> DEFINE Bad == {Q \in SUBSET (1 .. n) : ~ \E b : Increasing(b, Q)}
           Sizes == {Cardinality(Q) : Q \in Bad}
<1> SUFFICES ASSUME Bad # {} PROVE FALSE
  OBVIOUS
<1>1. \A Q \in Bad : Cardinality(Q) \in Nat
  BY FiniteSubset
<1>2. Sizes \in SUBSET Nat /\ Sizes # {}
  BY <1>1
<1>3. PICK m \in Sizes : \A k \in Sizes : m <= k
  BY <1>2, LeastExists
<1>4. PICK Q \in Bad : Cardinality(Q) = m
  BY <1>3
<1>5. Q \in SUBSET (1 .. n) /\ IsFiniteSet(Q) /\ Cardinality(Q) \in Nat
  BY <1>4, FiniteSubset
<1>6. Q # {}
  <2> SUFFICES ASSUME Q = {} PROVE FALSE
    OBVIOUS
  <2>1. Cardinality(Q) = 0 /\ 1 .. 0 = {}
    BY FS_EmptySet
  <2>2. Increasing([i \in 1 .. 0 |-> 0], Q)
    BY <2>1 DEF Increasing
  <2> QED  BY <1>4, <2>2
<1>7. PICK x \in Q : \A k \in Q : k <= x
  BY <1>5, <1>6, GreatestExists
<1>8. Q \ {x} \in SUBSET (1 .. n) /\ Cardinality(Q \ {x}) = Cardinality(Q) - 1
  BY <1>5, FS_RemoveElement
<1>9. Cardinality(Q \ {x}) \notin Sizes
  <2> SUFFICES ASSUME Cardinality(Q \ {x}) \in Sizes PROVE FALSE
    OBVIOUS
  <2>1. m <= Cardinality(Q \ {x})
    BY <1>3
  <2> QED  BY <1>4, <1>5, <1>8, <2>1
<1>10. \E b : Increasing(b, Q \ {x})
  BY <1>8, <1>9
<1>11. \E d : Increasing(d, Q)
  BY <1>5, <1>7, <1>10, IncreasingExtended
<1> QED  BY <1>4, <1>11

LEMMA AscendingFacts ==
  ASSUME NEW n \in Nat, NEW S \in SUBSET (1 .. n)
  PROVE  /\ Cardinality(S) \in Nat
         /\ Ascending(S) \in [1 .. Cardinality(S) -> S]
         /\ \A i, j \in 1 .. Cardinality(S) :
              i < j => Ascending(S)[i] < Ascending(S)[j]
         /\ \A x \in S : \E i \in 1 .. Cardinality(S) : Ascending(S)[i] = x
<1> DEFINE N == Cardinality(S)
           a == Ascending(S)
<1>1. N \in Nat
  BY FiniteSubset
<1>10. IsFiniteSet(S)
  BY FiniteSubset
<1>11. \A x \in S : x \in Nat
  OBVIOUS
<1>2. \E b \in [1 .. N -> S] : \A i, j \in DOMAIN b : i < j => b[i] < b[j]
  BY IncreasingExists DEF Increasing
<1>3. a \in [1 .. N -> S] /\ \A i, j \in DOMAIN a : i < j => a[i] < a[j]
  BY <1>2 DEF Ascending
<1>4. DOMAIN a = 1 .. N
  BY <1>3
<1> HIDE DEF N, a
<1>5. ASSUME NEW i \in 1 .. N, NEW j \in 1 .. N, a[i] = a[j]
      PROVE  i = j
  <2>1. a[i] \in S
    BY <1>3
  <2>2. a[i] \in Nat
    BY <1>11, <2>1
  <2> QED  BY <1>1, <1>3, <1>4, <1>5, <2>2
<1>6. a \in Injection(1 .. N, S)
  BY <1>3, <1>5 DEF Injection, IsInjective
<1>7. Cardinality(1 .. N) = N
  BY <1>1, FS_Interval
<1>8. a \in Surjection(1 .. N, S)
  BY <1>6, <1>7, <1>10, FS_Injection DEF N
<1>9. \A x \in S : \E i \in 1 .. N : a[i] = x
  BY <1>8 DEF Surjection
<1> QED  BY <1>1, <1>3, <1>4, <1>9 DEF N, a

LEMMA IdentityAscending ==
  ASSUME NEW n \in Nat
  PROVE  Ascending(1 .. n) = [i \in 1 .. n |-> i]
<1> DEFINE a == Ascending(1 .. n)
           Bad == {i \in 1 .. n : a[i] # i}
<1>1. Cardinality(1 .. n) = n
  BY FS_Interval
<1>2. /\ a \in [1 .. n -> 1 .. n]
      /\ \A i, j \in 1 .. n : i < j => a[i] < a[j]
      /\ \A x \in 1 .. n : \E i \in 1 .. n : a[i] = x
  BY <1>1, AscendingFacts
<1> HIDE DEF a
<1>3. Bad = {}
  <2> SUFFICES ASSUME Bad # {} PROVE FALSE
    OBVIOUS
  <2>1. PICK i \in Bad : \A j \in Bad : i <= j
    <3>1. Bad \in SUBSET Nat
      OBVIOUS
    <3> QED  BY <3>1, LeastExists
  <2>2. i \in 1 .. n /\ a[i] # i /\ i \in Nat /\ a[i] \in 1 .. n
    BY <1>2
  <2>3. \A j \in 1 .. n : j < i => a[j] = j
    BY <2>1, <2>2
  <2>4. a[i] > i
    <3> SUFFICES ASSUME a[i] < i PROVE FALSE
      BY <2>2
    <3>1. a[a[i]] = a[i] /\ a[a[i]] < a[i]
      BY <1>2, <2>2, <2>3
    <3> QED  BY <2>2, <3>1
  <2>5. PICK j \in 1 .. n : a[j] = i
    BY <1>2, <2>2
  <2>6. ~ (j < i) /\ j # i
    BY <2>2, <2>3, <2>5
  <2>7. a[i] < a[j]
    BY <1>2, <2>2, <2>6
  <2> QED  BY <2>2, <2>4, <2>5, <2>7
<1> QED  BY <1>2, <1>3 DEF a
=============================================================================
