---------------------------- MODULE OrderTheorems ----------------------------
(***************************************************************************)
(* Facts about natural numbers and finite sets that the proofs share:      *)
(* least elements, induction, and the ranks of a total order, which is how *)
(* the modules say "sorted": in place n is what has n - 1 before it.       *)
(***************************************************************************)
EXTENDS Integers, FiniteSets, FiniteSetTheorems, TLAPS

-----------------------------------------------------------------------------
(* Natural numbers *)

\* A set of natural numbers that is not empty has a least element.
LEMMA Least ==
  ASSUME NEW T \in SUBSET Nat, T # {}
  PROVE  \E m \in T : \A n \in T : m <= n
<1> DEFINE F == {0..m : m \in T}
<1>1. ASSUME NEW m \in T PROVE 0..m \in FiniteSubsetsOf(Nat)
  <2>1. IsFiniteSet(0..m)
    <3>1. 0 \in Int /\ m \in Int
      OBVIOUS
    <3> QED
      BY <3>1, FS_Interval, Zenon
  <2> QED
    BY <2>1 DEF FiniteSubsetsOf
<1>2. F \subseteq FiniteSubsetsOf(Nat) /\ F # {}
  BY <1>1
<1>3. PICK U \in F : \A V \in F : ~ (<<V, U>> \in StrictSubsetOrdering(Nat))
  <2> HIDE DEF F
  <2> QED
    BY <1>2, FS_StrictSubsetOrderingWellFounded, WFMin
<1>4. PICK m \in T : U = 0..m
  OBVIOUS
<1>5. ASSUME NEW n \in T, n < m PROVE FALSE
  <2>1. 0..n \in SUBSET Nat /\ 0..m \in SUBSET Nat /\ 0..n \subseteq 0..m
    BY <1>5
  <2>2. m \in 0..m /\ m \notin 0..n
    BY <1>5
  <2>3. <<0..n, 0..m>> \in StrictSubsetOrdering(Nat)
    BY <2>1, <2>2 DEF StrictSubsetOrdering
  <2>4. 0..n \in F
    OBVIOUS
  <2> QED
    BY <2>3, <2>4, <1>3, <1>4
<1> QED
  BY <1>4, <1>5

\* Induction over a set: what holds 0, and n + 1 with n, holds all of them.
LEMMA Induct ==
  ASSUME NEW S, 0 \in S, \A n \in Nat : n \in S => n + 1 \in S
  PROVE  Nat \subseteq S
<1> SUFFICES ASSUME Nat \ S # {} PROVE FALSE
  OBVIOUS
<1>1. PICK m \in Nat \ S : \A n \in Nat \ S : m <= n
  <2>1. Nat \ S \in SUBSET Nat
    OBVIOUS
  <2> QED
    BY <2>1, Least
<1>2. m - 1 \in Nat /\ m - 1 \in S
  BY <1>1
<1> QED
  BY <1>1, <1>2

-----------------------------------------------------------------------------
(* Ranks *)

\* A gives what stands before each element of a set, in some total order.
TotalOrder(A, M) ==
  /\ A \in [M -> SUBSET M]
  /\ \A i \in M : i \notin A[i]
  /\ \A i, j \in M : i # j =>
       \/ i \in A[j] /\ A[i] \subseteq A[j]
       \/ j \in A[i] /\ A[j] \subseteq A[i]

\* How many stand before an element numbers a finite set without gaps.
LEMMA RankBijection ==
  ASSUME NEW M, IsFiniteSet(M), NEW A, TotalOrder(A, M)
  PROVE  /\ Cardinality(M) \in Nat
         /\ [i \in M |-> Cardinality(A[i])] \in [M -> 0..(Cardinality(M) - 1)]
         /\ \A i, j \in M : Cardinality(A[i]) = Cardinality(A[j]) => i = j
         /\ \A n \in 0..(Cardinality(M) - 1) : \E i \in M : Cardinality(A[i]) = n
         /\ \A i, j \in M : Cardinality(A[i]) < Cardinality(A[j]) => i \in A[j]
<1> DEFINE m == Cardinality(M)
           r == [i \in M |-> Cardinality(A[i])]
<1> USE DEF TotalOrder
<1>0. m \in Nat
  BY FS_CardinalityType
<1>1. ASSUME NEW i \in M PROVE IsFiniteSet(A[i]) /\ r[i] \in 0..(m - 1)
  <2>1. A[i] \in SUBSET (M \ {i})
    OBVIOUS
  <2>2. IsFiniteSet(M \ {i}) /\ Cardinality(M \ {i}) = m - 1
    BY FS_RemoveElement
  <2>3. IsFiniteSet(A[i]) /\ Cardinality(A[i]) <= m - 1
    BY <2>1, <2>2, FS_Subset
  <2>4. Cardinality(A[i]) \in Nat
    BY <2>3, FS_CardinalityType
  <2> QED
    BY <1>0, <2>3, <2>4
<1>2. ASSUME NEW i \in M, NEW j \in M, i \in A[j], A[i] \subseteq A[j] PROVE r[i] < r[j]
  <2>1. A[i] \in SUBSET (A[j] \ {i})
    BY <1>2
  <2>2. IsFiniteSet(A[j] \ {i}) /\ Cardinality(A[j] \ {i}) = Cardinality(A[j]) - 1
    BY <1>1, <1>2, FS_RemoveElement
  <2>3. Cardinality(A[i]) <= Cardinality(A[j]) - 1
    BY <2>1, <2>2, FS_Subset
  <2>4. Cardinality(A[i]) \in Int /\ Cardinality(A[j]) \in Int
    BY <1>0, <1>1
  <2> QED
    BY <2>3, <2>4
<1>3. \A i, j \in M : r[i] = r[j] => i = j
  <2> SUFFICES ASSUME NEW i \in M, NEW j \in M, i # j PROVE r[i] # r[j]
    OBVIOUS
  <2>1. r[i] \in Int /\ r[j] \in Int
    BY <1>0, <1>1
  <2>2. r[i] < r[j] \/ r[j] < r[i]
    <3> HIDE DEF r
    <3> QED
      BY <1>2
  <2> QED
    BY <2>1, <2>2
<1>4. ASSUME NEW i \in M, NEW j \in M, r[i] < r[j] PROVE i \in A[j]
  <2>1. r[i] \in Int /\ r[j] \in Int /\ i # j
    BY <1>0, <1>1, <1>4
  <2>2. j \in A[i] /\ A[j] \subseteq A[i] => r[j] < r[i]
    BY <1>2
  <2> QED
    BY <1>4, <2>1, <2>2
<1>5. r \in Injection(M, 0..(m - 1))
  BY <1>1, <1>3 DEF Injection, IsInjective
<1> HIDE DEF r
<1>6. IsFiniteSet(0..(m - 1)) /\ Cardinality(0..(m - 1)) = m
  <2> HIDE DEF m
  <2>1. m - 1 \in Int /\ 0 \in Int
    BY <1>0
  <2> QED
    BY <1>0, <2>1, FS_Interval
<1>7. r \in Surjection(M, 0..(m - 1))
  <2>1. Cardinality(M) = Cardinality(0..(m - 1))
    BY <1>6
  <2> DEFINE T == 0..(m - 1)
  <2>2. IsFiniteSet(T) /\ r \in Injection(M, T) /\ Cardinality(M) = Cardinality(T)
    BY <1>5, <1>6, <2>1
  <2> HIDE DEF T
  <2>3. r \in Surjection(M, T)
    BY <2>2, FS_Injection
  <2> QED
    BY <2>3 DEF T
<1> QED
  BY <1>0, <1>1, <1>3, <1>4, <1>7 DEF Surjection, r

\* So k elements have fewer than k before them.
LEMMA FirstOnes ==
  ASSUME NEW M, IsFiniteSet(M), NEW A, TotalOrder(A, M), NEW k \in 0..Cardinality(M)
  PROVE  Cardinality({i \in M : Cardinality(A[i]) < k}) = k
<1> DEFINE m == Cardinality(M)
           r == [i \in M |-> Cardinality(A[i])]
           B == {i \in M : r[i] < k}
           rB == [i \in B |-> r[i]]
<1>1. /\ m \in Nat /\ r \in [M -> 0..(m - 1)]
      /\ \A i, j \in M : r[i] = r[j] => i = j
      /\ \A n \in 0..(m - 1) : \E i \in M : r[i] = n
      /\ k \in 0..m
  BY RankBijection
<1> HIDE DEF r, m
<1>2. rB \in [B -> 0..(k - 1)]
  BY <1>1
<1>3. rB \in Injection(B, 0..(k - 1))
  BY <1>1, <1>2 DEF Injection, IsInjective
<1>4. rB \in Surjection(B, 0..(k - 1))
  <2>1. ASSUME NEW n \in 0..(k - 1) PROVE \E i \in B : rB[i] = n
    <3>1. n \in 0..(m - 1)
      BY <1>1
    <3>2. PICK i \in M : r[i] = n
      BY <1>1, <3>1 DEF Surjection
    <3> QED
      BY <3>2
  <2> QED
    BY <1>2, <2>1 DEF Surjection
<1>5. ExistsBijection(B, 0..(k - 1))
  BY <1>3, <1>4 DEF ExistsBijection, Bijection
<1>6. IsFiniteSet(B)
  <2> B \in SUBSET M
    OBVIOUS
  <2> QED
    BY FS_Subset
<1>7. Cardinality(0..(k - 1)) = k
  BY FS_Interval
<1>8. Cardinality(B) = k
  <2> DEFINE T == 0..(k - 1)
  <2>1. ExistsBijection(B, T) /\ Cardinality(T) = k
    BY <1>5, <1>7
  <2> HIDE DEF B, T
  <2> QED
    BY <1>6, <2>1, FS_Bijection
<1> QED
  BY <1>8 DEF r

\* As many as there are, under other names.
LEMMA Renamed ==
  ASSUME NEW M, IsFiniteSet(M), NEW f, \A i, j \in M : f[i] = f[j] => i = j,
         NEW T, \A i \in M : f[i] \in T, \A x \in T : \E i \in M : x = f[i]
  PROVE  Cardinality(T) = Cardinality(M)
<1> DEFINE g == [i \in M |-> f[i]]
<1>1. g \in Bijection(M, T)
  BY DEF Bijection, Injection, Surjection, IsInjective
<1>2. ExistsBijection(M, T)
  BY <1>1 DEF ExistsBijection
<1> QED
  BY <1>2, FS_Bijection

\* The list whose place n holds what has n - 1 before it lists the set.
LEMMA RankedList ==
  ASSUME NEW M, IsFiniteSet(M), NEW A, TotalOrder(A, M)
  PROVE  {CHOOSE i \in M : Cardinality(A[i]) = n - 1 : n \in 1..Cardinality(M)} = M
<1> DEFINE m == Cardinality(M)
           r == [i \in M |-> Cardinality(A[i])]
           At(n) == CHOOSE i \in M : r[i] = n - 1
<1>1. /\ m \in Nat /\ r \in [M -> 0..(m - 1)]
      /\ \A i, j \in M : r[i] = r[j] => i = j
      /\ \A n \in 0..(m - 1) : \E i \in M : r[i] = n
  BY RankBijection
<1>2. \A n \in 1..m : At(n) = CHOOSE i \in M : Cardinality(A[i]) = n - 1
  BY DEF r
<1> HIDE DEF r, m
<1>3. ASSUME NEW n \in 1..m PROVE At(n) \in M /\ r[At(n)] = n - 1
  BY <1>1
<1>4. ASSUME NEW i \in M PROVE \E n \in 1..m : At(n) = i
  <2>1. r[i] + 1 \in 1..m
    BY <1>1
  <2>2. At(r[i] + 1) \in M /\ r[At(r[i] + 1)] = r[i]
    BY <1>1, <1>3, <2>1
  <2>3. At(r[i] + 1) = i
    BY <1>1, <2>2
  <2> QED
    BY <2>1, <2>3
<1> HIDE DEF At
<1>5. {At(n) : n \in 1..m} = M
  BY <1>3, <1>4
<1> QED
  BY <1>2, <1>5 DEF m, At

=============================================================================
