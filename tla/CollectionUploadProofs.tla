----------------------- MODULE CollectionUploadProofs ------------------------
(***************************************************************************)
(* What CollectionUpload keeps whatever the data, its order and its nulls, *)
(* the size of the chunks, and whatever is lost, repeated or sent anew.    *)
(***************************************************************************)
EXTENDS CollectionUpload, OrderTheorems

-----------------------------------------------------------------------------
(* Natural keys are compared like words *)

LEMMA BeforeIsOrder ==
  ASSUME NEW n \in Nat, NEW k \in [1..n -> Int], NEW l \in [1..n -> Int]
  PROVE  /\ ~Before(k, k)
         /\ Before(k, l) => ~Before(l, k)
         /\ k # l => Before(k, l) \/ Before(l, k)
<1>1. ~Before(k, k)
  BY DEF Before
<1>2. ASSUME Before(k, l), Before(l, k) PROVE FALSE
  <2>1. PICK i \in 1..n : k[i] < l[i] /\ \A h \in 1..(i - 1) : k[h] = l[h]
    BY <1>2 DEF Before
  <2>2. PICK j \in 1..n : l[j] < k[j] /\ \A h \in 1..(j - 1) : l[h] = k[h]
    BY <1>2 DEF Before
  <2>3. i = j \/ i \in 1..(j - 1) \/ j \in 1..(i - 1)
    OBVIOUS
  <2> QED
    BY <2>1, <2>2, <2>3
<1>3. ASSUME k # l PROVE Before(k, l) \/ Before(l, k)
  <2> DEFINE D == {i \in 1..n : k[i] # l[i]}
  <2>1. D \in SUBSET Nat /\ D # {}
    BY <1>3
  <2>2. PICK i \in D : \A j \in D : i <= j
    <3> HIDE DEF D
    <3> QED
      BY <2>1, Least
  <2>3. \A h \in 1..(i - 1) : k[h] = l[h]
    BY <2>2
  <2>4. k[i] < l[i] \/ l[i] < k[i]
    OBVIOUS
  <2> QED
    BY <2>3, <2>4 DEF Before
<1> QED
  BY <1>1, <1>2, <1>3

LEMMA BeforeIsTransitive ==
  ASSUME NEW n \in Nat, NEW k \in [1..n -> Int], NEW l \in [1..n -> Int],
         NEW m \in [1..n -> Int], Before(k, l), Before(l, m)
  PROVE  Before(k, m)
<1>1. PICK i \in 1..n : k[i] < l[i] /\ \A h \in 1..(i - 1) : k[h] = l[h]
  BY DEF Before
<1>2. PICK j \in 1..n : l[j] < m[j] /\ \A h \in 1..(j - 1) : l[h] = m[h]
  BY DEF Before
<1>3. CASE i <= j
  <2>1. k[i] < m[i] /\ \A h \in 1..(i - 1) : k[h] = m[h]
    BY <1>1, <1>2, <1>3
  <2> QED
    BY <2>1 DEF Before
<1>4. CASE j < i
  <2>1. k[j] < m[j] /\ \A h \in 1..(j - 1) : k[h] = m[h]
    BY <1>1, <1>2, <1>4
  <2> QED
    BY <2>1 DEF Before
<1> QED
  BY <1>3, <1>4

-----------------------------------------------------------------------------
(* Sorting *)

\* A list of rows that can be sorted by these fields.
Keyed(rows, fields) ==
  /\ Len(rows) \in Nat /\ rows = [i \in 1..Len(rows) |-> rows[i]]
  /\ Len(fields) \in Nat /\ DOMAIN fields = 1..Len(fields)
  /\ \A i \in 1..Len(rows) : SortKey(rows[i], fields) \in [1..Len(fields) -> Int]

AheadOf(rows, fields) ==
  [i \in DOMAIN rows |->
    {j \in DOMAIN rows : \/ Before(SortKey(rows[j], fields), SortKey(rows[i], fields))
                         \/ SortKey(rows[j], fields) = SortKey(rows[i], fields) /\ j < i}]

LEMMA AheadIsOrder ==
  ASSUME NEW rows, NEW fields, Keyed(rows, fields)
  PROVE  TotalOrder(AheadOf(rows, fields), DOMAIN rows)
<1> DEFINE M == DOMAIN rows
           A == AheadOf(rows, fields)
           Key(i) == SortKey(rows[i], fields)
           N == Len(fields)
<1>1. /\ \A i \in M : i \in Int /\ Key(i) \in [1..N -> Int]
      /\ N \in Nat
      /\ \A i \in M : A[i] = {j \in M : Before(Key(j), Key(i)) \/ (Key(j) = Key(i) /\ j < i)}
      /\ A \in [M -> SUBSET M]
  BY DEF Keyed, AheadOf
<1> HIDE DEF M, A, Key, N
<1>2. \A i \in M : i \notin A[i]
  BY <1>1, BeforeIsOrder
<1>3. ASSUME NEW i \in M, NEW j \in M, i \in A[j] PROVE A[i] \subseteq A[j]
  <2> SUFFICES ASSUME NEW h \in A[i] PROVE h \in A[j]
    OBVIOUS
  <2>1. h \in M /\ (Before(Key(h), Key(i)) \/ (Key(h) = Key(i) /\ h < i))
    BY <1>1
  <2>2. Before(Key(i), Key(j)) \/ (Key(i) = Key(j) /\ i < j)
    BY <1>1, <1>3
  <2>3. Before(Key(h), Key(j)) \/ (Key(h) = Key(j) /\ h < j)
    <3>1. CASE Before(Key(h), Key(i)) /\ Before(Key(i), Key(j))
      BY <1>1, <2>1, <3>1, BeforeIsTransitive
    <3>2. CASE Key(h) = Key(i) \/ Key(i) = Key(j)
      BY <1>1, <2>1, <2>2, <3>2
    <3> QED
      BY <2>1, <2>2, <3>1, <3>2
  <2> QED
    BY <1>1, <2>1, <2>3
<1>4. ASSUME NEW i \in M, NEW j \in M, i # j PROVE i \in A[j] \/ j \in A[i]
  <2>1. CASE Key(i) = Key(j)
    BY <1>1, <1>4, <2>1
  <2>2. CASE Key(i) # Key(j)
    BY <1>1, <2>2, BeforeIsOrder
  <2> QED
    BY <2>1, <2>2
<1>5. \A i, j \in M : i # j =>
        \/ i \in A[j] /\ A[i] \subseteq A[j]
        \/ j \in A[i] /\ A[j] \subseteq A[i]
  BY <1>3, <1>4
<1>6. TotalOrder(A, M)
  BY <1>1, <1>2, <1>5 DEF TotalOrder
<1> QED
  BY <1>6 DEF A, M

\* A list with the same N rows, each once, in the place A gives it.
Placed(sorted, rows, A, N) ==
  /\ sorted = [n \in 1..N |-> sorted[n]]
  /\ \E at \in [1..N -> 1..N] :
       /\ \A n \in 1..N : sorted[n] = rows[at[n]] /\ Cardinality(A[at[n]]) = n - 1
       /\ \A i \in 1..N : \E n \in 1..N : at[n] = i
       /\ \A m, n \in 1..N : at[m] = at[n] => m = n

\* Sorting keeps the rows, and puts none of them before an earlier one.
LEMMA SortSorts ==
  ASSUME NEW rows, NEW fields, Keyed(rows, fields)
  PROVE  /\ Placed(SortRows(rows, fields), rows, AheadOf(rows, fields), Len(rows))
         /\ \A m, n \in 1..Len(rows) :
              m < n => ~Before(SortKey(SortRows(rows, fields)[n], fields),
                               SortKey(SortRows(rows, fields)[m], fields))
<1> DEFINE N == Len(rows)
           M == DOMAIN rows
           A == AheadOf(rows, fields)
           sorted == SortRows(rows, fields)
           At(n) == CHOOSE i \in M : Cardinality(A[i]) = n - 1
           at == [n \in 1..N |-> At(n)]
           Key(i) == SortKey(rows[i], fields)
<1>1. N \in Nat /\ M = 1..N
  BY DEF Keyed
<1>2. /\ sorted = [n \in 1..N |-> rows[At(n)]]
  BY <1>1 DEF SortRows, AheadOf
<1>3. IsFiniteSet(M) /\ Cardinality(M) = N
  <2>1. N \in Int /\ 1 \in Int
    BY <1>1
  <2>2. IsFiniteSet(1..N) /\ Cardinality(1..N) = N
    <3> HIDE DEF N
    <3> QED
      BY <1>1, <2>1, FS_Interval
  <2> QED
    BY <1>1, <2>2
<1>4. TotalOrder(A, M)
  BY AheadIsOrder
<1>5. /\ \A i, j \in M : Cardinality(A[i]) = Cardinality(A[j]) => i = j
      /\ \A n \in 0..(N - 1) : \E i \in M : Cardinality(A[i]) = n
      /\ \A i, j \in M : Cardinality(A[i]) < Cardinality(A[j]) => i \in A[j]
      /\ [i \in M |-> Cardinality(A[i])] \in [M -> 0..(N - 1)]
  <2> HIDE DEF A, M, N
  <2> QED
    BY <1>3, <1>4, RankBijection
<1>6. /\ \A i, j \in M : i \in A[j] => Before(Key(i), Key(j)) \/ Key(i) = Key(j)
      /\ \A i \in M : Key(i) \in [1..Len(fields) -> Int]
      /\ Len(fields) \in Nat
  BY DEF AheadOf, Keyed
<1> HIDE DEF M, A, sorted, N
<1>7. ASSUME NEW n \in 1..N PROVE At(n) \in M /\ Cardinality(A[At(n)]) = n - 1
  <2>1. \E i \in M : Cardinality(A[i]) = n - 1
    BY <1>1, <1>5
  <2> QED
    BY <2>1
<1>8. at \in [1..N -> 1..N]
  BY <1>1, <1>7
<1>9. \A i \in 1..N : \E n \in 1..N : at[n] = i
  <2> SUFFICES ASSUME NEW i \in 1..N PROVE \E n \in 1..N : at[n] = i
    OBVIOUS
  <2>1. Cardinality(A[i]) \in 0..(N - 1)
    BY <1>1, <1>5
  <2>2. Cardinality(A[i]) + 1 \in 1..N
    BY <1>1, <2>1
  <2>3. At(Cardinality(A[i]) + 1) \in M /\ Cardinality(A[At(Cardinality(A[i]) + 1)]) = Cardinality(A[i])
    BY <1>7, <2>1, <2>2
  <2>4. At(Cardinality(A[i]) + 1) = i
    <3> HIDE DEF At
    <3> QED
      BY <1>1, <1>5, <2>3
  <2> QED
    BY <2>2, <2>4
<1>10. \A m, n \in 1..N : at[m] = at[n] => m = n
  BY <1>1, <1>7
<1>11. \A m, n \in 1..N : m < n => ~Before(Key(at[n]), Key(at[m]))
  <2> SUFFICES ASSUME NEW m \in 1..N, NEW n \in 1..N, m < n
               PROVE  ~Before(Key(at[n]), Key(at[m]))
    OBVIOUS
  <2>1. at[m] \in M /\ at[n] \in M /\ at[m] \in A[at[n]]
    <3>1. Cardinality(A[at[m]]) = m - 1 /\ Cardinality(A[at[n]]) = n - 1
      BY <1>7
    <3>2. m - 1 < n - 1
      BY <1>1
    <3>3. at[m] \in M /\ at[n] \in M
      BY <1>1, <1>8
    <3> HIDE DEF at
    <3> QED
      BY <1>5, <3>1, <3>2, <3>3
  <2>2. Before(Key(at[m]), Key(at[n])) \/ Key(at[m]) = Key(at[n])
    BY <1>6, <2>1
  <2> HIDE DEF Key, at
  <2> QED
    BY <1>6, <2>1, <2>2, BeforeIsOrder
<1>12. \A n \in 1..N : sorted[n] = rows[at[n]] /\ Cardinality(A[at[n]]) = n - 1
  BY <1>2, <1>7
<1>13. sorted = [n \in 1..N |-> sorted[n]]
  BY <1>2
<1> HIDE DEF at
<1>14. \A m, n \in 1..N :
         m < n => ~Before(SortKey(sorted[n], fields), SortKey(sorted[m], fields))
  BY <1>11, <1>12
<1>15. Placed(sorted, rows, A, N)
  BY <1>8, <1>9, <1>10, <1>12, <1>13 DEF Placed
<1> QED
  BY <1>14, <1>15 DEF A, sorted, N

\* Rows that are in order stay where they are.
LEMMA SortedStay ==
  ASSUME NEW rows, NEW fields, Keyed(rows, fields),
         \A m, n \in 1..Len(rows) :
           m < n => ~Before(SortKey(rows[n], fields), SortKey(rows[m], fields))
  PROVE  SortRows(rows, fields) = rows
<1> DEFINE N == Len(rows)
           A == AheadOf(rows, fields)
           sorted == SortRows(rows, fields)
           Key(i) == SortKey(rows[i], fields)
<1>1. N \in Nat /\ DOMAIN rows = 1..N
  BY DEF Keyed
<1>2. \A i \in 1..N : A[i] = 1..(i - 1)
  <2> SUFFICES ASSUME NEW i \in 1..N, NEW j \in 1..N PROVE j \in A[i] <=> j < i
    BY <1>1 DEF AheadOf
  <2>1. /\ A[i] = {h \in 1..N : Before(Key(h), Key(i)) \/ (Key(h) = Key(i) /\ h < i)}
        /\ Key(i) \in [1..Len(fields) -> Int] /\ Key(j) \in [1..Len(fields) -> Int]
        /\ Len(fields) \in Nat
    BY <1>1 DEF AheadOf, Keyed
  <2>2. j < i => ~Before(Key(i), Key(j))
    OBVIOUS
  <2>3. i < j => ~Before(Key(j), Key(i))
    OBVIOUS
  <2> HIDE DEF A, Key, N
  <2>4. i = j => ~Before(Key(j), Key(i))
    BY <2>1, BeforeIsOrder
  <2>5. j < i => Before(Key(j), Key(i)) \/ Key(j) = Key(i)
    BY <2>1, <2>2, BeforeIsOrder
  <2>6. j < i \/ i < j \/ i = j
    BY <1>1
  <2> QED
    BY <1>1, <2>1, <2>3, <2>4, <2>5, <2>6
<1>3. \A i \in 1..N : Cardinality(A[i]) = i - 1
  <2> SUFFICES ASSUME NEW i \in 1..N PROVE Cardinality(1..(i - 1)) = i - 1
    BY <1>2
  <2>1. i - 1 \in Int /\ 1 \in Int
    OBVIOUS
  <2>2. Cardinality(1..(i - 1)) = IF 1 > i - 1 THEN 0 ELSE (i - 1) - 1 + 1
    BY <2>1, FS_Interval, Zenon
  <2> QED
    BY <2>2
<1>4. Placed(sorted, rows, A, N)
  BY SortSorts
<1>5. rows = [n \in 1..N |-> rows[n]]
  BY DEF Keyed
<1> HIDE DEF sorted, N, A
<1>6. PICK at \in [1..N -> 1..N] :
        \A n \in 1..N : sorted[n] = rows[at[n]] /\ Cardinality(A[at[n]]) = n - 1
  BY <1>4 DEF Placed
<1>7. ASSUME NEW n \in 1..N PROVE at[n] = n
  <2>1. at[n] \in 1..N /\ Cardinality(A[at[n]]) = n - 1
    BY <1>6
  <2>2. Cardinality(A[at[n]]) = at[n] - 1
    BY <1>3, <2>1
  <2> QED
    BY <1>1, <2>1, <2>2
<1>8. \A n \in 1..N : sorted[n] = rows[n]
  BY <1>6, <1>7
<1>9. sorted = rows
  BY <1>4, <1>5, <1>8 DEF Placed
<1> QED
  BY <1>9 DEF sorted

\* A set of rows that are found by these fields, which are numbers.
KeyedSet(S, fields) ==
  /\ IsFiniteSet(S)
  /\ Len(fields) \in Nat /\ DOMAIN fields = 1..Len(fields)
  /\ \A r \in S : SortKey(r, fields) \in [1..Len(fields) -> Int]
  /\ \A r, s \in S : SortKey(r, fields) = SortKey(s, fields) => r = s

RowsBefore(S, fields) ==
  [r \in S |-> {s \in S : Before(SortKey(s, fields), SortKey(r, fields))}]

\* The rows in the order of their keys.
Ranked(S, fields) ==
  [n \in 1..Cardinality(S) |-> CHOOSE r \in S : Cardinality(RowsBefore(S, fields)[r]) = n - 1]

LEMMA RowsBeforeIsOrder ==
  ASSUME NEW S, NEW fields, KeyedSet(S, fields)
  PROVE  TotalOrder(RowsBefore(S, fields), S)
<1> DEFINE A == RowsBefore(S, fields)
           Key(i) == SortKey(i, fields)
           N == Len(fields)
<1>1. /\ \A i \in S : Key(i) \in [1..N -> Int]
      /\ \A i, j \in S : Key(i) = Key(j) => i = j
      /\ N \in Nat
      /\ \A i \in S : A[i] = {j \in S : Before(Key(j), Key(i))}
      /\ A \in [S -> SUBSET S]
  BY DEF KeyedSet, RowsBefore
<1> HIDE DEF A, Key, N
<1>2. \A i \in S : i \notin A[i]
  BY <1>1, BeforeIsOrder
<1>3. ASSUME NEW i \in S, NEW j \in S, i \in A[j] PROVE A[i] \subseteq A[j]
  <2> SUFFICES ASSUME NEW h \in A[i] PROVE h \in A[j]
    OBVIOUS
  <2>1. h \in S /\ Before(Key(h), Key(i)) /\ Before(Key(i), Key(j))
    BY <1>1, <1>3
  <2>2. Before(Key(h), Key(j))
    BY <1>1, <2>1, BeforeIsTransitive
  <2> QED
    BY <1>1, <2>1, <2>2
<1>4. ASSUME NEW i \in S, NEW j \in S, i # j PROVE i \in A[j] \/ j \in A[i]
  BY <1>1, <1>4, BeforeIsOrder
<1>5. TotalOrder(A, S)
  BY <1>1, <1>2, <1>3, <1>4 DEF TotalOrder
<1> QED
  BY <1>5 DEF A

\* However a set of rows is listed, sorting gives the same list.
LEMMA SortRanks ==
  ASSUME NEW S, NEW fields, KeyedSet(S, fields),
         NEW s \in [1..Cardinality(S) -> S], \A i, j \in DOMAIN s : s[i] = s[j] => i = j
  PROVE  SortRows(s, fields) = Ranked(S, fields)
<1> DEFINE N == Cardinality(S)
           A == AheadOf(s, fields)
           B == RowsBefore(S, fields)
           Key(r) == SortKey(r, fields)
           sorted == SortRows(s, fields)
<1>1. N \in Nat /\ IsFiniteSet(S)
  BY FS_CardinalityType DEF KeyedSet
<1>2. Keyed(s, fields) /\ Len(s) = N /\ DOMAIN s = 1..N
  BY <1>1 DEF Keyed, KeyedSet
<1>3. \A r \in S : \E i \in 1..N : s[i] = r
  <2> DEFINE T == 1..N
  <2>1. IsFiniteSet(T) /\ Cardinality(T) = N
    <3>1. 1 \in Int /\ N \in Int
      BY <1>1
    <3> HIDE DEF N
    <3> QED
      BY <1>1, <3>1, FS_Interval
  <2>2. s \in Injection(T, S)
    BY <1>2 DEF Injection, IsInjective
  <2>3. Cardinality(T) = Cardinality(S)
    BY <2>1
  <2> HIDE DEF T
  <2>4. s \in Surjection(T, S)
    BY <1>1, <2>1, <2>2, <2>3, FS_Injection
  <2> QED
    BY <2>4 DEF Surjection, T
<1>4. \A i \in 1..N : Cardinality(A[i]) = Cardinality(B[s[i]]) /\ s[i] \in S
  <2> SUFFICES ASSUME NEW i \in 1..N PROVE Cardinality(A[i]) = Cardinality(B[s[i]])
    BY <1>1
  <2>1. A[i] = {j \in 1..N : Before(Key(s[j]), Key(s[i])) \/ (Key(s[j]) = Key(s[i]) /\ j < i)}
    BY <1>2 DEF AheadOf
  <2>2. B[s[i]] = {r \in S : Before(Key(r), Key(s[i]))}
    BY <1>1 DEF RowsBefore
  <2>3. \A j \in 1..N : s[j] \in S /\ (Key(s[j]) = Key(s[i]) => ~(j < i))
    BY <1>1, <1>2 DEF KeyedSet
  <2>4. (\A j \in A[i] : s[j] \in B[s[i]]) /\ \A r \in B[s[i]] : \E j \in A[i] : r = s[j]
    <3> HIDE DEF A, B, Key
    <3>1. \A j \in A[i] : s[j] \in B[s[i]]
      BY <2>1, <2>2, <2>3
    <3>2. \A r \in B[s[i]] : \E j \in A[i] : r = s[j]
      BY <1>3, <2>1, <2>2
    <3> QED
      BY <3>1, <3>2
  <2>5. IsFiniteSet(A[i]) /\ \A j, k \in A[i] : s[j] = s[k] => j = k
    <3>1. IsFiniteSet(1..N)
      <4>1. 1 \in Int /\ N \in Int
        BY <1>1
      <4> QED
        BY <4>1, FS_Interval, Zenon
    <3>2. A[i] \in SUBSET (1..N)
      BY <2>1
    <3>3. IsFiniteSet(A[i])
      <4> HIDE DEF A
      <4> QED
        BY <3>1, <3>2, FS_Subset
    <3> QED
      BY <1>2, <3>2, <3>3
  <2> DEFINE C == A[i]
             D == B[s[i]]
  <2>6. /\ IsFiniteSet(C) /\ \A j, k \in C : s[j] = s[k] => j = k
        /\ \A j \in C : s[j] \in D
        /\ \A r \in D : \E j \in C : r = s[j]
    BY <2>4, <2>5
  <2> HIDE DEF C, D
  <2>7. Cardinality(D) = Cardinality(C)
    BY <2>6, Renamed
  <2> QED
    BY <2>7 DEF C, D
<1>5. \A q, r \in S : Cardinality(B[q]) = Cardinality(B[r]) => q = r
  <2>1. TotalOrder(B, S)
    BY RowsBeforeIsOrder
  <2> HIDE DEF B
  <2> QED
    BY <1>1, <2>1, RankBijection
<1>6. Placed(sorted, s, A, N)
  <2>1. Placed(sorted, s, A, Len(s))
    BY <1>2, SortSorts
  <2> QED
    BY <1>2, <2>1
<1> DEFINE At(n) == CHOOSE r \in S : Cardinality(B[r]) = n - 1
<1> HIDE DEF sorted, A, B, N
<1>7. PICK at \in [1..N -> 1..N] :
        \A n \in 1..N : sorted[n] = s[at[n]] /\ Cardinality(A[at[n]]) = n - 1
  BY <1>6 DEF Placed
<1>8. ASSUME NEW n \in 1..N PROVE sorted[n] = At(n)
  <2>1. at[n] \in 1..N
    BY <1>7
  <2>2. sorted[n] \in S /\ Cardinality(B[sorted[n]]) = n - 1
    BY <1>4, <1>7, <2>1
  <2> QED
    BY <1>5, <2>2
<1>9. sorted = [n \in 1..N |-> At(n)]
  BY <1>6, <1>8 DEF Placed
<1> QED
  BY <1>9 DEF Ranked, sorted, B, N

\* It has all the rows, in order.
LEMMA RankedIsSorted ==
  ASSUME NEW S, NEW fields, KeyedSet(S, fields)
  PROVE  LET rows == Ranked(S, fields)
         IN /\ Keyed(rows, fields) /\ Len(rows) = Cardinality(S)
            /\ Range(rows) = S
            /\ \A m, n \in 1..Len(rows) :
                 m < n => Before(SortKey(rows[m], fields), SortKey(rows[n], fields))
<1> DEFINE N == Cardinality(S)
           B == RowsBefore(S, fields)
           rows == Ranked(S, fields)
           At(n) == CHOOSE r \in S : Cardinality(B[r]) = n - 1
<1>1. N \in Nat /\ IsFiniteSet(S)
  BY FS_CardinalityType DEF KeyedSet
<1>2. /\ \A q, r \in S : Cardinality(B[q]) = Cardinality(B[r]) => q = r
      /\ \A n \in 0..(N - 1) : \E r \in S : Cardinality(B[r]) = n
      /\ \A q, r \in S : Cardinality(B[q]) < Cardinality(B[r]) => q \in B[r]
      /\ {At(n) : n \in 1..N} = S
  <2>1. TotalOrder(B, S)
    BY RowsBeforeIsOrder
  <2> HIDE DEF B
  <2> QED
    BY <1>1, <2>1, RankBijection, RankedList
<1>3. rows = [n \in 1..N |-> At(n)]
  BY DEF Ranked
<1>4. \A q, r \in S : q \in B[r] => Before(SortKey(q, fields), SortKey(r, fields))
  BY DEF RowsBefore
<1>5. \A r \in S : SortKey(r, fields) \in [1..Len(fields) -> Int]
  BY DEF KeyedSet
<1>6. Len(fields) \in Nat /\ DOMAIN fields = 1..Len(fields)
  BY DEF KeyedSet
<1> HIDE DEF rows, B, N
<1>7. ASSUME NEW n \in 1..N PROVE rows[n] \in S /\ Cardinality(B[rows[n]]) = n - 1
  <2>1. \E r \in S : Cardinality(B[r]) = n - 1
    BY <1>1, <1>2
  <2> QED
    BY <1>3, <2>1
<1> HIDE DEF At
<1>8. Range(rows) = S
  BY <1>2, <1>3 DEF Range
<1>9. Len(rows) = N /\ DOMAIN rows = 1..N /\ rows = [n \in 1..N |-> rows[n]]
  BY <1>1, <1>3
<1>10. ASSUME NEW m \in 1..N, NEW n \in 1..N, m < n PROVE rows[m] \in B[rows[n]]
  <2>1. /\ rows[m] \in S /\ Cardinality(B[rows[m]]) = m - 1
        /\ rows[n] \in S /\ Cardinality(B[rows[n]]) = n - 1
    BY <1>7
  <2>2. m - 1 < n - 1
    BY <1>1, <1>10
  <2> QED
    BY <1>2, <2>1, <2>2
<1>11. Keyed(rows, fields)
  BY <1>1, <1>5, <1>6, <1>7, <1>9 DEF Keyed
<1>12. \A m, n \in 1..N :
         m < n => Before(SortKey(rows[m], fields), SortKey(rows[n], fields))
  BY <1>4, <1>7, <1>10
<1> QED
  BY <1>8, <1>9, <1>11, <1>12 DEF rows, N

-----------------------------------------------------------------------------
(* One canonical form for a state of the data *)

Names == DOMAIN CollectionSortKeys

Canon(data) ==
  [name \in DOMAIN data |->
     IF IsCollection(name) THEN Ranked(data[name], CollectionSortKeys[name]) ELSE data[name]]

LEMMA NamesAreFour ==
  /\ Names = {"schools", "subjects", "students", "marks"}
  /\ \A name \in Names : /\ Len(CollectionSortKeys[name]) \in Nat
                         /\ DOMAIN CollectionSortKeys[name] = 1..Len(CollectionSortKeys[name])
<1>1. Names = {"schools", "subjects", "students", "marks"}
  BY DEF Names, CollectionSortKeys
<1>2. /\ CollectionSortKeys["schools"] = <<"centre_number">>
      /\ CollectionSortKeys["subjects"] = <<"subject_code">>
      /\ CollectionSortKeys["students"] = <<"centre_number", "student_id">>
      /\ CollectionSortKeys["marks"] = <<"centre_number", "student_id", "subject_code">>
  BY DEF CollectionSortKeys
<1> QED
  BY <1>1, <1>2

LEMMA DataIsKeyed ==
  ASSUME NEW data, WellKept(data), NEW name \in Names
  PROVE  /\ name \in DOMAIN data
         /\ KeyedSet(data[name], CollectionSortKeys[name])
         /\ \A r \in data[name] : DropNulls(r) = r
<1> DEFINE fields == CollectionSortKeys[name]
           S == data[name]
<1>1. /\ name \in DOMAIN data /\ IsFiniteSet(S)
      /\ \A r \in S : /\ DropNulls(r) = r
                      /\ \A i \in DOMAIN SortKey(r, fields) : SortKey(r, fields)[i] \in Nat
      /\ \A r, s \in S : SortKey(r, fields) = SortKey(s, fields) => r = s
  BY DEF WellKept, Names
<1>2. Len(fields) \in Nat /\ DOMAIN fields = 1..Len(fields)
  BY NamesAreFour
<1> HIDE DEF fields, S
<1>3. ASSUME NEW r \in S PROVE SortKey(r, fields) \in [1..Len(fields) -> Int]
  <2> DEFINE k == SortKey(r, fields)
  <2>1. k = [i \in 1..Len(fields) |-> k[i]]
    BY <1>2 DEF SortKey
  <2>2. \A i \in 1..Len(fields) : k[i] \in Int
    <3>1. \A i \in DOMAIN k : k[i] \in Nat
      BY <1>1
    <3> HIDE DEF k
    <3> QED
      BY <2>1, <3>1
  <2> HIDE DEF k
  <2>3. k \in [1..Len(fields) -> Int]
    BY <2>1, <2>2
  <2> QED
    BY <2>3 DEF k
<1>4. KeyedSet(S, fields)
  BY <1>1, <1>2, <1>3 DEF KeyedSet
<1> QED
  BY <1>1, <1>4 DEF S, fields

\* Whether a null is omitted or explicit does not show.
LEMMA NullsDropped ==
  ASSUME NEW r, DropNulls(r) = r
  PROVE  DropNulls(WithNull(r)) = r
<1> DEFINE x == WithNull(r)
<1>1. r = [f \in DOMAIN r |-> r[f]] /\ \A f \in DOMAIN r : r[f] # None
  BY DEF DropNulls
<1>2. /\ DOMAIN x = DOMAIN r \cup {"middle_name"}
      /\ \A f \in DOMAIN r : x[f] = r[f]
      /\ \A f \in DOMAIN x : f \notin DOMAIN r => x[f] = None
  BY DEF WithNull
<1> HIDE DEF x
<1>3. {f \in DOMAIN x : x[f] # None} = DOMAIN r
  BY <1>1, <1>2
<1>4. DropNulls(x) = [f \in DOMAIN r |-> x[f]]
  BY <1>3 DEF DropNulls
<1>5. DropNulls(x) = r
  BY <1>1, <1>2, <1>4
<1> QED
  BY <1>5 DEF x

LEMMA QueriedIsSorted ==
  ASSUME NEW data, WellKept(data), NEW name \in Names,
         NEW nulls \in BOOLEAN, NEW rows \in Queried(data[name], nulls)
  PROVE  SortRows([i \in DOMAIN rows |-> DropNulls(rows[i])], CollectionSortKeys[name])
           = Ranked(data[name], CollectionSortKeys[name])
<1> DEFINE S == data[name]
           fields == CollectionSortKeys[name]
<1>1. KeyedSet(S, fields) /\ \A r \in S : DropNulls(r) = r
  BY DataIsKeyed
<1> HIDE DEF S, fields
<1>2. PICK s \in [1..Cardinality(S) -> S] :
        /\ \A i, j \in DOMAIN s : s[i] = s[j] => i = j
        /\ rows = [i \in DOMAIN s |-> IF nulls THEN WithNull(s[i]) ELSE s[i]]
  BY DEF Queried, S
<1>3. \A i \in DOMAIN s : DropNulls(rows[i]) = s[i]
  BY <1>1, <1>2, NullsDropped
<1>4. [i \in DOMAIN rows |-> DropNulls(rows[i])] = s
  BY <1>2, <1>3
<1>5. SortRows(s, fields) = Ranked(S, fields)
  BY <1>1, <1>2, SortRanks
<1> QED
  BY <1>4, <1>5 DEF S, fields

\* Whatever order and nulls a query returns, the canonical form is that of the state.
THEOREM OneCanonicalForm ==
  ASSUME NEW data, WellKept(data), NEW payload \in Payloads(data)
  PROVE  CanonicalCollection(payload) = Canon(data)
<1>1. PICK nulls \in BOOLEAN : payload \in PayloadsWith(data, nulls)
  BY DEF Payloads
<1>2. PICK rows \in [schools  : Queried(data.schools, nulls),
                     subjects : Queried(data.subjects, nulls),
                     students : Queried(data.students, nulls),
                     marks    : Queried(data.marks, nulls)] :
        payload = [name \in DOMAIN data |-> IF IsCollection(name) THEN rows[name] ELSE data[name]]
  BY <1>1 DEF PayloadsWith
<1>3. \A name \in Names : rows[name] \in Queried(data[name], nulls)
  <2>1. /\ rows["schools"] \in Queried(data["schools"], nulls)
        /\ rows["subjects"] \in Queried(data["subjects"], nulls)
        /\ rows["students"] \in Queried(data["students"], nulls)
        /\ rows["marks"] \in Queried(data["marks"], nulls)
    BY <1>2
  <2> QED
    BY <2>1, NamesAreFour
<1>4. ASSUME NEW name \in DOMAIN data, IsCollection(name)
      PROVE  SortRows([i \in DOMAIN payload[name] |-> DropNulls(payload[name][i])],
                      CollectionSortKeys[name])
               = Ranked(data[name], CollectionSortKeys[name])
  <2>1. name \in Names /\ payload[name] = rows[name]
    BY <1>2, <1>4 DEF IsCollection, Names
  <2> QED
    BY <1>3, <2>1, QueriedIsSorted
<1>5. DOMAIN payload = DOMAIN data
      /\ \A name \in DOMAIN data : ~IsCollection(name) => payload[name] = data[name]
  BY <1>2
<1> QED
  BY <1>4, <1>5 DEF CanonicalCollection, Canon

-----------------------------------------------------------------------------
(* What is canonical already *)

\* The rows there may ever be in a collection.
AllRows(name) == UNION {Versions[v][name] : v \in DOMAIN Versions}

InOrder(rows, fields) ==
  \A m, n \in DOMAIN rows :
    m < n => ~Before(SortKey(rows[n], fields), SortKey(rows[m], fields))

HasLists(payload) ==
  /\ payload = [name \in DOMAIN payload |-> payload[name]]
  /\ \A name \in DOMAIN payload \cap Names : payload[name] \in Seq(AllRows(name))

IsCanonical(payload) ==
  /\ HasLists(payload)
  /\ \A name \in DOMAIN payload \cap Names : InOrder(payload[name], CollectionSortKeys[name])

LEMMA ListIsKeyed ==
  ASSUME NEW name \in Names, NEW rows \in Seq(AllRows(name))
  PROVE  /\ Keyed(rows, CollectionSortKeys[name])
         /\ [i \in DOMAIN rows |-> DropNulls(rows[i])] = rows
<1> DEFINE fields == CollectionSortKeys[name]
<1>1. ASSUME NEW r \in AllRows(name)
      PROVE  DropNulls(r) = r /\ SortKey(r, fields) \in [1..Len(fields) -> Int]
  <2>1. PICK v \in DOMAIN Versions : r \in Versions[v][name]
    BY DEF AllRows
  <2>2. WellKept(Versions[v])
    BY DataAssumption
  <2> QED
    BY <2>1, <2>2, DataIsKeyed DEF KeyedSet
<1>2. Len(fields) \in Nat /\ DOMAIN fields = 1..Len(fields)
  BY NamesAreFour
<1> HIDE DEF fields
<1>3. /\ Len(rows) \in Nat /\ rows = [i \in 1..Len(rows) |-> rows[i]]
      /\ \A i \in 1..Len(rows) : rows[i] \in AllRows(name)
  OBVIOUS
<1>4. Keyed(rows, fields)
  BY <1>1, <1>2, <1>3 DEF Keyed
<1>5. [i \in DOMAIN rows |-> DropNulls(rows[i])] = rows
  BY <1>1, <1>3
<1> QED
  BY <1>4, <1>5 DEF fields

LEMMA CanonicalStays ==
  ASSUME NEW payload, IsCanonical(payload)
  PROVE  CanonicalCollection(payload) = payload
<1>1. ASSUME NEW name \in DOMAIN payload, IsCollection(name)
      PROVE  SortRows([i \in DOMAIN payload[name] |-> DropNulls(payload[name][i])],
                      CollectionSortKeys[name]) = payload[name]
  <2> DEFINE rows == payload[name]
             fields == CollectionSortKeys[name]
  <2>1. name \in Names /\ rows \in Seq(AllRows(name)) /\ InOrder(rows, fields)
    BY <1>1 DEF IsCanonical, HasLists, IsCollection, Names
  <2>2. Keyed(rows, fields) /\ [i \in DOMAIN rows |-> DropNulls(rows[i])] = rows
    BY <2>1, ListIsKeyed
  <2>3. DOMAIN rows = 1..Len(rows)
    BY <2>1
  <2> HIDE DEF rows, fields
  <2>4. SortRows(rows, fields) = rows
    BY <2>1, <2>2, <2>3, SortedStay DEF InOrder
  <2> QED
    BY <2>2, <2>4 DEF rows, fields
<1>2. payload = [name \in DOMAIN payload |-> payload[name]]
  BY DEF IsCanonical, HasLists
<1> QED
  BY <1>1, <1>2 DEF CanonicalCollection

LEMMA CanonicalIsCanonical ==
  ASSUME NEW payload, HasLists(payload)
  PROVE  IsCanonical(CanonicalCollection(payload))
<1> DEFINE canonical == CanonicalCollection(payload)
<1>1. ASSUME NEW name \in DOMAIN payload \cap Names
      PROVE  /\ canonical[name] \in Seq(AllRows(name))
             /\ InOrder(canonical[name], CollectionSortKeys[name])
  <2> DEFINE rows == payload[name]
             fields == CollectionSortKeys[name]
             sorted == SortRows(rows, fields)
  <2>1. rows \in Seq(AllRows(name))
    BY DEF HasLists
  <2>2. Keyed(rows, fields) /\ [i \in DOMAIN rows |-> DropNulls(rows[i])] = rows
    BY <2>1, ListIsKeyed
  <2>3. canonical[name] = sorted
    BY <2>2 DEF CanonicalCollection, IsCollection, Names
  <2> HIDE DEF rows, fields
  <2>4. /\ Placed(sorted, rows, AheadOf(rows, fields), Len(rows))
        /\ \A m, n \in 1..Len(rows) :
             m < n => ~Before(SortKey(sorted[n], fields), SortKey(sorted[m], fields))
    BY <2>2, SortSorts
  <2> HIDE DEF sorted, canonical
  <2>5. PICK at \in [1..Len(rows) -> 1..Len(rows)] :
          \A n \in 1..Len(rows) : sorted[n] = rows[at[n]]
    BY <2>4 DEF Placed
  <2>6. /\ sorted = [n \in 1..Len(rows) |-> sorted[n]] /\ Len(rows) \in Nat
        /\ \A n \in 1..Len(rows) : sorted[n] \in AllRows(name)
    <3>1. sorted = [n \in 1..Len(rows) |-> sorted[n]]
      BY <2>4 DEF Placed
    <3>2. ASSUME NEW n \in 1..Len(rows) PROVE sorted[n] \in AllRows(name)
      <4>1. sorted[n] = rows[at[n]] /\ at[n] \in 1..Len(rows)
        BY <2>5
      <4> QED
        BY <2>1, <4>1
    <3> QED
      BY <2>1, <3>1, <3>2
  <2>7. sorted \in Seq(AllRows(name)) /\ DOMAIN sorted = 1..Len(rows)
    BY <2>6
  <2>8. InOrder(sorted, fields)
    BY <2>4, <2>7 DEF InOrder
  <2> QED
    BY <2>3, <2>7, <2>8 DEF fields
<1>2. DOMAIN canonical = DOMAIN payload
      /\ canonical = [name \in DOMAIN canonical |-> canonical[name]]
  BY DEF CanonicalCollection
<1>3. IsCanonical(canonical)
  <2> HIDE DEF canonical
  <2> QED
    BY <1>1, <1>2 DEF IsCanonical, HasLists
<1> QED
  BY <1>3 DEF canonical

LEMMA CanonIsCanonical ==
  ASSUME NEW v \in DOMAIN Versions
  PROVE  LET data == Versions[v]
         IN /\ IsCanonical(Canon(data)) /\ IsStateOf(Canon(data), data)
            /\ Names \subseteq DOMAIN Canon(data)
<1> DEFINE data == Versions[v]
           canonical == Canon(data)
<1>1. WellKept(data)
  BY DataAssumption
<1>2. ASSUME NEW name \in Names
      PROVE  /\ name \in DOMAIN data
             /\ canonical[name] \in Seq(AllRows(name))
             /\ InOrder(canonical[name], CollectionSortKeys[name])
             /\ Range(canonical[name]) = data[name]
             /\ Len(canonical[name]) = Cardinality(data[name])
  <2> DEFINE S == data[name]
             fields == CollectionSortKeys[name]
             rows == Ranked(S, fields)
  <2>1. KeyedSet(S, fields) /\ name \in DOMAIN data
    BY <1>1, DataIsKeyed
  <2>2. canonical[name] = rows
    BY <2>1 DEF Canon, IsCollection, Names
  <2>3. S \subseteq AllRows(name)
    BY DEF AllRows
  <2> HIDE DEF S, fields, canonical
  <2>4. /\ Keyed(rows, fields) /\ Len(rows) = Cardinality(S)
        /\ Range(rows) = S
        /\ \A m, n \in 1..Len(rows) :
             m < n => Before(SortKey(rows[m], fields), SortKey(rows[n], fields))
    BY <2>1, RankedIsSorted
  <2> HIDE DEF rows
  <2>5. /\ Len(rows) \in Nat /\ rows = [i \in 1..Len(rows) |-> rows[i]] /\ Len(fields) \in Nat
        /\ \A i \in 1..Len(rows) : SortKey(rows[i], fields) \in [1..Len(fields) -> Int]
    BY <2>4 DEF Keyed
  <2>6. \A i \in 1..Len(rows) : rows[i] \in S
    BY <2>4, <2>5 DEF Range
  <2>7. rows \in Seq(AllRows(name)) /\ DOMAIN rows = 1..Len(rows)
    BY <2>3, <2>5, <2>6
  <2>8. InOrder(rows, fields)
    <3> SUFFICES ASSUME NEW m \in 1..Len(rows), NEW n \in 1..Len(rows), m < n
                 PROVE  ~Before(SortKey(rows[n], fields), SortKey(rows[m], fields))
      BY <2>7 DEF InOrder
    <3>1. Before(SortKey(rows[m], fields), SortKey(rows[n], fields))
      BY <2>4
    <3> QED
      BY <2>5, <3>1, BeforeIsOrder
  <2> QED
    BY <2>1, <2>2, <2>4, <2>7, <2>8 DEF S, fields
<1>3. /\ DOMAIN canonical = DOMAIN data
      /\ canonical = [name \in DOMAIN canonical |-> canonical[name]]
      /\ \A name \in DOMAIN data : ~IsCollection(name) => canonical[name] = data[name]
  BY DEF Canon
<1> HIDE DEF canonical, data
<1>4. IsCanonical(canonical)
  BY <1>2, <1>3 DEF IsCanonical, HasLists
<1>5. IsStateOf(canonical, data)
  BY <1>2, <1>3 DEF IsStateOf, IsCollection, Names
<1>6. Names \subseteq DOMAIN canonical
  BY <1>2, <1>3
<1> QED
  BY <1>4, <1>5, <1>6 DEF canonical, data

-----------------------------------------------------------------------------
(* How many rows are drawn *)

LEMMA LessOfTwo ==
  ASSUME NEW a \in Int, NEW b \in Int
  PROVE  Min({a, b}) = (IF a <= b THEN a ELSE b) /\ Max({a, b}) = (IF a <= b THEN b ELSE a)
<1>1. Min({a, b}) = CHOOSE x \in {a, b} : \A y \in {a, b} : x <= y
  BY DEF Min
<1>2. Max({a, b}) = CHOOSE x \in {a, b} : \A y \in {a, b} : x >= y
  BY DEF Max
<1> QED
  BY <1>1, <1>2

\* The rows of the first collections, one collection more at a time.
LEMMA RowsInSteps ==
  ASSUME NEW payload, HasLists(payload), Names \subseteq DOMAIN payload
  PROVE  /\ RowsIn(payload, CollectionNames, 0) = 0
         /\ \A i \in 1..4 :
              /\ CollectionNames[i] \in Names
              /\ Len(payload[CollectionNames[i]]) \in Nat
              /\ RowsIn(payload, CollectionNames, i - 1) \in Nat
              /\ RowsIn(payload, CollectionNames, i)
                   = RowsIn(payload, CollectionNames, i - 1) + Len(payload[CollectionNames[i]])
<1> DEFINE names == CollectionNames
           Count(i, few) ==
             IF i <= few /\ names[i] \in DOMAIN payload THEN Len(payload[names[i]]) ELSE 0
<1>1. names[1] = "schools" /\ names[2] = "subjects" /\ names[3] = "students" /\ names[4] = "marks"
  BY DEF CollectionNames
<1>2. \A i \in 1..4 : names[i] \in Names
  BY <1>1, NamesAreFour
<1>3. \A i \in 1..4 : Len(payload[names[i]]) \in Nat
  BY <1>2 DEF HasLists
<1>4. \A few \in 0..4 :
        RowsIn(payload, names, few) = Count(1, few) + Count(2, few) + Count(3, few) + Count(4, few)
  BY DEF RowsIn
<1> HIDE DEF names
<1> DEFINE L(i) == Len(payload[names[i]])
           In(few) == RowsIn(payload, names, few)
<1>5. \A i \in 1..4 : \A few \in 0..4 : Count(i, few) = IF i <= few THEN L(i) ELSE 0
  BY <1>2
<1>6. /\ \A i \in 1..4 : L(i) \in Nat
      /\ \A few \in 0..4 :
           In(few) = Count(1, few) + Count(2, few) + Count(3, few) + Count(4, few)
  BY <1>3, <1>4
<1> HIDE DEF Count, L, In
<1>7. /\ L(1) \in Nat /\ L(2) \in Nat /\ L(3) \in Nat /\ L(4) \in Nat
      /\ In(0) = 0 /\ In(1) = L(1) /\ In(2) = L(1) + L(2)
      /\ In(3) = L(1) + L(2) + L(3) /\ In(4) = L(1) + L(2) + L(3) + L(4)
  BY <1>5, <1>6
<1>8. ASSUME NEW i \in 1..4
      PROVE  In(i - 1) \in Nat /\ In(i) = In(i - 1) + L(i)
  <2>1. i = 1 \/ i = 2 \/ i = 3 \/ i = 4
    OBVIOUS
  <2> QED
    BY <1>7, <2>1
<1> QED
  BY <1>2, <1>3, <1>7, <1>8 DEF names, L, In

\* Rows are drawn from a collection after all those before it.
LEMMA RowsDrawnIs ==
  ASSUME NEW payload, HasLists(payload), Names \subseteq DOMAIN payload,
         NEW i \in 1..4, NEW drawn \in Nat
  PROVE  LET before == RowsIn(payload, CollectionNames, i - 1)
             length == Len(payload[CollectionNames[i]])
         IN RowsDrawn(payload, CollectionNames, i, drawn)
              = IF drawn <= before THEN 0
                ELSE IF drawn - before >= length THEN length ELSE drawn - before
<1> DEFINE before == RowsIn(payload, CollectionNames, i - 1)
           length == Len(payload[CollectionNames[i]])
<1>1. /\ before \in Nat /\ length \in Nat
      /\ RowsIn(payload, CollectionNames, i) = before + length
  BY RowsInSteps
<1>2. RowsDrawn(payload, CollectionNames, i, drawn)
        = Min({RowsIn(payload, CollectionNames, i) - before, Max({0, drawn - before})})
  BY DEF RowsDrawn
<1> HIDE DEF before, length
<1> DEFINE most == Max({0, drawn - before})
<1>3. most = IF drawn <= before THEN 0 ELSE drawn - before
  <2> DEFINE more == drawn - before
  <2>1. 0 \in Int /\ more \in Int /\ (0 <= more <=> before <= drawn)
    BY <1>1
  <2> HIDE DEF more
  <2>2. Max({0, more}) = IF 0 <= more THEN more ELSE 0
    BY <2>1, LessOfTwo
  <2> QED
    BY <1>1, <2>1, <2>2 DEF more
<1>4. RowsIn(payload, CollectionNames, i) - before = length
  BY <1>1
<1>5. most \in Int /\ length \in Int
  BY <1>1, <1>3
<1>6. RowsDrawn(payload, CollectionNames, i, drawn) = Min({length, most})
  BY <1>2, <1>4
<1> HIDE DEF most
<1>7. Min({length, most}) = IF length <= most THEN length ELSE most
  BY <1>5, LessOfTwo
<1> QED
  BY <1>1, <1>3, <1>6, <1>7 DEF before, length

\* In all, as many as are asked for, or all there are.
LEMMA RowsDrawnInAll ==
  ASSUME NEW payload, HasLists(payload), Names \subseteq DOMAIN payload, NEW drawn \in Nat
  PROVE  LET Of(i) == RowsDrawn(payload, CollectionNames, i, drawn)
             total == RowsIn(payload, CollectionNames, 4)
         IN /\ total \in Nat
            /\ \A i \in 1..4 : Of(i) \in 0..Len(payload[CollectionNames[i]])
            /\ drawn >= total => \A i \in 1..4 : Of(i) = Len(payload[CollectionNames[i]])
            /\ Of(1) + Of(2) + Of(3) + Of(4) = IF drawn <= total THEN drawn ELSE total
<1> DEFINE Of(i) == RowsDrawn(payload, CollectionNames, i, drawn)
           In(i) == RowsIn(payload, CollectionNames, i)
           L(i) == Len(payload[CollectionNames[i]])
<1>1. In(0) = 0 /\ \A i \in 1..4 : L(i) \in Nat /\ In(i - 1) \in Nat /\ In(i) = In(i - 1) + L(i)
  BY RowsInSteps
<1>2. \A i \in 1..4 :
        Of(i) = IF drawn <= In(i - 1) THEN 0
                ELSE IF drawn - In(i - 1) >= L(i) THEN L(i) ELSE drawn - In(i - 1)
  BY RowsDrawnIs
<1> HIDE DEF Of, In, L
<1>3. /\ L(1) \in Nat /\ L(2) \in Nat /\ L(3) \in Nat /\ L(4) \in Nat
      /\ In(1) = L(1) /\ In(2) = In(1) + L(2) /\ In(3) = In(2) + L(3) /\ In(4) = In(3) + L(4)
  BY <1>1
<1>4. \A i \in 1..4 : Of(i) \in 0..L(i)
  BY <1>1, <1>2
<1>5. \A i \in 1..4 : In(i) <= In(4)
  BY <1>3
<1>6. drawn >= In(4) => \A i \in 1..4 : Of(i) = L(i)
  BY <1>1, <1>2, <1>5
<1>7. /\ Of(1) = IF drawn <= 0 THEN 0 ELSE IF drawn >= L(1) THEN L(1) ELSE drawn
      /\ Of(2) = IF drawn <= In(1) THEN 0 ELSE IF drawn - In(1) >= L(2) THEN L(2) ELSE drawn - In(1)
      /\ Of(3) = IF drawn <= In(2) THEN 0 ELSE IF drawn - In(2) >= L(3) THEN L(3) ELSE drawn - In(2)
      /\ Of(4) = IF drawn <= In(3) THEN 0 ELSE IF drawn - In(3) >= L(4) THEN L(4) ELSE drawn - In(3)
  BY <1>1, <1>2
<1>8. Of(1) + Of(2) + Of(3) + Of(4) = IF drawn <= In(4) THEN drawn ELSE In(4)
  BY <1>3, <1>7
<1>9. In(4) \in Nat
  BY <1>3
<1> QED
  BY <1>4, <1>6, <1>8, <1>9 DEF Of, In, L

-----------------------------------------------------------------------------
(* Chunks *)

LEMMA Multiples ==
  ASSUME NEW a \in Nat
  PROVE  /\ a * MaxRows \in Nat /\ a * MaxRows >= a
         /\ (a + 1) * MaxRows = a * MaxRows + MaxRows
<1> DEFINE S == {n \in Nat : n * MaxRows \in Nat /\ n * MaxRows >= n}
<1>1. MaxRows \in Nat \ {0}
  BY BoundsAssumption
<1>2. \A n \in Nat : (n + 1) * MaxRows = n * MaxRows + MaxRows
  BY <1>1
<1>3. 0 \in S
  BY <1>1
<1>4. \A n \in Nat : n \in S => n + 1 \in S
  BY <1>1, <1>2
<1> HIDE DEF S
<1>5. Nat \subseteq S
  BY <1>3, <1>4, Induct
<1> QED
  BY <1>2, <1>5 DEF S

\* Of the rows of a collection, those in the first few chunks.
DrawnBy(payload, i, few) == RowsDrawn(payload, CollectionNames, i, few * MaxRows)

LEMMA ChunkCountIs ==
  ASSUME NEW payload, HasLists(payload), Names \subseteq DOMAIN payload
  PROVE  /\ ChunkCount(payload, MaxRows) \in Nat \ {0}
         /\ \A i \in 1..4 : DrawnBy(payload, i, ChunkCount(payload, MaxRows))
                              = Len(payload[CollectionNames[i]])
<1> DEFINE total == RowsIn(payload, CollectionNames, 4)
           S == {c \in 1..(total + 1) : c * MaxRows >= total}
           count == ChunkCount(payload, MaxRows)
<1>1. total \in Nat
  BY RowsInSteps
<1> HIDE DEF total
<1>2. total + 1 \in S
  BY <1>1, Multiples
<1>3. \E c \in S : \A d \in S : c <= d
  <2>1. S \in SUBSET Nat /\ S # {}
    BY <1>1, <1>2
  <2> HIDE DEF S
  <2> QED
    BY <2>1, Least
<1>4. count = CHOOSE c \in S : \A d \in S : c <= d
  BY DEF ChunkCount, Min, total
<1> HIDE DEF count
<1>5. count \in S
  <2> HIDE DEF S
  <2> QED
    BY <1>3, <1>4
<1>6. count \in Nat \ {0} /\ count * MaxRows \in Nat /\ count * MaxRows >= total
  BY <1>1, <1>5, Multiples
<1>7. \A i \in 1..4 : DrawnBy(payload, i, count) = Len(payload[CollectionNames[i]])
  BY <1>6, RowsDrawnInAll DEF DrawnBy, total
<1> QED
  BY <1>6, <1>7 DEF count

LEMMA DrawnSteps ==
  ASSUME NEW payload, HasLists(payload), Names \subseteq DOMAIN payload, NEW c \in Nat \ {0}
  PROVE  LET Prior(i) == DrawnBy(payload, i, c - 1)
             By(i) == DrawnBy(payload, i, c)
         IN /\ \A i \in 1..4 : /\ DrawnBy(payload, i, 0) = 0
                               /\ Prior(i) \in Nat /\ By(i) \in Nat /\ Prior(i) <= By(i)
                               /\ By(i) <= Len(payload[CollectionNames[i]])
            /\ (By(1) - Prior(1)) + (By(2) - Prior(2)) + (By(3) - Prior(3)) + (By(4) - Prior(4))
                 <= MaxRows
<1> DEFINE d == (c - 1) * MaxRows
           Of(i, n) == RowsDrawn(payload, CollectionNames, i, n)
           total == RowsIn(payload, CollectionNames, 4)
           L(i) == Len(payload[CollectionNames[i]])
           In(i) == RowsIn(payload, CollectionNames, i)
<1>1. d \in Nat /\ c * MaxRows = d + MaxRows /\ MaxRows \in Nat /\ 0 * MaxRows = 0
  <2>1. c - 1 \in Nat /\ (c - 1) + 1 = c
    OBVIOUS
  <2>2. (c - 1) * MaxRows \in Nat /\ ((c - 1) + 1) * MaxRows = (c - 1) * MaxRows + MaxRows
    BY <2>1, Multiples
  <2> QED
    BY <2>1, <2>2, BoundsAssumption
<1>2. \A i \in 1..4 : L(i) \in Nat /\ In(i - 1) \in Nat
  BY RowsInSteps
<1>3. \A i \in 1..4 : \A n \in Nat :
        Of(i, n) = IF n <= In(i - 1) THEN 0
                   ELSE IF n - In(i - 1) >= L(i) THEN L(i) ELSE n - In(i - 1)
  BY RowsDrawnIs
<1>4. \A n \in Nat : Of(1, n) + Of(2, n) + Of(3, n) + Of(4, n) = IF n <= total THEN n ELSE total
  BY RowsDrawnInAll
<1>5. total \in Nat
  BY RowsDrawnInAll, <1>1
<1>6. \A i \in 1..4 : /\ DrawnBy(payload, i, 0) = Of(i, 0)
                      /\ DrawnBy(payload, i, c - 1) = Of(i, d)
                      /\ DrawnBy(payload, i, c) = Of(i, d + MaxRows)
  BY <1>1 DEF DrawnBy
<1> HIDE DEF Of, d, total, L, In
<1>7. \A i \in 1..4 :
        /\ Of(i, 0) = 0 /\ Of(i, d) \in Nat /\ Of(i, d + MaxRows) \in Nat
        /\ Of(i, d) <= Of(i, d + MaxRows) /\ Of(i, d + MaxRows) <= L(i)
  <2> SUFFICES ASSUME NEW i \in 1..4
               PROVE  /\ Of(i, 0) = 0 /\ Of(i, d) \in Nat /\ Of(i, d + MaxRows) \in Nat
                      /\ Of(i, d) <= Of(i, d + MaxRows) /\ Of(i, d + MaxRows) <= L(i)
    OBVIOUS
  <2>1. L(i) \in Nat /\ In(i - 1) \in Nat /\ d + MaxRows \in Nat
    BY <1>1, <1>2
  <2> QED
    BY <1>1, <1>3, <2>1
<1>8. (Of(1, d + MaxRows) - Of(1, d)) + (Of(2, d + MaxRows) - Of(2, d))
        + (Of(3, d + MaxRows) - Of(3, d)) + (Of(4, d + MaxRows) - Of(4, d)) <= MaxRows
  <2>1. /\ Of(1, d) \in Nat /\ Of(1, d + MaxRows) \in Nat /\ Of(2, d) \in Nat /\ Of(2, d + MaxRows) \in Nat
        /\ Of(3, d) \in Nat /\ Of(3, d + MaxRows) \in Nat /\ Of(4, d) \in Nat /\ Of(4, d + MaxRows) \in Nat
    BY <1>7
  <2>2. /\ Of(1, d) + Of(2, d) + Of(3, d) + Of(4, d) = IF d <= total THEN d ELSE total
        /\ Of(1, d + MaxRows) + Of(2, d + MaxRows) + Of(3, d + MaxRows) + Of(4, d + MaxRows)
             = IF d + MaxRows <= total THEN d + MaxRows ELSE total
    BY <1>1, <1>4
  <2> QED
    BY <1>1, <1>5, <2>1, <2>2
<1> DEFINE Prior(i) == DrawnBy(payload, i, c - 1)
           By(i) == DrawnBy(payload, i, c)
<1>9. \A i \in 1..4 : Prior(i) = Of(i, d) /\ By(i) = Of(i, d + MaxRows)
  BY <1>6
<1>10. \A i \in 1..4 : DrawnBy(payload, i, 0) = 0
  BY <1>6, <1>7
<1> HIDE DEF Prior, By
<1>11. \A i \in 1..4 :
         Prior(i) \in Nat /\ By(i) \in Nat /\ Prior(i) <= By(i) /\ By(i) <= L(i)
  BY <1>7, <1>9
<1>12. (By(1) - Prior(1)) + (By(2) - Prior(2)) + (By(3) - Prior(3)) + (By(4) - Prior(4)) <= MaxRows
  BY <1>8, <1>9
<1> QED
  BY <1>10, <1>11, <1>12 DEF L, Prior, By
\* The rows behind the first a, up to the b-th.
LEMMA RowsBetween ==
  ASSUME NEW T, NEW s \in Seq(T), NEW a \in Nat, NEW b \in Nat, a <= b, b <= Len(s)
  PROVE  LET part == SubSeq(s, a + 1, b)
         IN /\ part \in Seq(T) /\ Len(part) = b - a /\ DOMAIN part = 1..(b - a)
            /\ \A k \in 1..(b - a) : part[k] = s[a + k]
OBVIOUS

LEMMA PartInOrder ==
  ASSUME NEW T, NEW s \in Seq(T), NEW a \in Nat, NEW b \in Nat, a <= b, b <= Len(s),
         NEW fields, InOrder(s, fields)
  PROVE  InOrder(SubSeq(s, a + 1, b), fields)
<1> DEFINE part == SubSeq(s, a + 1, b)
<1>1. DOMAIN part = 1..(b - a) /\ \A k \in 1..(b - a) : part[k] = s[a + k]
  BY RowsBetween
<1> HIDE DEF part
<1>2. ASSUME NEW m \in 1..(b - a), NEW n \in 1..(b - a), m < n
      PROVE  ~Before(SortKey(part[n], fields), SortKey(part[m], fields))
  <2>1. a + m \in DOMAIN s /\ a + n \in DOMAIN s /\ a + m < a + n
    BY <1>2
  <2>2. ~Before(SortKey(s[a + n], fields), SortKey(s[a + m], fields))
    BY <2>1 DEF InOrder
  <2> QED
    BY <1>1, <2>2
<1> QED
  BY <1>1, <1>2 DEF InOrder, part

LEMMA NamesNumbered ==
  /\ \A i \in 1..4 : CollectionNames[i] \in Names
  /\ \A name \in Names : \E i \in 1..4 : CollectionNames[i] = name
  /\ \A i, j \in 1..4 : CollectionNames[i] = CollectionNames[j] => i = j
<1> DEFINE names == CollectionNames
<1>1. names[1] = "schools" /\ names[2] = "subjects" /\ names[3] = "students" /\ names[4] = "marks"
  BY DEF CollectionNames
<1> HIDE DEF names
<1>2. \A i \in 1..4 : i = 1 \/ i = 2 \/ i = 3 \/ i = 4
  OBVIOUS
<1>3. \A i \in 1..4 : names[i] \in Names
  BY <1>1, <1>2, NamesAreFour
<1>4. \A name \in Names : \E i \in 1..4 : names[i] = name
  BY <1>1, NamesAreFour
<1>5. \A i, j \in 1..4 : names[i] = names[j] => i = j
  BY <1>1, <1>2
<1> QED
  BY <1>3, <1>4, <1>5 DEF names

\* A chunk is canonical, has all the keys, and is not above the limit.
LEMMA ChunkIs ==
  ASSUME NEW payload, IsCanonical(payload), Names \subseteq DOMAIN payload,
         NEW c \in 1..ChunkCount(payload, MaxRows)
  PROVE  LET chunk == ChunksOf(payload, CollectionNames, MaxRows)[c]
         IN /\ DOMAIN chunk = DOMAIN payload
            /\ \A i \in 1..4 :
                 chunk[CollectionNames[i]]
                   = SubSeq(payload[CollectionNames[i]], DrawnBy(payload, i, c - 1) + 1,
                                                         DrawnBy(payload, i, c))
            /\ \A name \in DOMAIN payload \ Names : chunk[name] = payload[name]
            /\ IsCanonical(chunk) /\ ChunkRows(chunk) <= MaxRows
<1> DEFINE count == ChunkCount(payload, MaxRows)
           chunk == ChunksOf(payload, CollectionNames, MaxRows)[c]
           names == CollectionNames
           At(name) == CHOOSE i \in 1..4 : names[i] = name
           Prior(i) == DrawnBy(payload, i, c - 1)
           By(i) == DrawnBy(payload, i, c)
<1>1. HasLists(payload) /\ c \in Nat \ {0}
  BY ChunkCountIs DEF IsCanonical
<1>2. chunk = [name \in DOMAIN payload |->
                 IF name \in Names
                 THEN SubSeq(payload[name], DrawnBy(payload, At(name), c - 1) + 1,
                                            DrawnBy(payload, At(name), c))
                 ELSE payload[name]]
  BY DEF ChunksOf, DrawnBy, IsCollection, Names
<1>3. \A i \in 1..4 : names[i] \in Names /\ At(names[i]) = i
  BY NamesNumbered
<1>4. /\ \A i \in 1..4 : /\ Prior(i) \in Nat /\ By(i) \in Nat /\ Prior(i) <= By(i)
                         /\ By(i) <= Len(payload[names[i]])
      /\ (By(1) - Prior(1)) + (By(2) - Prior(2)) + (By(3) - Prior(3)) + (By(4) - Prior(4)) <= MaxRows
  BY <1>1, DrawnSteps
<1>5. \A i \in 1..4 : payload[names[i]] \in Seq(AllRows(names[i]))
                      /\ InOrder(payload[names[i]], CollectionSortKeys[names[i]])
  BY <1>1, <1>3 DEF IsCanonical, HasLists
<1> HIDE DEF chunk, At
<1>6. \A i \in 1..4 : chunk[names[i]] = SubSeq(payload[names[i]], Prior(i) + 1, By(i))
  BY <1>2, <1>3
<1>7. DOMAIN chunk = DOMAIN payload /\ chunk = [name \in DOMAIN chunk |-> chunk[name]]
      /\ \A name \in DOMAIN payload \ Names : chunk[name] = payload[name]
  BY <1>2
<1> HIDE DEF names, Prior, By
<1>8. ASSUME NEW i \in 1..4
      PROVE  /\ chunk[names[i]] \in Seq(AllRows(names[i]))
             /\ Len(chunk[names[i]]) = By(i) - Prior(i)
             /\ InOrder(chunk[names[i]], CollectionSortKeys[names[i]])
  <2> DEFINE s == payload[names[i]]
             T == AllRows(names[i])
             fields == CollectionSortKeys[names[i]]
             a == Prior(i)
             b == By(i)
  <2>1. /\ s \in Seq(T) /\ InOrder(s, fields)
        /\ a \in Nat /\ b \in Nat /\ a <= b /\ b <= Len(s)
    BY <1>4, <1>5
  <2>2. chunk[names[i]] = SubSeq(s, a + 1, b)
    BY <1>6
  <2> HIDE DEF s, T, fields, a, b
  <2>3. SubSeq(s, a + 1, b) \in Seq(T) /\ Len(SubSeq(s, a + 1, b)) = b - a
    BY <2>1, RowsBetween
  <2>4. InOrder(SubSeq(s, a + 1, b), fields)
    BY <2>1, PartInOrder
  <2> QED
    BY <2>2, <2>3, <2>4 DEF T, fields, a, b
<1>9. IsCanonical(chunk)
  <2>1. \A name \in Names : \E i \in 1..4 : names[i] = name
    BY NamesNumbered DEF names
  <2> QED
    BY <1>7, <1>8, <2>1 DEF IsCanonical, HasLists
<1>10. ChunkRows(chunk) <= MaxRows
  <2> DEFINE L(i) == Len(chunk[names[i]])
             In(i) == RowsIn(chunk, names, i)
  <2>1. HasLists(chunk) /\ Names \subseteq DOMAIN chunk
    BY <1>7, <1>9 DEF IsCanonical
  <2>2. In(0) = 0 /\ \A i \in 1..4 : In(i - 1) \in Nat /\ In(i) = In(i - 1) + L(i)
    BY <2>1, RowsInSteps DEF names
  <2>3. \A i \in 1..4 : L(i) = By(i) - Prior(i) /\ By(i) \in Nat /\ Prior(i) \in Nat
    BY <1>4, <1>8
  <2>4. ChunkRows(chunk) = In(4)
    BY DEF ChunkRows, names
  <2> HIDE DEF L, In
  <2>5. In(1) = L(1) /\ In(2) = L(1) + L(2) /\ In(3) = L(1) + L(2) + L(3)
        /\ In(4) = L(1) + L(2) + L(3) + L(4)
    <3>1. In(1) = In(0) + L(1) /\ In(2) = In(1) + L(2) /\ In(3) = In(2) + L(3) /\ In(4) = In(3) + L(4)
      BY <2>2
    <3>2. L(1) \in Int /\ L(2) \in Int /\ L(3) \in Int /\ L(4) \in Int
      BY <2>3
    <3> QED
      BY <2>2, <3>1, <3>2
  <2>6. /\ L(1) = By(1) - Prior(1) /\ L(2) = By(2) - Prior(2)
        /\ L(3) = By(3) - Prior(3) /\ L(4) = By(4) - Prior(4)
    BY <2>3
  <2> QED
    BY <1>4, <2>4, <2>5, <2>6
<1> QED
  BY <1>6, <1>7, <1>9, <1>10 DEF chunk, names, Prior, By

-----------------------------------------------------------------------------
(* Chunks put together *)

\* The rows of one collection in the first chunks, one chunk more at a time.
IsJoin(rows, chunks, name) ==
  rows = [c \in 0..Len(chunks) |->
            IF c = 0 THEN <<>>
            ELSE IF name \in DOMAIN chunks[c] THEN rows[c - 1] \o chunks[c][name]
            ELSE rows[c - 1]]

LEMMA JoinExists ==
  ASSUME NEW chunks, NEW name, Len(chunks) \in Nat
  PROVE  \E rows : IsJoin(rows, chunks, name)
<1> DEFINE More(rows, c) ==
             IF name \in DOMAIN chunks[c] THEN rows \o chunks[c][name] ELSE rows
           Upto(n, f) == f = [c \in 0..n |-> IF c = 0 THEN <<>> ELSE More(f[c - 1], c)]
           T == {n \in Nat : \E f : Upto(n, f)}
<1> HIDE DEF More
<1>1. 0 \in T
  <2>1. Upto(0, [c \in 0..0 |-> <<>>])
    OBVIOUS
  <2> QED
    BY <2>1
<1>2. ASSUME NEW n \in Nat, n \in T PROVE n + 1 \in T
  <2>1. PICK f : Upto(n, f)
    BY <1>2
  <2> DEFINE g == [c \in 0..(n + 1) |-> IF c = n + 1 THEN More(f[n], n + 1) ELSE f[c]]
  <2>2. ASSUME NEW c \in 0..(n + 1)
        PROVE  g[c] = IF c = 0 THEN <<>> ELSE More(g[c - 1], c)
    <3>1. CASE c = n + 1
      BY <3>1
    <3>2. CASE c \in 0..n
      <4>1. f[c] = IF c = 0 THEN <<>> ELSE More(f[c - 1], c)
        BY <2>1, <3>2
      <4> QED
        BY <3>2, <4>1
    <3> QED
      BY <3>1, <3>2
  <2>3. Upto(n + 1, g)
    BY <2>2
  <2>4. \E h : Upto(n + 1, h)
    <3> HIDE DEF Upto, g
    <3> QED
      BY <2>3
  <2> QED
    BY <2>4
<1>3. Nat \subseteq T
  <2> HIDE DEF T
  <2> QED
    BY <1>1, <1>2, Induct
<1>4. PICK f : f = [c \in 0..Len(chunks) |-> IF c = 0 THEN <<>> ELSE More(f[c - 1], c)]
  BY <1>3
<1> QED
  BY <1>4 DEF IsJoin, More

LEMMA JoinedUnfolds ==
  ASSUME NEW chunks, NEW name, Len(chunks) \in Nat
  PROVE  \E rows :
           /\ rows[0] = <<>>
           /\ \A c \in 1..Len(chunks) :
                rows[c] = IF name \in DOMAIN chunks[c] THEN rows[c - 1] \o chunks[c][name]
                          ELSE rows[c - 1]
           /\ Joined(chunks, name) = rows[Len(chunks)]
<1> DEFINE rows == CHOOSE f : IsJoin(f, chunks, name)
<1>1. IsJoin(rows, chunks, name)
  BY JoinExists
<1>2. Joined(chunks, name) = rows[Len(chunks)]
  BY DEF Joined, IsJoin
<1> HIDE DEF rows
<1>3. rows[0] = <<>>
  BY <1>1 DEF IsJoin
<1>4. \A c \in 1..Len(chunks) :
        rows[c] = IF name \in DOMAIN chunks[c] THEN rows[c - 1] \o chunks[c][name] ELSE rows[c - 1]
  BY <1>1 DEF IsJoin
<1> QED
  BY <1>2, <1>3, <1>4

\* Only rows of the chunks come together.
LEMMA JoinedIsList ==
  ASSUME NEW chunks, NEW name \in Names, Len(chunks) \in Nat,
         \A c \in 1..Len(chunks) : HasLists(chunks[c])
  PROVE  Joined(chunks, name) \in Seq(AllRows(name))
<1>1. PICK rows :
        /\ rows[0] = <<>>
        /\ \A c \in 1..Len(chunks) :
             rows[c] = IF name \in DOMAIN chunks[c] THEN rows[c - 1] \o chunks[c][name]
                       ELSE rows[c - 1]
        /\ Joined(chunks, name) = rows[Len(chunks)]
  BY JoinedUnfolds
<1> DEFINE T == {n \in Nat : n <= Len(chunks) => rows[n] \in Seq(AllRows(name))}
<1>2. 0 \in T
  <2>1. <<>> \in Seq(AllRows(name))
    OBVIOUS
  <2>2. rows[0] \in Seq(AllRows(name))
    BY <1>1, <2>1, Zenon
  <2> QED
    BY <2>2
<1>3. ASSUME NEW n \in Nat, n \in T PROVE n + 1 \in T
  <2> SUFFICES ASSUME n + 1 <= Len(chunks) PROVE rows[n + 1] \in Seq(AllRows(name))
    OBVIOUS
  <2>1. n + 1 \in 1..Len(chunks) /\ (n + 1) - 1 = n /\ rows[n] \in Seq(AllRows(name))
    BY <1>3
  <2>2. rows[n + 1] = IF name \in DOMAIN chunks[n + 1] THEN rows[n] \o chunks[n + 1][name] ELSE rows[n]
    BY <1>1, <2>1
  <2>3. name \in DOMAIN chunks[n + 1] => chunks[n + 1][name] \in Seq(AllRows(name))
    BY <2>1 DEF HasLists
  <2> QED
    BY <2>1, <2>2, <2>3
<1>4. Nat \subseteq T
  <2> HIDE DEF T
  <2> QED
    BY <1>2, <1>3, Induct
<1> QED
  BY <1>1, <1>4

LEMMA Adjacent ==
  ASSUME NEW T, NEW s \in Seq(T), NEW a \in Nat, NEW b \in Nat, a <= b, b <= Len(s)
  PROVE  SubSeq(s, 1, a) \o SubSeq(s, a + 1, b) = SubSeq(s, 1, b)
OBVIOUS

\* A list divided at successive places and joined again is as it was.
LEMMA JoinedAgain ==
  ASSUME NEW T, NEW s \in Seq(T), NEW chunks, NEW name, Len(chunks) \in Nat,
         NEW place, place[0] = 0, place[Len(chunks)] = Len(s),
         \A c \in 1..Len(chunks) :
           /\ place[c - 1] \in Nat /\ place[c] \in Nat /\ place[c - 1] <= place[c]
           /\ place[c] <= Len(s)
           /\ name \in DOMAIN chunks[c]
           /\ chunks[c][name] = SubSeq(s, place[c - 1] + 1, place[c])
  PROVE  Joined(chunks, name) = s
<1>1. PICK rows :
        /\ rows[0] = <<>>
        /\ \A c \in 1..Len(chunks) :
             rows[c] = IF name \in DOMAIN chunks[c] THEN rows[c - 1] \o chunks[c][name]
                       ELSE rows[c - 1]
        /\ Joined(chunks, name) = rows[Len(chunks)]
  BY JoinedUnfolds
<1> DEFINE S == {n \in Nat : n <= Len(chunks) => rows[n] = SubSeq(s, 1, place[n])}
<1>2. 0 \in S
  <2>1. SubSeq(s, 1, 0) = <<>>
    OBVIOUS
  <2>2. rows[0] = SubSeq(s, 1, place[0])
    BY <1>1, <2>1, Zenon
  <2> QED
    BY <2>2
<1>3. ASSUME NEW n \in Nat, n \in S PROVE n + 1 \in S
  <2> SUFFICES ASSUME n + 1 <= Len(chunks) PROVE rows[n + 1] = SubSeq(s, 1, place[n + 1])
    OBVIOUS
  <2>1. n + 1 \in 1..Len(chunks) /\ (n + 1) - 1 = n /\ rows[n] = SubSeq(s, 1, place[n])
    BY <1>3
  <2>2. rows[n + 1] = rows[n] \o chunks[n + 1][name]
    BY <1>1, <2>1
  <2>3. /\ place[n] \in Nat /\ place[n + 1] \in Nat /\ place[n] <= place[n + 1]
        /\ place[n + 1] <= Len(s)
        /\ chunks[n + 1][name] = SubSeq(s, place[n] + 1, place[n + 1])
    BY <2>1
  <2> DEFINE a == place[n]
             b == place[n + 1]
  <2>4. a \in Nat /\ b \in Nat /\ a <= b /\ b <= Len(s)
    BY <2>3
  <2>5. rows[n] = SubSeq(s, 1, a) /\ chunks[n + 1][name] = SubSeq(s, a + 1, b)
    BY <2>1, <2>3
  <2> HIDE DEF a, b
  <2>6. SubSeq(s, 1, a) \o SubSeq(s, a + 1, b) = SubSeq(s, 1, b)
    BY <2>4, Adjacent
  <2>7. rows[n + 1] = SubSeq(s, 1, b)
    BY <2>2, <2>5, <2>6, Zenon
  <2> QED
    BY <2>7 DEF b
<1>4. Nat \subseteq S
  <2> HIDE DEF S
  <2> QED
    BY <1>2, <1>3, Induct
<1>5. Joined(chunks, name) = SubSeq(s, 1, Len(s))
  BY <1>1, <1>4
<1> QED
  BY <1>5
\* What is rebuilt is canonical, whatever chunks it is rebuilt from.
LEMMA MergeIsCanonical ==
  ASSUME NEW chunks, Len(chunks) \in Nat, DOMAIN chunks = 1..Len(chunks),
         \A c \in 1..Len(chunks) : HasLists(chunks[c])
  PROVE  IsCanonical(MergeChunks(chunks))
<1> DEFINE keys == UNION {DOMAIN chunks[c] : c \in DOMAIN chunks}
           Last(name) == chunks[Max({c \in DOMAIN chunks : name \in DOMAIN chunks[c]})][name]
           payload == [name \in keys |-> IF IsCollection(name) THEN Joined(chunks, name) ELSE Last(name)]
<1>1. MergeChunks(chunks) = CanonicalCollection(payload)
  BY DEF MergeChunks
<1> HIDE DEF keys, Last
<1>2. \A name \in DOMAIN payload \cap Names : payload[name] \in Seq(AllRows(name))
  <2> SUFFICES ASSUME NEW name \in keys \cap Names PROVE payload[name] \in Seq(AllRows(name))
    OBVIOUS
  <2>1. payload[name] = Joined(chunks, name)
    BY DEF IsCollection, Names
  <2>2. Joined(chunks, name) \in Seq(AllRows(name))
    BY JoinedIsList
  <2> QED
    BY <2>1, <2>2, Zenon
<1>3. HasLists(payload)
  <2>1. payload = [name \in DOMAIN payload |-> payload[name]]
    OBVIOUS
  <2> HIDE DEF payload
  <2> QED
    BY <1>2, <2>1 DEF HasLists
<1> HIDE DEF payload
<1> QED
  BY <1>1, <1>3, CanonicalIsCanonical

\* The chunks of a payload give it back.
THEOREM MergeGivesBack ==
  ASSUME NEW payload, IsCanonical(payload), Names \subseteq DOMAIN payload,
         NEW chunks, chunks = ChunksOf(payload, CollectionNames, MaxRows)
  PROVE  MergeChunks(chunks) = payload
<1> DEFINE count == ChunkCount(payload, MaxRows)
           keys == UNION {DOMAIN chunks[c] : c \in DOMAIN chunks}
           Last(name) == chunks[Max({c \in DOMAIN chunks : name \in DOMAIN chunks[c]})][name]
           merged == [name \in keys |-> IF IsCollection(name) THEN Joined(chunks, name) ELSE Last(name)]
<1>1. HasLists(payload)
  BY DEF IsCanonical
<1>2. count \in Nat \ {0} /\ \A i \in 1..4 : DrawnBy(payload, i, count) = Len(payload[CollectionNames[i]])
  BY <1>1, ChunkCountIs
<1>3. chunks = [c \in 1..count |-> chunks[c]]
  BY DEF ChunksOf
<1>4. Len(chunks) = count /\ DOMAIN chunks = 1..count
  <2> HIDE DEF count
  <2> QED
    BY <1>2, <1>3
<1>5. \A c \in 1..count :
        /\ DOMAIN chunks[c] = DOMAIN payload
        /\ \A i \in 1..4 :
             chunks[c][CollectionNames[i]]
               = SubSeq(payload[CollectionNames[i]], DrawnBy(payload, i, c - 1) + 1,
                                                     DrawnBy(payload, i, c))
        /\ \A name \in DOMAIN payload \ Names : chunks[c][name] = payload[name]
  BY ChunkIs
<1> HIDE DEF count
<1>6. keys = DOMAIN payload
  <2>1. \A name \in keys : name \in DOMAIN payload
    BY <1>4, <1>5
  <2>2. 1 \in DOMAIN chunks /\ DOMAIN chunks[1] = DOMAIN payload
    BY <1>2, <1>4, <1>5
  <2>3. \A name \in DOMAIN payload : name \in keys
    BY <2>2
  <2> HIDE DEF keys
  <2> QED
    BY <2>1, <2>3
<1>7. ASSUME NEW name \in Names PROVE Joined(chunks, name) = payload[name]
  <2>1. PICK i \in 1..4 : CollectionNames[i] = name
    BY NamesNumbered
  <2> DEFINE place == [c \in 0..count |-> DrawnBy(payload, i, c)]
             s == payload[name]
  <2>2. s \in Seq(AllRows(name)) /\ name \in DOMAIN payload
    BY <1>1 DEF HasLists
  <2>3. \A c \in 1..count :
          /\ DrawnBy(payload, i, 0) = 0
          /\ DrawnBy(payload, i, c - 1) \in Nat /\ DrawnBy(payload, i, c) \in Nat
          /\ DrawnBy(payload, i, c - 1) <= DrawnBy(payload, i, c)
          /\ DrawnBy(payload, i, c) <= Len(s)
    <3> SUFFICES ASSUME NEW c \in 1..count
                 PROVE  /\ DrawnBy(payload, i, 0) = 0
                        /\ DrawnBy(payload, i, c - 1) \in Nat /\ DrawnBy(payload, i, c) \in Nat
                        /\ DrawnBy(payload, i, c - 1) <= DrawnBy(payload, i, c)
                        /\ DrawnBy(payload, i, c) <= Len(s)
      OBVIOUS
    <3>1. c \in Nat \ {0}
      BY <1>2
    <3> QED
      BY <1>1, <2>1, <3>1, DrawnSteps
  <2>4. /\ place[0] = 0 /\ place[count] = Len(s)
        /\ \A c \in 1..count : /\ place[c - 1] = DrawnBy(payload, i, c - 1)
                               /\ place[c] = DrawnBy(payload, i, c)
    BY <1>2, <2>1, <2>3
  <2>5. \A c \in 1..count :
          /\ name \in DOMAIN chunks[c]
          /\ chunks[c][name] = SubSeq(s, DrawnBy(payload, i, c - 1) + 1, DrawnBy(payload, i, c))
    BY <1>5, <2>1, <2>2
  <2> DEFINE T == AllRows(name)
  <2> HIDE DEF s, place, T
  <2>6. \A c \in 1..Len(chunks) :
          /\ place[c - 1] \in Nat /\ place[c] \in Nat /\ place[c - 1] <= place[c]
          /\ place[c] <= Len(s)
          /\ name \in DOMAIN chunks[c]
          /\ chunks[c][name] = SubSeq(s, place[c - 1] + 1, place[c])
    BY <1>4, <2>3, <2>4, <2>5
  <2>7. Len(chunks) \in Nat /\ place[0] = 0 /\ place[Len(chunks)] = Len(s)
    BY <1>2, <1>4, <2>4
  <2>8. s \in Seq(T)
    BY <2>2 DEF T
  <2>9. Joined(chunks, name) = s
    BY <2>6, <2>7, <2>8, JoinedAgain
  <2> QED
    BY <2>9 DEF s
<1>8. ASSUME NEW name \in DOMAIN payload \ Names PROVE Last(name) = payload[name]
  <2> DEFINE S == {c \in DOMAIN chunks : name \in DOMAIN chunks[c]}
  <2>1. S = 1..count
    BY <1>4, <1>5
  <2> HIDE DEF S
  <2>2. \E x \in S : \A y \in S : x >= y
    BY <1>2, <2>1
  <2>3. Max(S) \in 1..count
    BY <2>1, <2>2 DEF Max
  <2> QED
    BY <1>5, <2>3 DEF S
<1>9. payload = [name \in DOMAIN payload |-> payload[name]]
  BY <1>1 DEF HasLists
<1>10. MergeChunks(chunks) = CanonicalCollection(merged)
  BY DEF MergeChunks
<1> HIDE DEF keys, Last
<1>11. merged = payload
  <2>1. \A name \in DOMAIN payload : merged[name] = payload[name] /\ DOMAIN merged = DOMAIN payload
    BY <1>6, <1>7, <1>8 DEF IsCollection, Names
  <2> QED
    BY <1>6, <1>9, <2>1
<1> QED
  BY <1>10, <1>11, CanonicalStays

-----------------------------------------------------------------------------
(* What is sent of a state of the data *)

Chunks(v) == ChunksOf(Canon(Versions[v]), CollectionNames, MaxRows)

\* Every payload of a state gives the same chunks, and they give it back.
LEMMA OneUpload ==
  ASSUME NEW v \in DOMAIN Versions
  PROVE  /\ \A chunks \in ChunkLists[v] : chunks = Chunks(v)
         /\ \A manifest \in Manifests[v] : manifest = ChunkManifest(Chunks(v))
         /\ Len(Chunks(v)) \in Nat \ {0} /\ Chunks(v) = [n \in 1..Len(Chunks(v)) |-> Chunks(v)[n]]
         /\ \A n \in DOMAIN Chunks(v) : IsCanonical(Chunks(v)[n]) /\ ChunkRows(Chunks(v)[n]) <= MaxRows
         /\ ChunkManifest(Chunks(v)).chunk_count = Len(Chunks(v))
         /\ ChunkManifest(Chunks(v)).digest = Canon(Versions[v])
         /\ \A n \in DOMAIN Chunks(v) : ChunkManifest(Chunks(v)).chunks[n].digest = Chunks(v)[n]
         /\ MergeChunks(Chunks(v)) = Canon(Versions[v])
<1> DEFINE data == Versions[v]
           canonical == Canon(data)
           chunks == Chunks(v)
           count == ChunkCount(canonical, MaxRows)
           manifest == ChunkManifest(chunks)
<1>1. WellKept(data)
  BY DataAssumption
<1>2. IsCanonical(canonical) /\ Names \subseteq DOMAIN canonical
  BY CanonIsCanonical
<1>3. \A payload \in Payloads(data) : ChunkPayload(payload, MaxRows) = chunks
  BY <1>1, OneCanonicalForm DEF ChunkPayload, Chunks
<1>4. \A c \in ChunkLists[v] : c = chunks
  BY <1>3 DEF ChunkLists
<1>5. \A m \in Manifests[v] : m = manifest
  BY <1>4 DEF Manifests
<1>6. count \in Nat \ {0}
  BY <1>2, ChunkCountIs DEF IsCanonical
<1>7. chunks = [n \in 1..count |-> chunks[n]]
  BY DEF Chunks, ChunksOf
<1>8. Len(chunks) = count /\ DOMAIN chunks = 1..count
  <2> HIDE DEF count, chunks
  <2> QED
    BY <1>6, <1>7
<1>9. \A n \in 1..count : IsCanonical(chunks[n]) /\ ChunkRows(chunks[n]) <= MaxRows
  BY <1>2, ChunkIs DEF Chunks
<1>10. MergeChunks(chunks) = canonical
  BY <1>2, MergeGivesBack DEF Chunks
<1>11. CollectionDigest(MergeChunks(chunks)) = canonical
  BY <1>2, <1>10, CanonicalStays DEF CollectionDigest
<1>12. manifest.chunk_count = Len(chunks) /\ manifest.digest = canonical
  BY <1>11 DEF ChunkManifest
<1>13. \A n \in DOMAIN chunks : manifest.chunks[n].digest = CanonicalCollection(chunks[n])
  BY DEF ChunkManifest
<1>14. \A n \in DOMAIN chunks : manifest.chunks[n].digest = chunks[n]
  BY <1>8, <1>9, <1>13, CanonicalStays
<1> HIDE DEF chunks, manifest, canonical, count
<1>15. Len(chunks) \in Nat \ {0} /\ chunks = [n \in 1..Len(chunks) |-> chunks[n]]
  BY <1>6, <1>7, <1>8
<1> QED
  BY <1>4, <1>5, <1>8, <1>9, <1>10, <1>12, <1>14, <1>15 DEF chunks, manifest, canonical

\* Rows of a collection are drawn when those of the collections before it all were.
LEMMA DrawnInTurn ==
  ASSUME NEW payload, HasLists(payload), Names \subseteq DOMAIN payload,
         NEW i \in 1..4, NEW j \in 1..4, i < j, NEW n \in Nat, DrawnBy(payload, j, n) > 0
  PROVE  DrawnBy(payload, i, n) = Len(payload[CollectionNames[i]])
<1> DEFINE d == n * MaxRows
           L(k) == Len(payload[CollectionNames[k]])
           In(k) == RowsIn(payload, CollectionNames, k)
           Of(k) == RowsDrawn(payload, CollectionNames, k, d)
<1>1. d \in Nat
  BY Multiples
<1>2. In(0) = 0 /\ \A k \in 1..4 : L(k) \in Nat /\ In(k - 1) \in Nat /\ In(k) = In(k - 1) + L(k)
  BY RowsInSteps
<1>3. \A k \in 1..4 : Of(k) = IF d <= In(k - 1) THEN 0
                              ELSE IF d - In(k - 1) >= L(k) THEN L(k) ELSE d - In(k - 1)
  BY <1>1, RowsDrawnIs
<1>4. Of(j) > 0
  BY DEF DrawnBy
<1> HIDE DEF d, L, In, Of
<1>5. In(i) <= In(j - 1)
  <2>1. /\ L(1) \in Nat /\ L(2) \in Nat /\ L(3) \in Nat /\ In(0) = 0
        /\ In(1) = In(0) + L(1) /\ In(2) = In(1) + L(2) /\ In(3) = In(2) + L(3)
    BY <1>2
  <2>2. (i = 1 \/ i = 2 \/ i = 3) /\ (j = 2 \/ j = 3 \/ j = 4)
    OBVIOUS
  <2> QED
    BY <2>1, <2>2
<1>6. Of(i) = L(i)
  <2>1. In(j - 1) \in Nat /\ d > In(j - 1)
    BY <1>1, <1>2, <1>3, <1>4
  <2>2. In(i - 1) \in Nat /\ L(i) \in Nat /\ In(i) = In(i - 1) + L(i)
    BY <1>2
  <2>3. d > In(i - 1) /\ d - In(i - 1) >= L(i)
    BY <1>1, <1>5, <2>1, <2>2
  <2> QED
    BY <1>1, <1>3, <2>2, <2>3
<1> QED
  BY <1>6 DEF DrawnBy, Of, L, d

\* A chunk with rows of one collection comes when all those before it have landed.
LEMMA LandedBefore ==
  ASSUME NEW v \in DOMAIN Versions, NEW n \in DOMAIN Chunks(v),
         NEW i \in 1..4, NEW j \in 1..4,
         NEW r \in Range(Chunks(v)[n][CollectionNames[j]])
  PROVE  /\ r \in Versions[v][CollectionNames[j]]
         /\ i < j => \A s \in Versions[v][CollectionNames[i]] :
                       \E c \in 1..n : s \in Range(Chunks(v)[c][CollectionNames[i]])
<1> DEFINE data == Versions[v]
           canonical == Canon(data)
           chunks == Chunks(v)
           count == ChunkCount(canonical, MaxRows)
           names == CollectionNames
           By(k, c) == DrawnBy(canonical, k, c)
           L(k) == Len(canonical[names[k]])
<1>1. /\ IsCanonical(canonical) /\ HasLists(canonical) /\ Names \subseteq DOMAIN canonical
      /\ IsStateOf(canonical, data)
  BY CanonIsCanonical DEF IsCanonical
<1>2. count \in Nat \ {0} /\ DOMAIN chunks = 1..count
  BY <1>1, ChunkCountIs DEF Chunks, ChunksOf
<1>3. \A k \in 1..4 : names[k] \in Names
  BY NamesNumbered
<1>4. ASSUME NEW k \in 1..4
      PROVE  /\ canonical[names[k]] \in Seq(AllRows(names[k])) /\ L(k) \in Nat
             /\ \A s \in data[names[k]] : \E h \in 1..L(k) : s = canonical[names[k]][h]
             /\ \A h \in 1..L(k) : canonical[names[k]][h] \in data[names[k]]
  <2>1. canonical[names[k]] \in Seq(AllRows(names[k]))
    BY <1>1, <1>3 DEF HasLists
  <2>2. Range(canonical[names[k]]) = data[names[k]]
    BY <1>1, <1>3 DEF IsStateOf, IsCollection, Names
  <2> HIDE DEF canonical, data, names
  <2> QED
    BY <2>1, <2>2 DEF Range
<1>5. ASSUME NEW k \in 1..4, NEW c \in 1..count
      PROVE  /\ By(k, 0) = 0 /\ By(k, c - 1) \in Nat /\ By(k, c) \in Nat
             /\ By(k, c - 1) <= By(k, c) /\ By(k, c) <= L(k)
             /\ chunks[c][names[k]] = SubSeq(canonical[names[k]], By(k, c - 1) + 1, By(k, c))
             /\ DOMAIN chunks[c][names[k]] = 1..(By(k, c) - By(k, c - 1))
             /\ \A h \in 1..(By(k, c) - By(k, c - 1)) :
                  chunks[c][names[k]][h] = canonical[names[k]][By(k, c - 1) + h]
  <2>1. c \in Nat \ {0}
    BY <1>2
  <2>2. /\ By(k, 0) = 0 /\ By(k, c - 1) \in Nat /\ By(k, c) \in Nat
        /\ By(k, c - 1) <= By(k, c) /\ By(k, c) <= L(k)
    BY <1>1, <2>1, DrawnSteps
  <2>3. chunks[c][names[k]] = SubSeq(canonical[names[k]], By(k, c - 1) + 1, By(k, c))
    BY <1>1, ChunkIs DEF Chunks
  <2> DEFINE a == By(k, c - 1)
             b == By(k, c)
             s == canonical[names[k]]
             T == AllRows(names[k])
  <2>4. a \in Nat /\ b \in Nat /\ a <= b /\ b <= Len(s) /\ s \in Seq(T)
    BY <1>4, <2>2
  <2>5. chunks[c][names[k]] = SubSeq(s, a + 1, b)
    BY <2>3
  <2> HIDE DEF a, b, s, T, chunks
  <2>6. DOMAIN SubSeq(s, a + 1, b) = 1..(b - a) /\ \A h \in 1..(b - a) : SubSeq(s, a + 1, b)[h] = s[a + h]
    BY <2>4, RowsBetween
  <2>7. DOMAIN chunks[c][names[k]] = 1..(b - a) /\ \A h \in 1..(b - a) : chunks[c][names[k]][h] = s[a + h]
    BY <2>5, <2>6
  <2> QED
    BY <2>2, <2>3, <2>7 DEF a, b, s
<1>6. n \in 1..count /\ r \in Range(chunks[n][names[j]])
  BY <1>2
<1>7. \A k \in 1..4 : \A c \in Nat : k < j /\ By(j, c) > 0 => By(k, c) = L(k)
  BY <1>1, DrawnInTurn
<1> HIDE DEF canonical, chunks, count, names, By, L, data
<1>8. /\ By(j, n - 1) \in Nat /\ By(j, n) \in Nat /\ By(j, n) <= L(j) /\ L(j) \in Nat
      /\ \E h \in 1..(By(j, n) - By(j, n - 1)) : r = canonical[names[j]][By(j, n - 1) + h]
  <2>1. /\ By(j, n - 1) \in Nat /\ By(j, n) \in Nat /\ By(j, n) <= L(j) /\ L(j) \in Nat
        /\ DOMAIN chunks[n][names[j]] = 1..(By(j, n) - By(j, n - 1))
        /\ \A h \in 1..(By(j, n) - By(j, n - 1)) :
             chunks[n][names[j]][h] = canonical[names[j]][By(j, n - 1) + h]
    BY <1>4, <1>5, <1>6
  <2>2. \E h \in DOMAIN chunks[n][names[j]] : r = chunks[n][names[j]][h]
    BY <1>6 DEF Range
  <2> QED
    BY <2>1, <2>2
<1>9. r \in data[names[j]]
  <2>1. PICK h \in 1..(By(j, n) - By(j, n - 1)) : r = canonical[names[j]][By(j, n - 1) + h]
    BY <1>8
  <2>2. By(j, n - 1) + h \in 1..L(j)
    BY <1>8
  <2> QED
    BY <1>4, <2>1, <2>2
<1>10. ASSUME i < j, NEW s \in data[names[i]]
       PROVE  \E c \in 1..n : s \in Range(chunks[c][names[i]])
  <2>1. n \in Nat /\ By(j, n) > 0
    BY <1>2, <1>6, <1>8
  <2>2. By(i, n) = L(i)
    BY <1>7, <1>10, <2>1
  <2>3. PICK g \in 1..L(i) : s = canonical[names[i]][g]
    BY <1>4
  <2> DEFINE S == {c \in 1..n : By(i, c) >= g}
  <2>4. n \in S
    BY <1>2, <1>4, <1>6, <2>2, <2>3
  <2>5. PICK c \in S : \A d \in S : c <= d
    <3>1. S \in SUBSET Nat /\ S # {}
      BY <2>1, <2>4
    <3> HIDE DEF S
    <3> QED
      BY <3>1, Least
  <2>6. c \in 1..count /\ c \in 1..n /\ By(i, c) >= g
    BY <1>2, <1>6, <2>5
  <2>7. /\ By(i, 0) = 0 /\ By(i, c - 1) \in Nat /\ By(i, c) \in Nat /\ By(i, c - 1) <= By(i, c)
         /\ DOMAIN chunks[c][names[i]] = 1..(By(i, c) - By(i, c - 1))
         /\ \A h \in 1..(By(i, c) - By(i, c - 1)) :
              chunks[c][names[i]][h] = canonical[names[i]][By(i, c - 1) + h]
    BY <1>5, <2>6
  <2>8. g \in Nat \ {0}
    BY <1>4, <2>3
  <2>9. By(i, c - 1) < g
    <3>1. CASE c = 1
      BY <2>7, <2>8, <3>1
    <3>2. CASE c # 1
      <4>1. c - 1 \in 1..n /\ c - 1 \notin S
        BY <2>1, <2>5, <2>6, <3>2
      <4> QED
        BY <2>7, <2>8, <4>1
    <3> QED
      BY <3>1, <3>2
  <2>10. g - By(i, c - 1) \in 1..(By(i, c) - By(i, c - 1)) /\ By(i, c - 1) + (g - By(i, c - 1)) = g
    BY <2>6, <2>9, <2>7, <2>8
  <2>11. chunks[c][names[i]][g - By(i, c - 1)] = s /\ g - By(i, c - 1) \in DOMAIN chunks[c][names[i]]
    BY <2>3, <2>10, <2>7
  <2> QED
    BY <2>6, <2>11 DEF Range
<1> QED
  BY <1>9, <1>10 DEF data, names, chunks

-----------------------------------------------------------------------------
(* What every step keeps *)

\* A chunk of a state that Central held since the session began.
Fed(n, chunk) ==
  \E v \in session.source..held : n \in DOMAIN Chunks(v) /\ chunk = Chunks(v)[n]

\* The session is of a state that was; on the network and landed are chunks of it
\* or of later ones.
SessionIsFed ==
  /\ session = [manifest |-> session.manifest, source |-> session.source, state |-> session.state]
  /\ session.source \in 1..held
  /\ session.manifest = ChunkManifest(Chunks(session.source))
  /\ \A put \in wire : Fed(put.index, put.chunk)
  /\ \A n \in DOMAIN received : Fed(n, received[n])

\* Where the digest differs, one of the chunks does.
MismatchIsReal ==
  InState({"mismatch"}) =>
    \E n \in DOMAIN received :
      n \in DOMAIN Chunks(session.source) /\ received[n] # Chunks(session.source)[n]

UploadInv ==
  /\ version \in DOMAIN Versions /\ held \in 1..version
  /\ \/ session = None /\ wire = {} /\ DOMAIN received = {}
     \/ SessionIsFed
  /\ MismatchIsReal
  /\ IngestedIsOneState

LEMMA UploadInit == Init => UploadInv
<1> SUFFICES ASSUME Init PROVE UploadInv
  OBVIOUS
<1>1. version \in DOMAIN Versions /\ held \in 1..version
  BY DataAssumption DEF Init
<1>2. session = None /\ wire = {} /\ DOMAIN received = {} /\ ingested = None
  BY DEF Init
<1> QED
  BY <1>1, <1>2 DEF UploadInv, MismatchIsReal, IngestedIsOneState, InState

\* Verified or not is a matter of the chunks alone.
LEMMA CompleteJudges ==
  ASSUME UploadInv, SessionIsFed, DOMAIN received = 1..session.manifest.chunk_count
  PROVE  /\ Verified => IsStateOf(Merged, Versions[session.source])
         /\ ~Verified => \E n \in DOMAIN received :
                           /\ n \in DOMAIN Chunks(session.source)
                           /\ received[n] # Chunks(session.source)[n]
<1> DEFINE v == session.source
           count == session.manifest.chunk_count
           chunks == [n \in 1..count |-> received[n]]
<1>1. /\ v \in DOMAIN Versions /\ held \in DOMAIN Versions /\ v..held \subseteq DOMAIN Versions
  <2>1. version \in 1..Len(Versions) /\ held \in 1..version /\ v \in 1..held
    BY DataAssumption DEF UploadInv, SessionIsFed
  <2> QED
    BY <2>1, DataAssumption
<1>2. count = Len(Chunks(v)) /\ session.manifest.digest = Canon(Versions[v])
      /\ count \in Nat /\ Chunks(v) = [n \in 1..count |-> Chunks(v)[n]]
      /\ MergeChunks(Chunks(v)) = Canon(Versions[v])
  BY <1>1, OneUpload DEF SessionIsFed
<1>3. Merged = MergeChunks(chunks)
  BY DEF Merged
<1>4. IsStateOf(Canon(Versions[v]), Versions[v])
  BY <1>1, CanonIsCanonical
<1> HIDE DEF v, count
<1>5. \A n \in 1..count : chunks[n] = received[n] /\ HasLists(chunks[n])
  <2> SUFFICES ASSUME NEW n \in 1..count PROVE HasLists(received[n])
    OBVIOUS
  <2>1. PICK w \in v..held : n \in DOMAIN Chunks(w) /\ received[n] = Chunks(w)[n]
    BY DEF SessionIsFed, Fed, v, count
  <2> QED
    BY <1>1, <2>1, OneUpload DEF IsCanonical
<1>6. Len(chunks) = count /\ DOMAIN chunks = 1..count
  BY <1>2
<1>7. (\A n \in 1..count : received[n] = Chunks(v)[n]) => chunks = Chunks(v)
  BY <1>2
<1> HIDE DEF chunks
<1>8. IsCanonical(Merged)
  BY <1>2, <1>3, <1>5, <1>6, MergeIsCanonical
<1>9. Verified <=> Merged = Canon(Versions[v])
  BY <1>2, <1>8, CanonicalStays DEF Verified, CollectionDigest
<1>10. ASSUME ~Verified
       PROVE  \E n \in DOMAIN received : n \in DOMAIN Chunks(v) /\ received[n] # Chunks(v)[n]
  <2>1. PICK n \in 1..count : received[n] # Chunks(v)[n]
    BY <1>2, <1>3, <1>7, <1>9, <1>10
  <2> QED
    BY <1>2, <2>1 DEF count
<1> QED
  BY <1>4, <1>9, <1>10 DEF v
LEMMA UploadStep == UploadInv /\ [Next]_vars => UploadInv'
<1> SUFFICES ASSUME UploadInv, [Next]_vars PROVE UploadInv'
  OBVIOUS
<1> USE DataAssumption
<1>0. /\ version \in 1..Len(Versions) /\ held \in 1..version /\ Len(Versions) \in Nat
      /\ DOMAIN Versions = 1..Len(Versions)
  BY DEF UploadInv
<1>1. ASSUME InState({"open"}) PROVE SessionIsFed /\ ~InState({"mismatch"}) /\ ~InState({"verified"})
  BY <1>1 DEF UploadInv, InState
<1>2. CASE Change
  <2>1. version' \in 1..Len(Versions) /\ held' \in 1..version'
    BY <1>0, <1>2 DEF Change
  <2>2. SessionIsFed => SessionIsFed'
    BY <1>2 DEF Change, SessionIsFed, Fed
  <2>3. MismatchIsReal' /\ IngestedIsOneState'
    BY <1>0, <1>2 DEF Change, UploadInv, MismatchIsReal, IngestedIsOneState, InState, IsStateOf
  <2> QED
    BY <1>2, <2>1, <2>2, <2>3 DEF Change, UploadInv
<1>3. CASE Start
  <2>1. PICK manifest \in Manifests[version] :
          session' = [manifest |-> manifest, source |-> version, state |-> "open"]
    BY <1>3 DEF Start
  <2>2. manifest = ChunkManifest(Chunks(version))
    BY <1>0, OneUpload
  <2>3. held' = version /\ wire' = {} /\ DOMAIN received' = {} /\ version' = version /\ ingested' = ingested
    BY <1>3 DEF Start
  <2>4. SessionIsFed'
    BY <1>0, <2>1, <2>2, <2>3 DEF SessionIsFed
  <2>5. MismatchIsReal'
    BY <2>1 DEF MismatchIsReal, InState
  <2>6. IngestedIsOneState'
    BY <2>1, <2>3 DEF UploadInv, IngestedIsOneState, InState, IsStateOf
  <2> QED
    BY <1>0, <2>3, <2>4, <2>5, <2>6 DEF UploadInv
<1>4. CASE Resume
  <2>1. SessionIsFed /\ ~InState({"mismatch"})
    BY <1>1, <1>4 DEF Resume
  <2>2. held' = version /\ UNCHANGED <<version, session, wire, received, ingested>>
    BY <1>4 DEF Resume
  <2>3. \A n, chunk : Fed(n, chunk) => Fed(n, chunk)'
    BY <1>0, <2>1, <2>2 DEF Fed, SessionIsFed
  <2>4. SessionIsFed'
    BY <1>0, <2>1, <2>2, <2>3 DEF SessionIsFed
  <2>5. MismatchIsReal' /\ IngestedIsOneState'
    BY <2>1, <2>2 DEF UploadInv, MismatchIsReal, IngestedIsOneState, InState, IsStateOf
  <2> QED
    BY <1>0, <2>2, <2>4, <2>5 DEF UploadInv
<1>5. ASSUME NEW n \in ChunkIndices, Send(n) PROVE UploadInv'
  <2>1. SessionIsFed /\ ~InState({"mismatch"})
    BY <1>1, <1>5 DEF Send
  <2>2. PICK chunks \in ChunkLists[held] :
          n \in DOMAIN chunks /\ wire' = wire \cup {[index |-> n, chunk |-> chunks[n]]}
    BY <1>5 DEF Send
  <2>3. UNCHANGED <<version, held, session, received, ingested>>
    BY <1>5 DEF Send
  <2>4. chunks = Chunks(held)
    BY <1>0, OneUpload
  <2>5. \A m, chunk : Fed(m, chunk) => Fed(m, chunk)'
    BY <2>3 DEF Fed
  <2>6. Fed(n, chunks[n])
    BY <1>0, <2>1, <2>2, <2>4 DEF Fed, SessionIsFed
  <2>7. \A put \in wire' : Fed(put.index, put.chunk)'
    BY <2>1, <2>2, <2>5, <2>6 DEF SessionIsFed
  <2>8. SessionIsFed'
    BY <2>1, <2>3, <2>5, <2>7 DEF SessionIsFed
  <2>9. MismatchIsReal' /\ IngestedIsOneState'
    BY <2>1, <2>3 DEF UploadInv, MismatchIsReal, IngestedIsOneState, InState, IsStateOf
  <2> QED
    BY <1>0, <2>3, <2>8, <2>9 DEF UploadInv
<1>6. ASSUME NEW put \in wire, NEW again \in BOOLEAN, Deliver(put, again) PROVE UploadInv'
  <2>1. SessionIsFed /\ ~InState({"mismatch"})
    BY <1>1, <1>6 DEF Deliver
  <2>2. /\ received' = [n \in DOMAIN received \cup {put.index} |->
                          IF n = put.index THEN put.chunk ELSE received[n]]
        /\ wire' \subseteq wire /\ UNCHANGED <<version, held, session, ingested>>
    BY <1>6 DEF Deliver
  <2>3. \A m, chunk : Fed(m, chunk) => Fed(m, chunk)'
    BY <2>2 DEF Fed
  <2>4. \A n \in DOMAIN received' : Fed(n, received'[n])
    BY <2>1, <2>2 DEF SessionIsFed
  <2>5. SessionIsFed'
    BY <2>1, <2>2, <2>3, <2>4 DEF SessionIsFed
  <2>6. MismatchIsReal' /\ IngestedIsOneState'
    BY <2>1, <2>2 DEF UploadInv, MismatchIsReal, IngestedIsOneState, InState, IsStateOf
  <2> QED
    BY <1>0, <2>2, <2>5, <2>6 DEF UploadInv
<1>7. ASSUME NEW put \in wire, Lose(put) PROVE UploadInv'
  <2>1. wire' \subseteq wire /\ UNCHANGED <<version, held, session, received, ingested>>
    BY <1>7 DEF Lose
  <2>2. SessionIsFed => SessionIsFed'
    BY <2>1 DEF SessionIsFed, Fed
  <2>3. MismatchIsReal' /\ IngestedIsOneState'
    BY <2>1 DEF UploadInv, MismatchIsReal, IngestedIsOneState, InState, IsStateOf
  <2> QED
    BY <1>0, <2>1, <2>2, <2>3 DEF UploadInv
<1>8. CASE Complete
  <2>1. SessionIsFed /\ DOMAIN received = 1..session.manifest.chunk_count
    BY <1>1, <1>8 DEF Complete, CanComplete
  <2>2. /\ session' = [session EXCEPT !.state = IF Verified THEN "verified" ELSE "mismatch"]
        /\ ingested' = IF Verified THEN Merged ELSE ingested
        /\ UNCHANGED <<version, held, wire, received>>
    BY <1>8 DEF Complete
  <2>3. /\ Verified => IsStateOf(Merged, Versions[session.source])
        /\ ~Verified => \E n \in DOMAIN received :
                          /\ n \in DOMAIN Chunks(session.source)
                          /\ received[n] # Chunks(session.source)[n]
    BY <2>1, CompleteJudges
  <2>4. session' = [manifest |-> session.manifest, source |-> session.source,
                    state |-> IF Verified THEN "verified" ELSE "mismatch"]
    BY <2>1, <2>2 DEF SessionIsFed
  <2> HIDE DEF Verified
  <2>5. SessionIsFed'
    BY <2>1, <2>2, <2>4 DEF SessionIsFed, Fed
  <2>6. MismatchIsReal'
    BY <2>2, <2>3, <2>4 DEF MismatchIsReal, InState
  <2>7. IngestedIsOneState'
    <3>1. session.source \in 1..version
      BY <1>0, <2>1 DEF SessionIsFed
    <3>2. CASE Verified
      BY <2>2, <2>3, <2>4, <3>1, <3>2 DEF IngestedIsOneState, InState, IsStateOf
    <3>3. CASE ~Verified
      BY <2>2, <2>4, <3>3 DEF UploadInv, IngestedIsOneState, InState, IsStateOf
    <3> QED
      BY <3>2, <3>3
  <2> QED
    BY <1>0, <2>2, <2>5, <2>6, <2>7 DEF UploadInv
<1>9. CASE Expire
  <2>1. SessionIsFed
    BY <1>1, <1>9 DEF Expire
  <2>2. session' = [manifest |-> session.manifest, source |-> session.source, state |-> "expired"]
        /\ UNCHANGED <<version, held, wire, received, ingested>>
    BY <1>9, <2>1 DEF Expire, SessionIsFed
  <2>3. SessionIsFed'
    BY <2>1, <2>2 DEF SessionIsFed, Fed
  <2>4. MismatchIsReal' /\ IngestedIsOneState'
    BY <2>2 DEF UploadInv, MismatchIsReal, IngestedIsOneState, InState, IsStateOf
  <2> QED
    BY <1>0, <2>2, <2>3, <2>4 DEF UploadInv
<1>10. CASE UNCHANGED vars
  BY <1>10 DEF vars, UploadInv, SessionIsFed, Fed, MismatchIsReal, IngestedIsOneState, InState, IsStateOf
<1> QED
  BY <1>2, <1>3, <1>4, <1>5, <1>6, <1>7, <1>8, <1>9, <1>10 DEF Next
LEMMA UploadKept == Spec => []UploadInv
<1>1. UploadInv /\ [Next]_vars => UploadInv'
  BY UploadStep
<1> QED
  BY <1>1, UploadInit, PTL DEF Spec

-----------------------------------------------------------------------------
(* What follows *)

\* Whatever the network loses, repeats and reorders and however Central resumes,
\* what ExaMetrics ingests is, row for row, one state that the data had, and the
\* declared one (schemas/exametrics.py, 7.2).
THEOREM OneStateIsIngested == Spec => []IngestedIsOneState
<1>1. UploadInv => IngestedIsOneState
  BY DEF UploadInv
<1> QED
  BY <1>1, UploadKept, PTL

\* "A mismatch means the data differs, never that the two implementations differ"
\* (schemas/exametrics.py:485-486).
THEOREM SameDataIsVerified == Spec => []SameDataVerifies
<1>1. UploadInv => SameDataVerifies
  <2> SUFFICES ASSUME UploadInv, InState({"mismatch"}), version = session.source PROVE FALSE
    BY DEF SameDataVerifies
  <2>1. SessionIsFed /\ held \in 1..version /\ version \in Nat
    BY DataAssumption DEF UploadInv, InState
  <2>2. PICK n \in DOMAIN received : received[n] # Chunks(session.source)[n]
    BY DEF UploadInv, MismatchIsReal
  <2>3. PICK v \in session.source..held : received[n] = Chunks(v)[n]
    BY <2>1 DEF SessionIsFed, Fed
  <2>4. v = session.source
    BY <2>1, <2>3 DEF SessionIsFed
  <2> QED
    BY <2>2, <2>3, <2>4
<1> QED
  BY <1>1, UploadKept, PTL

\* "A failed verification names the chunk that differs" (exametrics_digest.py:170-172).
THEOREM MismatchIsNamed == Spec => []MismatchNamesAChunk
<1>1. UploadInv => MismatchNamesAChunk
  <2> SUFFICES ASSUME UploadInv, InState({"mismatch"})
               PROVE  \E n \in DOMAIN received :
                        CanonicalCollection(received[n]) # session.manifest.chunks[n].digest
    BY DEF MismatchNamesAChunk
  <2>1. SessionIsFed /\ held \in 1..version /\ version \in 1..Len(Versions)
        /\ Len(Versions) \in Nat /\ DOMAIN Versions = 1..Len(Versions)
    BY DataAssumption DEF UploadInv, InState
  <2>2. PICK n \in DOMAIN received :
          n \in DOMAIN Chunks(session.source) /\ received[n] # Chunks(session.source)[n]
    BY DEF UploadInv, MismatchIsReal
  <2>3. PICK v \in session.source..held : n \in DOMAIN Chunks(v) /\ received[n] = Chunks(v)[n]
    BY <2>1 DEF SessionIsFed, Fed
  <2>4. v \in DOMAIN Versions /\ session.source \in DOMAIN Versions
    BY <2>1, <2>3 DEF SessionIsFed
  <2>5. CanonicalCollection(received[n]) = received[n]
    BY <2>3, <2>4, OneUpload, CanonicalStays
  <2>6. session.manifest.chunks[n].digest = Chunks(session.source)[n]
    BY <2>1, <2>2, <2>4, OneUpload DEF SessionIsFed
  <2> QED
    BY <2>2, <2>5, <2>6
<1> QED
  BY <1>1, UploadKept, PTL

\* "A chunk boundary never puts a mark ahead of the school it belongs to"
\* (exametrics_digest.py:113-114), and no chunk is above the limit.
THEOREM ReferencesLandFirst == Spec => []ReferencesFirst
<1>1. UploadInv => ReferencesFirst
  <2> SUFFICES ASSUME UploadInv, NEW n \in DOMAIN received
               PROVE  /\ ChunkRows(received[n]) <= MaxRows
                      /\ session.source = version /\ 1..n \subseteq DOMAIN received =>
                           LET Landed(name) == UNION {Range(received[i][name]) : i \in 1..n}
                           IN /\ \A r \in Range(received[n].students) \cup Range(received[n].marks) :
                                   \E s \in Landed("schools") : s.centre_number = r.centre_number
                              /\ \A r \in Range(received[n].marks) :
                                   /\ \E s \in Landed("subjects") : s.subject_code = r.subject_code
                                   /\ \E s \in Landed("students") : s.student_id = r.student_id
    BY DEF ReferencesFirst
  <2>1. SessionIsFed /\ held \in 1..version /\ version \in 1..Len(Versions)
        /\ Len(Versions) \in Nat /\ DOMAIN Versions = 1..Len(Versions)
    BY DataAssumption DEF UploadInv
  <2>2. ChunkRows(received[n]) <= MaxRows
    <3>1. PICK v \in session.source..held : n \in DOMAIN Chunks(v) /\ received[n] = Chunks(v)[n]
      BY <2>1 DEF SessionIsFed, Fed
    <3>2. v \in DOMAIN Versions
      BY <2>1, <3>1 DEF SessionIsFed
    <3> QED
      BY <3>1, <3>2, OneUpload
  <2> SUFFICES ASSUME session.source = version, 1..n \subseteq DOMAIN received
               PROVE  LET Landed(name) == UNION {Range(received[i][name]) : i \in 1..n}
                      IN /\ \A r \in Range(received[n].students) \cup Range(received[n].marks) :
                              \E s \in Landed("schools") : s.centre_number = r.centre_number
                         /\ \A r \in Range(received[n].marks) :
                              /\ \E s \in Landed("subjects") : s.subject_code = r.subject_code
                              /\ \E s \in Landed("students") : s.student_id = r.student_id
    BY <2>2
  <2> DEFINE v == version
             data == Versions[v]
             names == CollectionNames
             Landed(name) == UNION {Range(received[i][name]) : i \in 1..n}
  <2>3. ASSUME NEW c \in DOMAIN received
        PROVE  c \in DOMAIN Chunks(v) /\ received[c] = Chunks(v)[c]
    <3>1. PICK w \in session.source..held : c \in DOMAIN Chunks(w) /\ received[c] = Chunks(w)[c]
      BY <2>1 DEF SessionIsFed, Fed
    <3>2. w = v
      BY <2>1, <3>1
    <3> QED
      BY <3>1, <3>2
  <2>4. v \in DOMAIN Versions /\ WellKept(data)
    BY <2>1, DataAssumption
  <2> HIDE DEF v, data, Landed
  <2>5. ASSUME NEW i \in 1..4, NEW j \in 1..4, NEW r \in Range(received[n][names[j]])
        PROVE  r \in data[names[j]] /\ (i < j => \A s \in data[names[i]] : s \in Landed(names[i]))
    <3>1. n \in DOMAIN Chunks(v) /\ r \in Range(Chunks(v)[n][names[j]])
      BY <2>3
    <3>2. /\ r \in data[names[j]]
          /\ i < j => \A s \in data[names[i]] :
                        \E c \in 1..n : s \in Range(Chunks(v)[c][names[i]])
      BY <2>4, <3>1, LandedBefore DEF data
    <3>3. \A c \in 1..n : received[c] = Chunks(v)[c]
      BY <2>3
    <3> QED
      BY <3>2, <3>3 DEF Landed
  <2>6. names[1] = "schools" /\ names[2] = "subjects" /\ names[3] = "students" /\ names[4] = "marks"
    BY DEF CollectionNames
  <2> HIDE DEF names
  <2>7. /\ \A r \in Range(received[n]["students"]) :
             r \in data["students"] /\ \A s \in data["schools"] : s \in Landed("schools")
        /\ \A r \in Range(received[n]["marks"]) :
             /\ r \in data["marks"] /\ \A s \in data["schools"] : s \in Landed("schools")
             /\ \A s \in data["subjects"] : s \in Landed("subjects")
             /\ \A s \in data["students"] : s \in Landed("students")
    <3>1. 1 \in 1..4 /\ 2 \in 1..4 /\ 3 \in 1..4 /\ 4 \in 1..4 /\ 1 < 3 /\ 1 < 4 /\ 2 < 4 /\ 3 < 4
      OBVIOUS
    <3>2. \A r \in Range(received[n][names[3]]) :
            r \in data[names[3]] /\ \A s \in data[names[1]] : s \in Landed(names[1])
      BY <2>5, <3>1
    <3>3. \A r \in Range(received[n][names[4]]) :
            /\ r \in data[names[4]] /\ \A s \in data[names[1]] : s \in Landed(names[1])
            /\ \A s \in data[names[2]] : s \in Landed(names[2])
            /\ \A s \in data[names[3]] : s \in Landed(names[3])
      BY <2>5, <3>1
    <3> QED
      BY <2>6, <3>2, <3>3
  <2>8. /\ \A r \in data["students"] \cup data["marks"] :
             \E s \in data["schools"] : s.centre_number = r.centre_number
        /\ \A r \in data["marks"] :
             /\ \E s \in data["subjects"] : s.subject_code = r.subject_code
             /\ \E s \in data["students"] : s.student_id = r.student_id
    BY <2>4 DEF WellKept
  <2>9. /\ \A r \in Range(received[n]["students"]) \cup Range(received[n]["marks"]) :
             \E s \in Landed("schools") : s.centre_number = r.centre_number
        /\ \A r \in Range(received[n]["marks"]) :
             /\ \E s \in Landed("subjects") : s.subject_code = r.subject_code
             /\ \E s \in Landed("students") : s.student_id = r.student_id
    BY <2>7, <2>8
  <2> QED
    BY <2>9 DEF Landed
<1> QED
  BY <1>1, UploadKept, PTL

=============================================================================
