------------------------ MODULE ScopeReconcileProofs -------------------------
(***************************************************************************)
(* What digests and snapshots of a scope tell, for any students and        *)
(* entries, in whatever representation and order each side keeps them.     *)
(***************************************************************************)
EXTENDS ScopeReconcile, OrderTheorems

-----------------------------------------------------------------------------
(* Powers of ten *)

\* f holds the powers up to n.
PowersUpTo(n, f) == f = [i \in 0..n |-> IF i = 0 THEN 1 ELSE 10 * f[i - 1]]

LEMMA PowersExist ==
  ASSUME NEW n \in Nat
  PROVE  \E f : PowersUpTo(n, f)
<1> DEFINE T == {k \in Nat : \E f : PowersUpTo(k, f)}
<1>1. 0 \in T
  <2>1. PowersUpTo(0, [i \in 0..0 |-> 1])
    BY DEF PowersUpTo
  <2> QED
    BY <2>1
<1>2. ASSUME NEW k \in Nat, k \in T PROVE k + 1 \in T
  <2>1. PICK f : PowersUpTo(k, f)
    BY <1>2
  <2> DEFINE g == [i \in 0..(k + 1) |-> IF i = k + 1 THEN 10 * f[k] ELSE f[i]]
  <2>2. ASSUME NEW i \in 0..(k + 1)
        PROVE  g[i] = IF i = 0 THEN 1 ELSE 10 * g[i - 1]
    <3>1. CASE i = k + 1
      BY <3>1
    <3>2. CASE i \in 0..k
      <4>1. f[i] = IF i = 0 THEN 1 ELSE 10 * f[i - 1]
        BY <2>1, <3>2 DEF PowersUpTo
      <4> QED
        BY <3>2, <4>1
    <3> QED
      BY <3>1, <3>2
  <2>3. PowersUpTo(k + 1, g)
    BY <2>2 DEF PowersUpTo
  <2> HIDE DEF g
  <2> QED
    BY <2>3
<1>3. Nat \subseteq T
  <2> HIDE DEF T
  <2> QED
    BY <1>1, <1>2, Induct
<1> QED
  BY <1>3

\* There is only one power for each number.
LEMMA PowersAgree ==
  ASSUME NEW m \in Nat, NEW n \in Nat, NEW f, NEW g, PowersUpTo(m, f), PowersUpTo(n, g),
         NEW i \in Nat, i <= m, i <= n
  PROVE  f[i] = g[i]
<1> DEFINE T == {k \in Nat : k <= m /\ k <= n => f[k] = g[k]}
<1>1. /\ \A k \in 0..m : f[k] = IF k = 0 THEN 1 ELSE 10 * f[k - 1]
      /\ \A k \in 0..n : g[k] = IF k = 0 THEN 1 ELSE 10 * g[k - 1]
  BY DEF PowersUpTo
<1>2. 0 \in T
  BY <1>1
<1>3. ASSUME NEW k \in Nat, k \in T PROVE k + 1 \in T
  <2> SUFFICES ASSUME k + 1 <= m, k + 1 <= n PROVE f[k + 1] = g[k + 1]
    OBVIOUS
  <2>1. k + 1 \in 0..m /\ k + 1 \in 0..n /\ f[k] = g[k]
    BY <1>3
  <2>2. f[k + 1] = 10 * f[k] /\ g[k + 1] = 10 * g[k]
    BY <1>1, <2>1
  <2> QED
    BY <2>1, <2>2
<1>4. Nat \subseteq T
  <2> HIDE DEF T
  <2> QED
    BY <1>2, <1>3, Induct
<1> QED
  BY <1>4

LEMMA PowerUnfolds ==
  /\ PowerOfTen[0] = 1
  /\ \A k \in Nat : PowerOfTen[k + 1] = 10 * PowerOfTen[k]
<1> DEFINE P(n) == CHOOSE f : PowersUpTo(n, f)
           F == [n \in Nat |-> P(n)[n]]
           IsPower(f) == f = [k \in Nat |-> IF k = 0 THEN 1 ELSE 10 * f[k - 1]]
<1>1. \A n \in Nat : PowersUpTo(n, P(n))
  BY PowersExist
<1> HIDE DEF P
<1>2. ASSUME NEW k \in Nat PROVE F[k] = IF k = 0 THEN 1 ELSE 10 * F[k - 1]
  <2>1. P(k)[k] = IF k = 0 THEN 1 ELSE 10 * P(k)[k - 1]
    BY <1>1 DEF PowersUpTo
  <2>2. CASE k = 0
    BY <2>1, <2>2
  <2>3. CASE k # 0
    <3>1. k - 1 \in Nat /\ k - 1 <= k
      BY <2>3
    <3>2. P(k)[k - 1] = P(k - 1)[k - 1]
      BY <1>1, <3>1, PowersAgree
    <3> QED
      BY <2>1, <2>3, <3>1, <3>2
  <2> QED
    BY <2>2, <2>3
<1>3. IsPower(F)
  BY <1>2
<1>4. IsPower(PowerOfTen)
  <2> HIDE DEF F
  <2>1. \E f : IsPower(f)
    BY <1>3
  <2> QED
    BY <2>1 DEF PowerOfTen
<1> QED
  BY <1>4

LEMMA PowerIsPositive == \A k \in Nat : PowerOfTen[k] \in Nat \ {0}
<1> DEFINE T == {k \in Nat : PowerOfTen[k] \in Nat \ {0}}
<1>1. 0 \in T /\ \A k \in Nat : k \in T => k + 1 \in T
  BY PowerUnfolds
<1>2. Nat \subseteq T
  <2> HIDE DEF T
  <2> QED
    BY <1>1, Induct
<1> QED
  BY <1>2

LEMMA PowersMultiply ==
  ASSUME NEW i \in Nat, NEW j \in Nat
  PROVE  PowerOfTen[i + j] = PowerOfTen[i] * PowerOfTen[j]
<1> DEFINE T == {k \in Nat : PowerOfTen[i + k] = PowerOfTen[i] * PowerOfTen[k]}
<1>1. 0 \in T
  BY PowerUnfolds, PowerIsPositive
<1>2. ASSUME NEW k \in Nat, k \in T PROVE k + 1 \in T
  <2>1. PowerOfTen[i + (k + 1)] = 10 * PowerOfTen[i + k]
    <3>1. i + k \in Nat /\ i + (k + 1) = (i + k) + 1
      OBVIOUS
    <3> QED
      BY <3>1, PowerUnfolds
  <2>2. PowerOfTen[k + 1] = 10 * PowerOfTen[k]
    BY PowerUnfolds
  <2>3. PowerOfTen[i] \in Nat /\ PowerOfTen[k] \in Nat
    BY PowerIsPositive
  <2> QED
    BY <1>2, <2>1, <2>2, <2>3
<1>3. Nat \subseteq T
  <2> HIDE DEF T
  <2> QED
    BY <1>1, <1>2, Induct
<1> QED
  BY <1>3

-----------------------------------------------------------------------------
(* Canonical numbers *)

Decimals == [neg : BOOLEAN, coefficient : Nat, scale : Nat]

\* Without decimals that are 0 at the end.
IsShortest(c, k) == k = 0 \/ c % 10 # 0

LEMMA Divides ==
  ASSUME NEW a \in Nat, NEW q \in Nat \ {0}
  PROVE  (a * q) % q = 0
OBVIOUS

LEMMA Cancel ==
  ASSUME NEW a \in Nat, NEW b \in Nat, NEW q \in Nat \ {0}, a * q = b * q
  PROVE  a = b
OBVIOUS

\* _numstr keeps the sign and the value, and leaves no 0 to drop.
LEMMA NumStrKeepsValue ==
  ASSUME NEW n \in Decimals
  PROVE  /\ NumStr(n) \in Decimals
         /\ NumStr(n).neg = n.neg
         /\ NumStr(n).coefficient * PowerOfTen[n.scale]
              = n.coefficient * PowerOfTen[NumStr(n).scale]
         /\ IsShortest(NumStr(n).coefficient, NumStr(n).scale)
<1> DEFINE c == n.coefficient
           s == n.scale
           K == {k \in 0..s : c % PowerOfTen[s - k] = 0}
           m == Min(K)
           d == c \div PowerOfTen[s - m]
<1>1. c \in Nat /\ s \in Nat /\ n.neg \in BOOLEAN
  BY DEF Decimals
<1>2. m \in K /\ \A k \in K : m <= k
  <2>1. s \in K
    <3>1. s - s = 0 /\ s \in 0..s
      BY <1>1
    <3>2. c % 1 = 0
      BY <1>1
    <3> HIDE DEF c, s
    <3> QED
      BY <3>1, <3>2, PowerUnfolds
  <2>2. K \in SUBSET Nat
    BY <1>1
  <2> HIDE DEF K
  <2>3. \E x \in K : \A y \in K : x <= y
    BY <2>1, <2>2, Least
  <2> QED
    BY <2>3 DEF Min
<1>3. NumStr(n) = [neg |-> n.neg, coefficient |-> d, scale |-> m]
  BY DEF NumStr, Number
<1>4. m \in Nat /\ m <= s /\ s - m \in Nat
  BY <1>1, <1>2
<1>5. d \in Nat /\ c = d * PowerOfTen[s - m]
  <2>1. PowerOfTen[s - m] \in Nat \ {0} /\ c % PowerOfTen[s - m] = 0
    BY <1>2, <1>4, PowerIsPositive
  <2> HIDE DEF c, s, m
  <2> QED
    BY <1>1, <2>1
<1>6. d * PowerOfTen[s] = c * PowerOfTen[m]
  <2>1. PowerOfTen[s] = PowerOfTen[s - m] * PowerOfTen[m]
    <3>1. (s - m) + m = s
      BY <1>1, <1>4
    <3> HIDE DEF s, m
    <3> QED
      BY <1>4, <3>1, PowersMultiply
  <2>2. PowerOfTen[s - m] \in Nat /\ PowerOfTen[m] \in Nat
    BY <1>4, PowerIsPositive
  <2> HIDE DEF c, s, m, d
  <2> QED
    BY <1>5, <2>1, <2>2
<1>7. IsShortest(d, m)
  <2> SUFFICES ASSUME m # 0, d % 10 = 0 PROVE FALSE
    BY DEF IsShortest
  <2> DEFINE e == d \div 10
             q == PowerOfTen[s - m]
  <2>1. e \in Nat /\ d = e * 10
    <3> HIDE DEF d
    <3> QED
      BY <1>5
  <2>2. m - 1 \in 0..s /\ s - (m - 1) = (s - m) + 1
    BY <1>1, <1>4
  <2>3. PowerOfTen[s - (m - 1)] = 10 * q /\ q \in Nat \ {0}
    <3> HIDE DEF s, m
    <3> QED
      BY <1>4, <2>2, PowerUnfolds, PowerIsPositive
  <2>4. c = e * (10 * q)
    <3>1. c = d * q
      BY <1>5
    <3> HIDE DEF c, d, e, q
    <3> QED
      BY <2>1, <2>3, <3>1
  <2>5. c % (10 * q) = 0
    <3> HIDE DEF c, e, q
    <3>1. 10 * q \in Nat \ {0}
      BY <2>3
    <3> QED
      BY <2>1, <2>4, <3>1, Divides
  <2>6. m - 1 \in K
    BY <2>2, <2>3, <2>5
  <2> HIDE DEF K, m
  <2> QED
    BY <1>2, <1>4, <2>6
<1> HIDE DEF d, m
<1> QED
  BY <1>1, <1>3, <1>4, <1>5, <1>6, <1>7 DEF Decimals

\* There is one way to leave no 0.
LEMMA NotShorter ==
  ASSUME NEW c \in Nat, NEW d \in Nat, NEW k \in Nat, NEW l \in Nat, IsShortest(d, l),
         c * PowerOfTen[l] = d * PowerOfTen[k]
  PROVE  l <= k
<1> SUFFICES ASSUME k < l PROVE FALSE
  OBVIOUS
<1> DEFINE q == PowerOfTen[l - k - 1]
           p == PowerOfTen[k]
<1>1. l - k - 1 \in Nat /\ l - k = (l - k - 1) + 1 /\ l = (l - k) + k /\ l - k \in Nat
  OBVIOUS
<1>2. q \in Nat /\ p \in Nat \ {0}
  BY <1>1, PowerIsPositive
<1>3. PowerOfTen[l] = (10 * q) * p
  <2>1. PowerOfTen[l] = PowerOfTen[l - k] * p
    BY <1>1, PowersMultiply
  <2>2. PowerOfTen[l - k] = 10 * q
    BY <1>1, PowerUnfolds
  <2> QED
    BY <2>1, <2>2
<1> HIDE DEF p, q
<1>4. (c * (10 * q)) * p = d * p
  BY <1>2, <1>3 DEF p
<1>5. d = c * (10 * q)
  <2>1. c * (10 * q) \in Nat
    BY <1>2
  <2> QED
    BY <1>2, <1>4, <2>1, Cancel
<1>6. d % 10 = 0
  <2>1. d = 10 * (c * q) /\ c * q \in Nat
    BY <1>2, <1>5
  <2> QED
    BY <2>1
<1> QED
  BY <1>6 DEF IsShortest

\* Two numbers have one canonical string exactly if they have one sign and one value.
THEOREM NumStrAgrees ==
  ASSUME NEW m \in Decimals, NEW n \in Decimals
  PROVE  NumStr(m) = NumStr(n) <=>
           /\ m.neg = n.neg
           /\ m.coefficient * PowerOfTen[n.scale] = n.coefficient * PowerOfTen[m.scale]
<1> DEFINE a == m.coefficient
           b == n.coefficient
           p == PowerOfTen[m.scale]
           q == PowerOfTen[n.scale]
           c == NumStr(m).coefficient
           d == NumStr(n).coefficient
           k == NumStr(m).scale
           l == NumStr(n).scale
           u == PowerOfTen[k]
           v == PowerOfTen[l]
<1>1. /\ c \in Nat /\ k \in Nat /\ IsShortest(c, k) /\ c * p = a * u /\ NumStr(m).neg = m.neg
      /\ NumStr(m) = [neg |-> m.neg, coefficient |-> c, scale |-> k]
  BY NumStrKeepsValue DEF Decimals
<1>2. /\ d \in Nat /\ l \in Nat /\ IsShortest(d, l) /\ d * q = b * v /\ NumStr(n).neg = n.neg
      /\ NumStr(n) = [neg |-> n.neg, coefficient |-> d, scale |-> l]
  BY NumStrKeepsValue DEF Decimals
<1>3. a \in Nat /\ b \in Nat
  BY DEF Decimals
<1>4. p \in Nat \ {0} /\ q \in Nat \ {0} /\ u \in Nat \ {0} /\ v \in Nat \ {0}
  <2>1. m.scale \in Nat /\ n.scale \in Nat
    BY DEF Decimals
  <2> QED
    BY <1>1, <1>2, <2>1, PowerIsPositive
<1>5. NumStr(m) = NumStr(n) => c = d /\ k = l /\ u = v /\ m.neg = n.neg
  BY <1>1, <1>2
<1> HIDE DEF a, b, c, d, p, q, u, v, k, l
<1>6. ASSUME c = d, u = v PROVE a * q = b * p
  <2>1. (a * q) * u = (b * p) * u
    <3>1. (a * q) * u = (a * u) * q /\ (b * p) * u = (b * u) * p
      BY <1>3, <1>4
    <3>2. (a * u) * q = (c * p) * q /\ (b * u) * p = (c * q) * p
      BY <1>1, <1>2, <1>6
    <3>3. (c * p) * q = (c * q) * p
      BY <1>1, <1>4
    <3> QED
      BY <3>1, <3>2, <3>3
  <2>2. a * q \in Nat /\ b * p \in Nat
    BY <1>3, <1>4
  <2> QED
    BY <1>4, <2>1, <2>2, Cancel
<1>7. ASSUME a * q = b * p PROVE c = d /\ k = l
  <2>1. c * v = d * u
    <3>1. (c * v) * (p * q) = (c * p) * (v * q) /\ (d * u) * (p * q) = (d * q) * (u * p)
      BY <1>1, <1>2, <1>4
    <3>2. (c * p) * (v * q) = (a * u) * (v * q) /\ (d * q) * (u * p) = (b * v) * (u * p)
      BY <1>1, <1>2
    <3>3. (a * u) * (v * q) = (a * q) * (u * v) /\ (b * v) * (u * p) = (b * p) * (u * v)
      BY <1>3, <1>4
    <3>4. (c * v) * (p * q) = (d * u) * (p * q)
      BY <1>7, <3>1, <3>2, <3>3
    <3>5. c * v \in Nat /\ d * u \in Nat /\ p * q \in Nat \ {0}
      BY <1>1, <1>2, <1>4
    <3> QED
      BY <3>4, <3>5, Cancel
  <2>2. l <= k /\ k <= l
    BY <1>1, <1>2, <2>1, NotShorter DEF u, v
  <2>3. k = l
    BY <1>1, <1>2, <2>2
  <2>4. u = v
    BY <2>3 DEF u, v
  <2> QED
    BY <1>1, <1>2, <1>4, <2>1, <2>3, <2>4, Cancel
<1>8. a * q = b * p <=>
        m.coefficient * PowerOfTen[n.scale] = n.coefficient * PowerOfTen[m.scale]
  BY DEF a, b, p, q
<1>9. ASSUME m.neg = n.neg, a * q = b * p PROVE NumStr(m) = NumStr(n)
  BY <1>1, <1>2, <1>7, <1>9
<1> QED
  BY <1>5, <1>6, <1>8, <1>9

-----------------------------------------------------------------------------
(* Digests *)

\* The students that come before each.
Earlier(S) == [s \in S |-> {t \in S : t < s}]

InPlace(S, n) == CHOOSE s \in S : Cardinality(Earlier(S)[s]) = n - 1

\* The digest of rows, in whatever order they are read.
DigestOf(rows) ==
  [n \in 1..Cardinality(WithData(rows)) |->
     Record(InPlace(WithData(rows), n), rows[InPlace(WithData(rows), n)])]

LEMMA SomeStudents ==
  ASSUME NEW S, S \subseteq Students
  PROVE  IsFiniteSet(S) /\ S \subseteq Nat
<1>1. Students \subseteq Nat /\ IsFiniteSet(Students)
  BY ReconcileAssumption
<1> QED
  BY <1>1, FS_Subset

LEMMA StudentsInOrder ==
  ASSUME NEW S, S \subseteq Nat
  PROVE  TotalOrder(Earlier(S), S)
<1>1. Earlier(S) \in [S -> SUBSET S]
  BY DEF Earlier
<1>2. ASSUME NEW s \in S PROVE s \notin Earlier(S)[s]
  BY DEF Earlier
<1>3. ASSUME NEW s \in S, NEW t \in S, s < t
      PROVE  s \in Earlier(S)[t] /\ Earlier(S)[s] \subseteq Earlier(S)[t]
  <2>1. \A r \in S : r < s => r < t
    BY <1>3
  <2>2. Earlier(S)[s] = {r \in S : r < s} /\ Earlier(S)[t] = {r \in S : r < t}
    BY DEF Earlier
  <2> QED
    BY <1>3, <2>1, <2>2
<1>4. \A s, t \in S : s # t => s < t \/ t < s
  OBVIOUS
<1> QED
  BY <1>1, <1>2, <1>3, <1>4 DEF TotalOrder

\* Each place has its student.
LEMMA Places ==
  ASSUME NEW S, S \subseteq Students, NEW n \in 1..Cardinality(S)
  PROVE  /\ InPlace(S, n) \in S /\ Cardinality(Earlier(S)[InPlace(S, n)]) = n - 1
         /\ \A s \in S : Cardinality(Earlier(S)[s]) = n - 1 => s = InPlace(S, n)
<1>1. IsFiniteSet(S) /\ TotalOrder(Earlier(S), S)
  BY SomeStudents, StudentsInOrder
<1>2. /\ Cardinality(S) \in Nat
      /\ \A i, j \in S : Cardinality(Earlier(S)[i]) = Cardinality(Earlier(S)[j]) => i = j
      /\ \A k \in 0..(Cardinality(S) - 1) : \E i \in S : Cardinality(Earlier(S)[i]) = k
  <2> HIDE DEF InPlace
  <2> QED
    BY <1>1, RankBijection
<1>3. n - 1 \in 0..(Cardinality(S) - 1)
  BY <1>2
<1>4. \E s \in S : Cardinality(Earlier(S)[s]) = n - 1
  BY <1>2, <1>3
<1>5. InPlace(S, n) \in S /\ Cardinality(Earlier(S)[InPlace(S, n)]) = n - 1
  BY <1>4 DEF InPlace
<1> QED
  BY <1>2, <1>5

LEMMA RecordsAreOfStudents ==
  ASSUME NEW s, NEW row
  PROVE  Record(s, row).student_id = s
BY DEF Record, NormalizeTotalRecord, NormalizeItemRecord

\* The order in which the rows are read is of no consequence.
LEMMA OneOrder ==
  ASSUME NEW rows, WithData(rows) \subseteq Students,
         NEW order \in Bijection(1..Cardinality(WithData(rows)), WithData(rows))
  PROVE  ScopeDigest([i \in DOMAIN order |-> Record(order[i], rows[order[i]])]) = DigestOf(rows)
<1> DEFINE W == WithData(rows)
           N == Cardinality(W)
           D == 1..N
           records == [i \in DOMAIN order |-> Record(order[i], rows[order[i]])]
           Student(i) == records[i].student_id
           ahead == [i \in DOMAIN records |->
                       {j \in DOMAIN records :
                          Student(j) < Student(i) \/ (Student(j) = Student(i) /\ j < i)}]
           At(n) == CHOOSE i \in DOMAIN records : Cardinality(ahead[i]) = n - 1
<1>1. IsFiniteSet(W) /\ W \subseteq Nat /\ N \in Nat
  <2>1. IsFiniteSet(W) /\ W \subseteq Nat
    BY SomeStudents
  <2> QED
    BY <2>1, FS_CardinalityType
<1>2. /\ order \in [D -> W]
      /\ \A i, j \in D : order[i] = order[j] => i = j
      /\ \A s \in W : \E i \in D : order[i] = s
  BY DEF Bijection, Injection, Surjection, IsInjective
<1>3. DOMAIN order = D /\ DOMAIN records = D
  BY <1>2
<1>4. \A i \in D : records[i].student_id = order[i]
  BY <1>3, RecordsAreOfStudents
<1>5. ScopeDigest(records) = [n \in D |-> records[At(n)]]
  <2>1. ScopeDigest(records) = [n \in DOMAIN records |-> records[At(n)]]
    <3> HIDE DEF records
    <3> QED
      BY DEF ScopeDigest
  <2> HIDE DEF records, D, At
  <2> QED
    BY <1>3, <2>1
<1>6. ASSUME NEW i \in D PROVE Cardinality(ahead[i]) = Cardinality(Earlier(W)[order[i]])
  <2> DEFINE M == ahead[i]
             T == Earlier(W)[order[i]]
  <2>1. IsFiniteSet(M)
    <3>1. IsFiniteSet(D)
      BY <1>1, FS_Interval
    <3>2. M \in SUBSET D
      BY <1>3
    <3> HIDE DEF D, M
    <3> QED
      BY <3>1, <3>2, FS_Subset
  <2>2. order[i] \in W
    BY <1>2
  <2>3. M = {j \in D : order[j] < order[i]}
    <3>1. M = {j \in D : order[j] < order[i] \/ (order[j] = order[i] /\ j < i)}
      <4> HIDE DEF records, D
      <4> QED
        BY <1>3, <1>4
    <3>2. \A j \in D : order[j] = order[i] => ~(j < i)
      BY <1>1, <1>2
    <3> HIDE DEF M, D
    <3> QED
      BY <3>1, <3>2
  <2>4. T = {t \in W : t < order[i]}
    BY <2>2 DEF Earlier
  <2> HIDE DEF D, W, ahead
  <2>5. (\A j \in M : order[j] \in T) /\ \A t \in T : \E j \in M : t = order[j]
    BY <1>2, <2>3, <2>4
  <2>6. \A j, k \in M : order[j] = order[k] => j = k
    BY <1>2, <2>3
  <2> HIDE DEF M, T
  <2>7. Cardinality(T) = Cardinality(M)
    BY <2>1, <2>5, <2>6, Renamed
  <2> QED
    BY <2>7 DEF M, T
<1>7. ASSUME NEW n \in D PROVE At(n) \in D /\ order[At(n)] = InPlace(W, n)
  <2>1. /\ InPlace(W, n) \in W /\ Cardinality(Earlier(W)[InPlace(W, n)]) = n - 1
        /\ \A s \in W : Cardinality(Earlier(W)[s]) = n - 1 => s = InPlace(W, n)
    BY Places
  <2> HIDE DEF D, W, ahead, records
  <2>2. \E i \in D : Cardinality(ahead[i]) = n - 1
    BY <1>2, <1>6, <2>1
  <2>3. At(n) \in D /\ Cardinality(ahead[At(n)]) = n - 1
    BY <1>3, <2>2
  <2> HIDE DEF At
  <2> QED
    BY <1>2, <1>6, <2>1, <2>3
<1>8. DigestOf(rows) = [n \in D |-> Record(InPlace(W, n), rows[InPlace(W, n)])]
  BY DEF DigestOf
<1>9. ASSUME NEW n \in D PROVE records[At(n)] = Record(InPlace(W, n), rows[InPlace(W, n)])
  <2> HIDE DEF D, W, At
  <2> QED
    BY <1>3, <1>7
<1> HIDE DEF D, W, At, records
<1>10. [n \in D |-> records[At(n)]] = [n \in D |-> Record(InPlace(W, n), rows[InPlace(W, n)])]
  BY <1>9
<1>11. ScopeDigest(records) = DigestOf(rows)
  BY <1>5, <1>8, <1>10
<1> QED
  BY <1>11 DEF records

LEMMA OneDigest ==
  ASSUME NEW rows, WithData(rows) \subseteq Students
  PROVE  Digests(rows) = {DigestOf(rows)}
<1> DEFINE W == WithData(rows)
           Orders == Bijection(1..Cardinality(W), W)
<1>1. Orders # {}
  <2>1. IsFiniteSet(W)
    BY SomeStudents
  <2> QED
    BY <2>1, FS_CardinalityType DEF ExistsBijection
<1>2. \A order \in Orders :
        ScopeDigest([i \in DOMAIN order |-> Record(order[i], rows[order[i]])]) = DigestOf(rows)
  BY OneOrder
<1>3. Digests(rows) =
        {ScopeDigest([i \in DOMAIN order |-> Record(order[i], rows[order[i]])]) : order \in Orders}
  BY DEF Digests, RecordLists
<1> HIDE DEF Orders
<1> QED
  BY <1>1, <1>2, <1>3

\* A digest tells the students with data, and the record of each.
THEOREM DigestsTell ==
  ASSUME NEW rows, NEW others, WithData(rows) \subseteq Students, WithData(others) \subseteq Students
  PROVE  DigestOf(rows) = DigestOf(others) <=>
           /\ WithData(rows) = WithData(others)
           /\ \A s \in WithData(rows) : Record(s, rows[s]) = Record(s, others[s])
<1> DEFINE V == WithData(rows)
           W == WithData(others)
           Listed(S) == {InPlace(S, n) : n \in 1..Cardinality(S)}
<1>0. Cardinality(V) \in Nat /\ Cardinality(W) \in Nat
  BY SomeStudents, FS_CardinalityType
<1>1. ASSUME NEW S, S \subseteq Students PROVE Listed(S) = S
  <2>1. IsFiniteSet(S) /\ TotalOrder(Earlier(S), S)
    BY <1>1, SomeStudents, StudentsInOrder
  <2>2. {CHOOSE s \in S : Cardinality(Earlier(S)[s]) = n - 1 : n \in 1..Cardinality(S)} = S
    BY <2>1, RankedList
  <2> QED
    BY <2>2 DEF InPlace
<1>2. ASSUME DigestOf(rows) = DigestOf(others)
      PROVE  V = W /\ \A s \in V : Record(s, rows[s]) = Record(s, others[s])
  <2>1. Cardinality(V) = Cardinality(W)
    <3>1. DOMAIN DigestOf(rows) = 1..Cardinality(V) /\ DOMAIN DigestOf(others) = 1..Cardinality(W)
      BY DEF DigestOf
    <3>2. 1..Cardinality(V) = 1..Cardinality(W)
      BY <1>2, <3>1
    <3> HIDE DEF V, W
    <3> QED
      BY <1>0, <3>2
  <2>2. ASSUME NEW n \in 1..Cardinality(V)
        PROVE  /\ InPlace(V, n) = InPlace(W, n)
               /\ Record(InPlace(V, n), rows[InPlace(V, n)])
                    = Record(InPlace(W, n), others[InPlace(W, n)])
    <3>1. Record(InPlace(V, n), rows[InPlace(V, n)])
            = Record(InPlace(W, n), others[InPlace(W, n)])
      BY <1>2, <2>1 DEF DigestOf
    <3> HIDE DEF V, W
    <3> QED
      BY <3>1, RecordsAreOfStudents
  <2>3. V = W
    <3>1. Listed(V) = Listed(W)
      <4> HIDE DEF V, W
      <4> QED
        BY <2>1, <2>2
    <3> HIDE DEF Listed
    <3> QED
      BY <3>1, <1>1
  <2>4. ASSUME NEW s \in V PROVE Record(s, rows[s]) = Record(s, others[s])
    <3>1. s \in Listed(V)
      <4> HIDE DEF Listed
      <4> QED
        BY <1>1
    <3>2. PICK n \in 1..Cardinality(V) : s = InPlace(V, n)
      BY <3>1
    <3> HIDE DEF V, W
    <3> QED
      BY <2>2, <3>2
  <2> QED
    BY <2>3, <2>4
<1>3. ASSUME V = W, \A s \in V : Record(s, rows[s]) = Record(s, others[s])
      PROVE  DigestOf(rows) = DigestOf(others)
  <2>1. ASSUME NEW n \in 1..Cardinality(V)
        PROVE  Record(InPlace(V, n), rows[InPlace(V, n)])
                 = Record(InPlace(V, n), others[InPlace(V, n)])
    <3>1. InPlace(V, n) \in V
      BY Places
    <3> HIDE DEF V
    <3> QED
      BY <1>3, <3>1
  <2>2. /\ DigestOf(rows) = [n \in 1..Cardinality(V) |-> Record(InPlace(V, n), rows[InPlace(V, n)])]
        /\ DigestOf(others)
             = [n \in 1..Cardinality(V) |-> Record(InPlace(V, n), others[InPlace(V, n)])]
    BY <1>3 DEF DigestOf
  <2> HIDE DEF V
  <2> QED
    BY <2>1, <2>2
<1> QED
  BY <1>2, <1>3

-----------------------------------------------------------------------------
(* What the rows are, and of what rows a digest is *)

IsRow(row) ==
  /\ row = [present |-> row.present, marks |-> row.marks] /\ row.present \in BOOLEAN
  /\ mode = "TOTAL_MARKS" => row.marks \in Decimals \cup {None}
  /\ mode = "ITEM_LEVEL" => row.marks \in [DOMAIN row.marks -> Decimals]

IsRows(rows) == WithData(rows) \subseteq Students /\ \A s \in WithData(rows) : IsRow(rows[s])

\* The rows a station takes over.
Taken(snap) ==
  [s \in DOMAIN snap.rows |->
     [present |-> snap.rows[s].is_present, marks |-> snap.rows[s].total]]

\* What Central holds has no minus 0, and what waits for Central was typed.  A
\* digest is that of the rows it was taken of; that of a snapshot is the digest of
\* the rows as they travel, too.
ReconcileInv ==
  /\ mode \in DOMAIN Entries
  /\ IsRows(station) /\ IsRows(central) /\ NoMinusZero(central)
  /\ mode = "ITEM_LEVEL" => \A s \in WithData(station) : station[s].marks # None
  /\ \A s \in pending : s \in WithData(station) /\ station[s] \in Entries[mode]
  /\ asked # None => IsRows(asked.rows) /\ asked.digest \in Digests(asked.rows)
  /\ snapshot # None =>
       /\ mode = "TOTAL_MARKS"
       /\ IsRows(Taken(snapshot)) /\ snapshot.central_digest \in Digests(Taken(snapshot))

LEMMA ModeIsOne ==
  ASSUME ReconcileInv
  PROVE  mode \in {"TOTAL_MARKS", "ITEM_LEVEL"}
BY EntriesAssumption DEF ReconcileInv

\* What is entered is a row.
LEMMA EntriesAreRows ==
  ASSUME mode \in DOMAIN Entries, NEW row \in Entries[mode]
  PROVE  IsRow(row) /\ (mode = "ITEM_LEVEL" => row.marks # None)
<1>1. /\ row = [present |-> row.present, marks |-> row.marks] /\ row.present \in BOOLEAN
      /\ mode = "TOTAL_MARKS" => row.marks \in Typed \cup {None}
      /\ mode = "ITEM_LEVEL" => row.marks # None /\ row.marks \in [DOMAIN row.marks -> Typed]
  BY EntriesAssumption
<1>2. Typed \subseteq Decimals
  BY DEF Typed, Decimals
<1>3. [DOMAIN row.marks -> Typed] \subseteq [DOMAIN row.marks -> Decimals]
  BY <1>2
<1> QED
  BY <1>1, <1>2, <1>3 DEF IsRow

\* The column keeps no sign of 0.
LEMMA ColumnIsNumber ==
  ASSUME NEW n \in Typed
  PROVE  Column(n) \in Decimals /\ ~MinusZero(Column(n))
<1> DEFINE p == PowerOfTen[Scale - n.scale]
           b == n.neg /\ n.coefficient # 0
<1>1. n.neg \in BOOLEAN /\ n.coefficient \in Nat /\ Scale \in Nat /\ Scale - n.scale \in Nat
  BY ReconcileAssumption DEF Typed
<1>2. p \in Nat \ {0}
  BY <1>1, PowerIsPositive
<1>3. Column(n) = [neg |-> b, coefficient |-> n.coefficient * p, scale |-> Scale]
  BY DEF Column, Number
<1>4. b \in BOOLEAN /\ (n.coefficient = 0 => b = FALSE)
  BY <1>1
<1> HIDE DEF p, b
<1>5. n.coefficient * p \in Nat /\ (n.coefficient * p = 0 => n.coefficient = 0)
  BY <1>1, <1>2
<1>6. Column(n) \in Decimals
  BY <1>1, <1>3, <1>4, <1>5 DEF Decimals
<1>7. ~MinusZero(Column(n))
  BY <1>3, <1>4, <1>5 DEF MinusZero
<1> QED
  BY <1>6, <1>7

LEMMA StoredIsRow ==
  ASSUME mode \in DOMAIN Entries, NEW row \in Entries[mode]
  PROVE  IsRow(Stored(row)) /\ ~HasMinusZero(Stored(row))
<1> DEFINE m == IF mode = "ITEM_LEVEL" THEN [q \in DOMAIN row.marks |-> Column(row.marks[q])]
                ELSE IF row.marks = None THEN None ELSE Column(row.marks)
<1>1. /\ row = [present |-> row.present, marks |-> row.marks] /\ row.present \in BOOLEAN
      /\ mode = "TOTAL_MARKS" => row.marks \in Typed \cup {None}
      /\ mode = "ITEM_LEVEL" => row.marks \in [DOMAIN row.marks -> Typed]
      /\ mode \in {"TOTAL_MARKS", "ITEM_LEVEL"}
  BY EntriesAssumption
<1>2. Stored(row) = [present |-> row.present, marks |-> m]
  BY <1>1 DEF Stored
<1>3. CASE mode = "TOTAL_MARKS"
  <2>1. m \in Decimals \cup {None} /\ (m # None => ~MinusZero(m))
    BY <1>1, <1>3, ColumnIsNumber
  <2> HIDE DEF m
  <2> QED
    BY <1>1, <1>2, <1>3, <2>1 DEF IsRow, HasMinusZero
<1>4. CASE mode = "ITEM_LEVEL"
  <2>1. \A q \in DOMAIN row.marks :
          Column(row.marks[q]) \in Decimals /\ ~MinusZero(Column(row.marks[q]))
    BY <1>1, <1>4, ColumnIsNumber
  <2>2. m \in [DOMAIN m -> Decimals] /\ \A q \in DOMAIN m : ~MinusZero(m[q])
    BY <1>4, <2>1
  <2> HIDE DEF m
  <2> QED
    BY <1>1, <1>2, <1>4, <2>2 DEF IsRow, HasMinusZero
<1> QED
  BY <1>1, <1>3, <1>4

LEMMA WithIsRows ==
  ASSUME NEW rows, IsRows(rows), NEW s \in Students, NEW row, IsRow(row)
  PROVE  /\ IsRows(With(rows, s, row))
         /\ NoMinusZero(rows) /\ ~HasMinusZero(row) => NoMinusZero(With(rows, s, row))
BY DEF IsRows, With, WithData, NoMinusZero

\* A float is the same number.
LEMMA FloatKeepsValue ==
  ASSUME NEW n \in Decimals
  PROVE  Float(n) \in Decimals /\ NumStr(Float(n)) = NumStr(n)
<1> DEFINE m == NumStr(n)
<1>1. /\ m \in Decimals /\ m.neg = n.neg
      /\ m.coefficient * PowerOfTen[n.scale] = n.coefficient * PowerOfTen[m.scale]
  BY NumStrKeepsValue
<1> HIDE DEF m
<1>2. NumStr(m) = NumStr(n)
  BY <1>1, NumStrAgrees
<1>3. CASE m.scale > 0
  BY <1>1, <1>2, <1>3 DEF Float, m
<1>4. CASE ~(m.scale > 0)
  <2> DEFINE f == [neg |-> n.neg, coefficient |-> m.coefficient * 10, scale |-> 1]
  <2>1. Float(n) = f
    BY <1>4 DEF Float, Number, m
  <2>2. m.scale = 0 /\ m.coefficient \in Nat /\ n.neg \in BOOLEAN
    BY <1>1, <1>4 DEF Decimals
  <2>3. f \in Decimals
    BY <2>2 DEF Decimals
  <2>4. PowerOfTen[0] = 1 /\ PowerOfTen[1] = 10
    <3>1. PowerOfTen[0 + 1] = 10 * PowerOfTen[0]
      BY PowerUnfolds
    <3> QED
      BY <3>1, PowerUnfolds
  <2>5. f.coefficient * PowerOfTen[m.scale] = m.coefficient * PowerOfTen[f.scale]
    BY <2>2, <2>4
  <2>6. f.neg = m.neg
    BY <1>1
  <2> HIDE DEF f
  <2>7. NumStr(f) = NumStr(m)
    BY <1>1, <2>3, <2>5, <2>6, NumStrAgrees
  <2> QED
    BY <1>2, <2>1, <2>3, <2>7
<1> QED
  BY <1>3, <1>4

LEMMA DigestsStay ==
  ASSUME UNCHANGED mode, NEW rows
  PROVE  Digests(rows)' = Digests(rows)
BY DEF Digests, RecordLists, Record, WithData

LEMMA RowsStay ==
  ASSUME UNCHANGED mode, NEW rows
  PROVE  /\ IsRows(rows)' <=> IsRows(rows)
         /\ NoMinusZero(rows)' <=> NoMinusZero(rows)
BY DEF IsRows, IsRow, NoMinusZero, HasMinusZero, WithData

\* A row has one record, stored as it was or sent as a float.
LEMMA SnapshotKeeps ==
  ASSUME mode = "TOTAL_MARKS", NEW rows, IsRows(rows), NEW snap,
         snap.rows = [s \in WithData(rows) |-> SnapshotRow(rows[s])]
  PROVE  IsRows(Taken(snap)) /\ Digests(Taken(snap)) = Digests(rows)
<1>1. WithData(Taken(snap)) = WithData(rows) /\ WithData(rows) \subseteq Students
  BY DEF Taken, WithData, IsRows
<1>2. ASSUME NEW s \in WithData(rows)
      PROVE  IsRow(Taken(snap)[s]) /\ Record(s, Taken(snap)[s]) = Record(s, rows[s])
  <2> DEFINE row == rows[s]
             total == IF row.marks = None THEN None ELSE Float(row.marks)
  <2>1. row.present \in BOOLEAN /\ row.marks \in Decimals \cup {None}
    BY DEF IsRows, IsRow
  <2>2. Taken(snap)[s] = [present |-> row.present, marks |-> total]
    BY DEF Taken, SnapshotRow
  <2> HIDE DEF row
  <2>3. CASE row.marks = None
    BY <2>1, <2>2, <2>3 DEF IsRow, Record, NormalizeTotalRecord, row
  <2>4. CASE row.marks # None
    <3>1. Float(row.marks) \in Decimals /\ NumStr(Float(row.marks)) = NumStr(row.marks)
      BY <2>1, <2>4, FloatKeepsValue
    <3>2. None \notin Decimals
      BY ReconcileAssumption DEF Decimals
    <3> QED
      BY <2>1, <2>2, <2>4, <3>1, <3>2 DEF IsRow, Record, NormalizeTotalRecord, row
  <2> QED
    BY <2>3, <2>4
<1>3. IsRows(Taken(snap))
  BY <1>1, <1>2 DEF IsRows
<1>4. DigestOf(Taken(snap)) = DigestOf(rows)
  BY <1>1, <1>2, DigestsTell
<1> QED
  BY <1>1, <1>3, <1>4, OneDigest

LEMMA ReconcileInit == Init => ReconcileInv
<1> SUFFICES ASSUME Init PROVE ReconcileInv
  OBVIOUS
<1>1. WithData(NoData) = {}
  BY DEF WithData, NoData
<1>2. IsRows(NoData) /\ NoMinusZero(NoData)
  BY <1>1 DEF IsRows, NoMinusZero
<1> QED
  BY <1>1, <1>2 DEF Init, ReconcileInv

LEMMA ReconcileStep == ReconcileInv /\ [Next]_vars => ReconcileInv'
<1> SUFFICES ASSUME ReconcileInv, [Next]_vars PROVE ReconcileInv'
  OBVIOUS
<1>0. mode' = mode
  BY DEF Next, Enter, Correct, Sync, Reinstall, Ask, Compare, TakeSnapshot, Restore, vars
<1>1. \A rows : /\ Digests(rows)' = Digests(rows) /\ (IsRows(rows)' <=> IsRows(rows))
                /\ NoMinusZero(rows)' <=> NoMinusZero(rows)
  BY <1>0, DigestsStay, RowsStay
<1>2. ASSUME NEW s \in Students, NEW row \in Entries[mode], Enter(s, row) PROVE ReconcileInv'
  <2>1. IsRow(row) /\ (mode = "ITEM_LEVEL" => row.marks # None)
    BY EntriesAreRows DEF ReconcileInv
  <2>2. IsRows(With(station, s, row))
    BY <2>1, WithIsRows DEF ReconcileInv
  <2>3. /\ mode = "ITEM_LEVEL" =>
             \A t \in WithData(With(station, s, row)) : With(station, s, row)[t].marks # None
        /\ \A t \in pending \cup {s} :
             /\ t \in WithData(With(station, s, row))
             /\ With(station, s, row)[t] \in Entries[mode]
    BY <2>1 DEF With, WithData, ReconcileInv
  <2> QED
    BY <1>0, <1>1, <1>2, <2>2, <2>3 DEF Enter, ReconcileInv, WithData, Taken
<1>3. ASSUME NEW s \in Students, NEW row \in Entries[mode], Correct(s, row) PROVE ReconcileInv'
  <2>1. IsRows(With(central, s, Stored(row))) /\ NoMinusZero(With(central, s, Stored(row)))
    BY StoredIsRow, WithIsRows DEF ReconcileInv
  <2> QED
    BY <1>0, <1>1, <1>3, <2>1 DEF Correct, ReconcileInv, WithData, Taken
<1>4. ASSUME NEW s \in Students, Sync(s) PROVE ReconcileInv'
  <2>1. station[s] \in Entries[mode]
    BY <1>4 DEF Sync, ReconcileInv
  <2>2. /\ IsRows(With(central, s, Stored(station[s])))
        /\ NoMinusZero(With(central, s, Stored(station[s])))
    BY <2>1, StoredIsRow, WithIsRows DEF ReconcileInv
  <2> QED
    BY <1>0, <1>1, <1>4, <2>2 DEF Sync, ReconcileInv, WithData, Taken
<1>5. CASE Reinstall
  <2>1. WithData(NoData) = {} /\ IsRows(NoData)
    BY DEF WithData, NoData, IsRows
  <2> QED
    BY <1>0, <1>1, <1>5, <2>1 DEF Reinstall, ReconcileInv, WithData
<1>6. CASE Ask
  <2>1. asked'.rows = station /\ asked'.digest \in Digests(station)
    BY <1>6 DEF Ask
  <2> QED
    BY <1>0, <1>1, <1>6, <2>1 DEF Ask, ReconcileInv, WithData, Taken
<1>7. CASE Compare
  BY <1>0, <1>1, <1>7 DEF Compare, ReconcileInv, WithData, Taken
<1>8. CASE TakeSnapshot
  <2>1. /\ snapshot'.rows = [s \in WithData(central) |-> SnapshotRow(central[s])]
        /\ snapshot'.central_digest \in Digests(central)
    BY <1>8 DEF TakeSnapshot
  <2>2. /\ IsRows(Taken(snapshot'))
        /\ snapshot'.central_digest \in Digests(Taken(snapshot'))
    BY <1>8, <2>1, SnapshotKeeps DEF TakeSnapshot, ReconcileInv
  <2> QED
    BY <1>0, <1>1, <1>8, <2>2 DEF TakeSnapshot, ReconcileInv, WithData, Taken
<1>9. CASE Restore
  <2>1. /\ mode = "TOTAL_MARKS" /\ IsRows(Taken(snapshot)) /\ IsRows(station)
    BY <1>9 DEF Restore, ReconcileInv
  <2>2. /\ WithData(station') = WithData(station) \cup DOMAIN snapshot.rows
        /\ \A s \in DOMAIN snapshot.rows \ pending : station'[s] = Taken(snapshot)[s]
        /\ \A s \in WithData(station') :
             s \notin DOMAIN snapshot.rows \ pending => station'[s] = station[s]
    BY <1>9 DEF Restore, WithData, Taken
  <2>3. WithData(Taken(snapshot)) = DOMAIN snapshot.rows
    BY DEF WithData, Taken
  <2>4. pending \subseteq WithData(station)
    BY DEF ReconcileInv
  <2>5. IsRows(station')
    BY <2>1, <2>2, <2>3, <2>4 DEF IsRows, WithData
  <2>6. \A s \in pending : s \in WithData(station') /\ station'[s] \in Entries[mode]
    BY <2>2, <2>4 DEF ReconcileInv
  <2> QED
    BY <1>0, <1>1, <1>9, <2>1, <2>5, <2>6 DEF Restore, ReconcileInv, WithData, Taken
<1>10. CASE UNCHANGED vars
  BY <1>0, <1>1, <1>10 DEF vars, bounds, ReconcileInv, WithData, Taken
<1> QED
  BY <1>2, <1>3, <1>4, <1>5, <1>6, <1>7, <1>8, <1>9, <1>10 DEF Next

LEMMA ReconcileKept == Spec => []ReconcileInv
BY ReconcileInit, ReconcileStep, PTL DEF Spec

-----------------------------------------------------------------------------
(* Counts *)

\* Places of a list are counted by counting the students listed there.
LEMMA CountedByStudent ==
  ASSUME NEW W, W \subseteq Students, NEW order \in Bijection(1..Cardinality(W), W),
         NEW M \in SUBSET (1..Cardinality(W)), NEW T \in SUBSET W,
         \A i \in 1..Cardinality(W) : i \in M <=> order[i] \in T
  PROVE  Cardinality(M) = Cardinality(T)
<1> DEFINE D == 1..Cardinality(W)
<1>1. /\ \A i, j \in D : order[i] = order[j] => i = j
      /\ \A s \in W : \E i \in D : order[i] = s
  BY DEF Bijection, Injection, Surjection, IsInjective
<1>2. IsFiniteSet(M)
  <2>1. IsFiniteSet(W)
    BY SomeStudents
  <2>2. IsFiniteSet(D)
    BY <2>1, FS_CardinalityType, FS_Interval
  <2> HIDE DEF D
  <2> QED
    BY <2>2, FS_Subset DEF D
<1>3. /\ \A i, j \in M : order[i] = order[j] => i = j
      /\ \A i \in M : order[i] \in T
      /\ \A s \in T : \E i \in M : s = order[i]
  BY <1>1
<1> QED
  BY <1>2, <1>3, Renamed

\* The item set without items.
LEMMA EmptySet ==
  ASSUME NEW S, NEW f \in [{} -> S]
  PROVE  f = <<>>
OBVIOUS

\* The counts of a scope are those of its students and their marks, for any rows and
\* any order in which they are read.
THEOREM CountsAreRight == Spec => []CountsAreOfMarks
<1>1. ReconcileInv => CountsAreOfMarks
  <2> SUFFICES ASSUME ReconcileInv, NEW records \in RecordLists(station)
               PROVE  LET counts == CountsFromRecords(records)
                          marked == {s \in WithData(station) : station[s].marks \notin {None, <<>>}}
                      IN /\ counts.present
                              = Cardinality({s \in WithData(station) : station[s].present})
                         /\ counts.present + counts.absent = Cardinality(WithData(station))
                         /\ counts.with_marks = Cardinality(marked)
    BY DEF CountsAreOfMarks
  <2> DEFINE W == WithData(station)
             D == 1..Cardinality(W)
             present == {s \in W : station[s].present}
             marked == {s \in W : station[s].marks \notin {None, <<>>}}
  <2>1. PICK order \in Bijection(D, W) :
          records = [i \in DOMAIN order |-> Record(order[i], station[order[i]])]
    BY DEF RecordLists
  <2>2. order \in [D -> W]
    BY DEF Bijection, Injection
  <2>3. DOMAIN records = D /\ \A i \in D : records[i] = Record(order[i], station[order[i]])
    BY <2>1, <2>2
  <2>4. W \subseteq Students /\ IsFiniteSet(W)
    BY SomeStudents DEF ReconcileInv, IsRows
  <2>5. \A s \in W : IsRow(station[s])
    BY DEF ReconcileInv, IsRows
  <2>6. \A i \in D : records[i].present = station[order[i]].present
    BY <2>3 DEF Record, NormalizeTotalRecord, NormalizeItemRecord
  <2>7. ASSUME NEW i \in D PROVE HasMarks(records[i]) <=> order[i] \in marked
    <3> DEFINE row == station[order[i]]
    <3>1. order[i] \in W /\ IsRow(row) /\ records[i] = Record(order[i], row)
      BY <2>2, <2>3, <2>5
    <3>2. order[i] \in marked <=> row.marks \notin {None, <<>>}
      BY <3>1
    <3> HIDE DEF row
    <3>3. CASE mode = "TOTAL_MARKS"
      <4>1. row.marks \in Decimals \cup {None}
        BY <3>1, <3>3 DEF IsRow
      <4>2. HasMarks(records[i]) <=> row.marks # None
        <5>1. row.marks # None => NumStr(row.marks) # None
          BY <4>1, NumStrKeepsValue, ReconcileAssumption DEF Decimals
        <5> QED
          BY <3>1, <3>3, <5>1 DEF Record, NormalizeTotalRecord, HasMarks
      <4>3. <<>> \notin Decimals
        <5>1. \A n \in Decimals : "neg" \in DOMAIN n
          BY DEF Decimals
        <5>2. "neg" \notin DOMAIN <<>>
          OBVIOUS
        <5> QED
          BY <5>1, <5>2
      <4> QED
        BY <3>2, <4>1, <4>2, <4>3
    <3>4. CASE mode = "ITEM_LEVEL"
      <4>1. row.marks \in [DOMAIN row.marks -> Decimals] /\ row.marks # None
        BY <3>1, <3>4 DEF IsRow, ReconcileInv, row
      <4>2. HasMarks(records[i]) <=> DOMAIN row.marks # {}
        BY <3>1, <3>4 DEF Record, NormalizeItemRecord, HasMarks
      <4>3. DOMAIN row.marks = {} => row.marks = <<>>
        BY <4>1, EmptySet
      <4>4. row.marks = <<>> => DOMAIN row.marks = {}
        OBVIOUS
      <4> QED
        BY <3>2, <4>1, <4>2, <4>3, <4>4
    <3> QED
      BY <3>3, <3>4, ModeIsOne
  <2> DEFINE P == {i \in D : records[i].present}
             A == {i \in D : ~records[i].present}
             H == {i \in D : HasMarks(records[i])}
  <2>8. CountsFromRecords(records) =
          [present |-> Cardinality(P), absent |-> Cardinality(A), with_marks |-> Cardinality(H)]
    BY <2>3 DEF CountsFromRecords
  <2>9. Cardinality(P) = Cardinality(present)
    <3>1. P \in SUBSET D /\ present \in SUBSET W /\ \A i \in D : i \in P <=> order[i] \in present
      BY <2>2, <2>6
    <3> HIDE DEF P, present, W
    <3> QED
      BY <2>4, <3>1, CountedByStudent
  <2>10. Cardinality(A) = Cardinality(W \ present)
    <3>1. A \in SUBSET D /\ W \ present \in SUBSET W
          /\ \A i \in D : i \in A <=> order[i] \in W \ present
      BY <2>2, <2>6
    <3> DEFINE absent == W \ present
    <3> HIDE DEF A, absent, W
    <3>2. absent \in SUBSET W /\ \A i \in D : i \in A <=> order[i] \in absent
      BY <3>1 DEF absent
    <3>3. Cardinality(A) = Cardinality(absent)
      BY <2>4, <3>1, <3>2, CountedByStudent
    <3> QED
      BY <3>3 DEF absent
  <2>11. Cardinality(H) = Cardinality(marked)
    <3>1. H \in SUBSET D /\ marked \in SUBSET W /\ \A i \in D : i \in H <=> order[i] \in marked
      BY <2>7
    <3> HIDE DEF H, marked, W
    <3> QED
      BY <2>4, <3>1, CountedByStudent
  <2>12. Cardinality(present) + Cardinality(W \ present) = Cardinality(W)
    <3> HIDE DEF W
    <3>1. present \in SUBSET W /\ W \cap present = present
      OBVIOUS
    <3> HIDE DEF present
    <3>2. Cardinality(W) \in Nat /\ Cardinality(present) \in Nat
      BY <2>4, <3>1, FS_Subset, FS_CardinalityType
    <3>3. Cardinality(W \ present) = Cardinality(W) - Cardinality(present)
      BY <2>4, <3>1, FS_Difference
    <3> QED
      BY <3>2, <3>3
  <2> HIDE DEF P, A, H, present, marked, W
  <2> QED
    BY <2>8, <2>9, <2>10, <2>11, <2>12 DEF present, marked, W
<1> QED
  BY <1>1, ReconcileKept, PTL

-----------------------------------------------------------------------------
(* Verdicts and snapshots *)

LEMMA NumbersTell ==
  ASSUME NEW m \in Decimals, NEW n \in Decimals
  PROVE  /\ NumStr(m) = NumStr(n) => SameNumber(m, n)
         /\ SameNumber(m, n) /\ ~MinusZero(m) /\ ~MinusZero(n) => NumStr(m) = NumStr(n)
<1>1. NumStr(m) = NumStr(n) => SameNumber(m, n)
  BY NumStrAgrees DEF SameNumber
<1>2. ASSUME SameNumber(m, n), ~MinusZero(m), ~MinusZero(n) PROVE m.neg = n.neg
  <2>1. CASE m.coefficient = 0
    <3> DEFINE q == PowerOfTen[m.scale]
               p == PowerOfTen[n.scale]
    <3>1. m.coefficient * p = n.coefficient * q
      BY <1>2 DEF SameNumber
    <3>2. /\ n.coefficient \in Nat /\ q \in Nat \ {0} /\ p \in Nat
          /\ m.neg \in BOOLEAN /\ n.neg \in BOOLEAN
      BY PowerIsPositive DEF Decimals
    <3> HIDE DEF p, q
    <3>3. n.coefficient = 0
      BY <2>1, <3>1, <3>2
    <3>4. ~m.neg /\ ~n.neg
      BY <1>2, <2>1, <3>3 DEF MinusZero
    <3> QED
      BY <3>2, <3>4
  <2>2. CASE m.coefficient # 0
    BY <1>2, <2>2 DEF SameNumber
  <2> QED
    BY <2>1, <2>2
<1>3. SameNumber(m, n) /\ m.neg = n.neg => NumStr(m) = NumStr(n)
  BY NumStrAgrees DEF SameNumber
<1> QED
  BY <1>1, <1>2, <1>3

\* Records are equal if the rows say the same, a minus 0 apart.
LEMMA RecordsTell ==
  ASSUME mode \in {"TOTAL_MARKS", "ITEM_LEVEL"},
         NEW s, NEW row, NEW other, IsRow(row), IsRow(other)
  PROVE  /\ Record(s, row) = Record(s, other)
              => row.present = other.present /\ SameMarks(row.marks, other.marks)
         /\ /\ row.present = other.present /\ SameMarks(row.marks, other.marks)
            /\ ~HasMinusZero(row) /\ ~HasMinusZero(other)
            => Record(s, row) = Record(s, other)
<1> DEFINE m == row.marks
           n == other.marks
<1>1. CASE mode = "TOTAL_MARKS"
  <2> DEFINE t == IF m = None THEN None ELSE NumStr(m)
             u == IF n = None THEN None ELSE NumStr(n)
  <2>1. m \in Decimals \cup {None} /\ n \in Decimals \cup {None} /\ None \notin Decimals
    BY <1>1, ReconcileAssumption DEF IsRow, Decimals
  <2>2. /\ Record(s, row) = [student_id |-> s, present |-> row.present, mode |-> "TOTAL_MARKS",
                             total |-> t]
        /\ Record(s, other) = [student_id |-> s, present |-> other.present,
                               mode |-> "TOTAL_MARKS", total |-> u]
    BY <1>1 DEF Record, NormalizeTotalRecord
  <2>3. SameMarks(m, n) <=> IF m = None \/ n = None THEN m = n ELSE SameNumber(m, n)
    BY <1>1 DEF SameMarks
  <2>4. /\ ~HasMinusZero(row) => (m # None => ~MinusZero(m))
        /\ ~HasMinusZero(other) => (n # None => ~MinusZero(n))
    BY <1>1 DEF HasMinusZero
  <2>5. /\ t = u => SameMarks(m, n)
        /\ SameMarks(m, n) /\ ~HasMinusZero(row) /\ ~HasMinusZero(other) => t = u
    <3> HIDE DEF m, n
    <3>1. \A x \in Decimals : NumStr(x) # None
      BY <2>1, NumStrKeepsValue
    <3>2. CASE m = None \/ n = None
      BY <2>1, <2>3, <3>1, <3>2
    <3>3. CASE m # None /\ n # None
      BY <2>1, <2>3, <2>4, <3>3, NumbersTell
    <3> QED
      BY <3>2, <3>3
  <2>7. Record(s, row) = Record(s, other) <=> row.present = other.present /\ t = u
    <3> HIDE DEF m, n, t, u
    <3> QED
      BY <2>2
  <2> HIDE DEF t, u
  <2> QED
    BY <2>5, <2>7
<1>2. CASE mode = "ITEM_LEVEL"
  <2> DEFINE t == [q \in DOMAIN m |-> NumStr(m[q])]
             u == [q \in DOMAIN n |-> NumStr(n[q])]
  <2>1. m \in [DOMAIN m -> Decimals] /\ n \in [DOMAIN n -> Decimals]
    BY <1>2 DEF IsRow
  <2>2. /\ Record(s, row) = [student_id |-> s, present |-> row.present, mode |-> "ITEM_LEVEL",
                             items |-> t]
        /\ Record(s, other) = [student_id |-> s, present |-> other.present,
                               mode |-> "ITEM_LEVEL", items |-> u]
    BY <1>2 DEF Record, NormalizeItemRecord
  <2>3. SameMarks(m, n) <=> DOMAIN m = DOMAIN n /\ \A q \in DOMAIN m : SameNumber(m[q], n[q])
    BY <1>2 DEF SameMarks
  <2>4. /\ ~HasMinusZero(row) => \A q \in DOMAIN m : ~MinusZero(m[q])
        /\ ~HasMinusZero(other) => \A q \in DOMAIN n : ~MinusZero(n[q])
    BY <1>2 DEF HasMinusZero
  <2>5. t = u <=> DOMAIN m = DOMAIN n /\ \A q \in DOMAIN m : NumStr(m[q]) = NumStr(n[q])
    <3> HIDE DEF m, n
    <3>1. ASSUME t = u PROVE DOMAIN m = DOMAIN n /\ \A q \in DOMAIN m : NumStr(m[q]) = NumStr(n[q])
      <4>1. DOMAIN t = DOMAIN m /\ DOMAIN u = DOMAIN n
        OBVIOUS
      <4>2. DOMAIN m = DOMAIN n
        BY <3>1, <4>1
      <4>3. ASSUME NEW q \in DOMAIN m PROVE NumStr(m[q]) = NumStr(n[q])
        <5>1. t[q] = NumStr(m[q]) /\ u[q] = NumStr(n[q])
          BY <4>2
        <5> QED
          BY <3>1, <5>1
      <4> QED
        BY <4>2, <4>3
    <3> QED
      BY <3>1
  <2>6. /\ t = u => SameMarks(m, n)
        /\ SameMarks(m, n) /\ ~HasMinusZero(row) /\ ~HasMinusZero(other) => t = u
    <3> HIDE DEF m, n, t, u
    <3>1. \A q \in DOMAIN m : m[q] \in Decimals
      BY <2>1
    <3>2. \A q \in DOMAIN n : n[q] \in Decimals
      BY <2>1
    <3> QED
      BY <2>3, <2>4, <2>5, <3>1, <3>2, NumbersTell
  <2>7. Record(s, row) = Record(s, other) <=> row.present = other.present /\ t = u
    <3> HIDE DEF m, n, t, u
    <3> QED
      BY <2>2
  <2> HIDE DEF t, u
  <2> QED
    BY <2>6, <2>7
<1> QED
  BY <1>1, <1>2

\* Whatever was entered, corrected, reinstalled or restored meanwhile: a verdict is
\* true of what the station held when it asked and Central when it compared.
THEOREM VerdictsAreTrue == Spec => VerdictIsTrue
<1> DEFINE P == Compare =>
                  /\ verdict' = "MATCHED" => SameScope(asked.rows, central)
                  /\ SameScope(asked.rows, central) /\ NoMinusZero(asked.rows)
                       => verdict' = "MATCHED"
<1>1. ReconcileInv /\ [Next]_vars => [P]_vars
  <2> SUFFICES ASSUME ReconcileInv, Compare
               PROVE  /\ verdict' = "MATCHED" => SameScope(asked.rows, central)
                      /\ SameScope(asked.rows, central) /\ NoMinusZero(asked.rows)
                           => verdict' = "MATCHED"
    OBVIOUS
  <2> DEFINE rows == asked.rows
  <2>1. /\ IsRows(rows) /\ asked.digest \in Digests(rows)
        /\ IsRows(central) /\ NoMinusZero(central)
    BY DEF Compare, ReconcileInv
  <2> HIDE DEF rows
  <2>2. Digests(rows) = {DigestOf(rows)} /\ Digests(central) = {DigestOf(central)}
    BY <2>1, OneDigest DEF IsRows
  <2>3. verdict' = "MATCHED" <=> DigestOf(rows) = DigestOf(central)
    BY <2>1, <2>2 DEF Compare, ReconcileDigests
  <2>4. DigestOf(rows) = DigestOf(central) <=>
          /\ WithData(rows) = WithData(central)
          /\ \A s \in WithData(rows) : Record(s, rows[s]) = Record(s, central[s])
    BY <2>1, DigestsTell DEF IsRows
  <2>5. ASSUME WithData(rows) = WithData(central), NEW s \in WithData(rows)
        PROVE  /\ Record(s, rows[s]) = Record(s, central[s]) =>
                    rows[s].present = central[s].present
                      /\ SameMarks(rows[s].marks, central[s].marks)
               /\ /\ rows[s].present = central[s].present
                  /\ SameMarks(rows[s].marks, central[s].marks)
                  /\ NoMinusZero(rows)
                  => Record(s, rows[s]) = Record(s, central[s])
    <3>1. IsRow(rows[s]) /\ IsRow(central[s]) /\ ~HasMinusZero(central[s])
      BY <2>1, <2>5 DEF IsRows, NoMinusZero
    <3>2. NoMinusZero(rows) => ~HasMinusZero(rows[s])
      BY DEF NoMinusZero
    <3> QED
      BY <3>1, <3>2, ModeIsOne, RecordsTell
  <2>6. SameScope(rows, central) <=>
          /\ WithData(rows) = WithData(central)
          /\ \A s \in WithData(rows) : /\ rows[s].present = central[s].present
                                       /\ SameMarks(rows[s].marks, central[s].marks)
    BY DEF SameScope
  <2> QED
    BY <2>3, <2>4, <2>5, <2>6 DEF rows
<1>2. [][P]_vars => VerdictIsTrue
  BY PTL DEF VerdictIsTrue
<1> QED
  BY <1>1, <1>2, ReconcileKept, PTL DEF Spec

\* A station that takes a snapshot over computes the digest that came with it,
\* unless it has entries to send or rows Central has not.
THEOREM SnapshotsMatch == Spec => RestoredMatches
<1> DEFINE P == Restore /\ pending = {} /\ WithData(station) \subseteq DOMAIN snapshot.rows
                  => Digests(station') = {snapshot.central_digest}
<1>1. ReconcileInv /\ [Next]_vars => [P]_vars
  <2> SUFFICES ASSUME ReconcileInv, Restore, pending = {},
                      WithData(station) \subseteq DOMAIN snapshot.rows
               PROVE  Digests(station') = {snapshot.central_digest}
    OBVIOUS
  <2>1. station' = Taken(snapshot)
    BY DEF Restore, Taken, WithData
  <2>2. IsRows(Taken(snapshot)) /\ snapshot.central_digest \in Digests(Taken(snapshot))
    BY DEF Restore, ReconcileInv
  <2>3. Digests(Taken(snapshot)) = {DigestOf(Taken(snapshot))}
    BY <2>2, OneDigest DEF IsRows
  <2> QED
    BY <2>1, <2>2, <2>3
<1>2. [][P]_vars => RestoredMatches
  BY PTL DEF RestoredMatches
<1> QED
  BY <1>1, <1>2, ReconcileKept, PTL DEF Spec

=============================================================================
