----------------------------- MODULE ScopeProofs -----------------------------
(***************************************************************************)
(* Theorems about a scope: the shared rules, PaperScope, which judges with *)
(* them, and ScopeSync, where a station and its Central both do.  The      *)
(* rules come first, for any paper and any answers: sums, the first        *)
(* failure of a list of checks, and that "the best pick_count of each      *)
(* group" is the best choice there is.  Then what PaperScope keeps, for    *)
(* any students, configurations and entries and for both modes.  Then what *)
(* the Central of ScopeSync keeps, for any batch size, number of events,   *)
(* failures and changes of the gate.                                       *)
(***************************************************************************)
EXTENDS ScopeSync, OrderTheorems, SequenceTheorems, TLAPS

-----------------------------------------------------------------------------
(* Checks *)

\* A list of checks has no first failure only if it has none.
LEMMA NoFailure ==
  ASSUME NEW codes, DOMAIN codes \subseteq Nat, FirstFailure(codes) = OK
  PROVE  \A i \in DOMAIN codes : codes[i] = OK
<1> DEFINE failed == {i \in DOMAIN codes : codes[i] # OK}
<1> SUFFICES ASSUME failed # {} PROVE FALSE
  OBVIOUS
<1>1. failed \in SUBSET Nat
  OBVIOUS
<1>2. \E m \in failed : \A n \in failed : m <= n
  <2> HIDE DEF failed
  <2> QED
    BY <1>1, Least
<1>3. Min(failed) \in failed
  <2> HIDE DEF failed
  <2> QED
    BY <1>2 DEF Min
<1> QED
  BY <1>3 DEF FirstFailure

-----------------------------------------------------------------------------
(* Sums *)

Numbers(seq) == Len(seq) \in Nat /\ \A i \in 1..Len(seq) : seq[i] \in Int

\* The partial sums of a list.
IsSum(sum, seq) ==
  /\ sum = [i \in 0..Len(seq) |-> IF i = 0 THEN 0 ELSE sum[i - 1] + seq[i]]

LEMMA SumExists ==
  ASSUME NEW seq, Numbers(seq)
  PROVE  \E sum : IsSum(sum, seq)
<1> DEFINE Upto(n, f) == f = [i \in 0..n |-> IF i = 0 THEN 0 ELSE f[i - 1] + seq[i]]
           T == {n \in Nat : \E f : Upto(n, f)}
<1>1. 0 \in T
  <2>1. Upto(0, [i \in 0..0 |-> 0])
    OBVIOUS
  <2> QED
    BY <2>1
<1>2. ASSUME NEW n \in Nat, n \in T PROVE n + 1 \in T
  <2>1. PICK f : Upto(n, f)
    BY <1>2
  <2> DEFINE g == [i \in 0..(n + 1) |-> IF i = n + 1 THEN f[n] + seq[n + 1] ELSE f[i]]
  <2>2. ASSUME NEW i \in 0..(n + 1)
        PROVE  g[i] = IF i = 0 THEN 0 ELSE g[i - 1] + seq[i]
    <3>1. CASE i = n + 1
      BY <3>1
    <3>2. CASE i \in 0..n
      <4>1. f[i] = IF i = 0 THEN 0 ELSE f[i - 1] + seq[i]
        BY <2>1, <3>2
      <4> QED
        BY <3>2, <4>1
    <3> QED
      BY <3>1, <3>2
  <2>3. Upto(n + 1, g)
    BY <2>2
  <2>4. \E h : Upto(n + 1, h)
    <3> HIDE DEF Upto, g
    <3> QED
      BY <2>3
  <2> QED
    BY <2>4
<1>3. Nat \subseteq T
  <2> HIDE DEF T
  <2> QED
    BY <1>1, <1>2, Induct
<1>4. Len(seq) \in T
  BY <1>3 DEF Numbers
<1> QED
  BY <1>4 DEF IsSum

\* SumOf adds up, element by element.
LEMMA SumUnfolds ==
  ASSUME NEW seq, Numbers(seq)
  PROVE  \E sum \in [0..Len(seq) -> Int] :
           /\ sum[0] = 0
           /\ \A i \in 1..Len(seq) : sum[i] = sum[i - 1] + seq[i]
           /\ SumOf(seq) = sum[Len(seq)]
<1> DEFINE sum == CHOOSE f : IsSum(f, seq)
<1>1. IsSum(sum, seq)
  BY SumExists
<1>2. SumOf(seq) = sum[Len(seq)]
  BY DEF SumOf, IsSum
<1> HIDE DEF sum
<1>3. sum[0] = 0 /\ \A i \in 1..Len(seq) : sum[i] = sum[i - 1] + seq[i]
  BY <1>1 DEF IsSum, Numbers
<1> DEFINE T == {n \in Nat : n <= Len(seq) => sum[n] \in Int}
<1>4. 0 \in T
  BY <1>3
<1>5. ASSUME NEW n \in Nat, n \in T PROVE n + 1 \in T
  <2> SUFFICES ASSUME n + 1 <= Len(seq) PROVE sum[n + 1] \in Int
    OBVIOUS
  <2>1. n + 1 \in 1..Len(seq) /\ n <= Len(seq)
    BY DEF Numbers
  <2>2. sum[n + 1] = sum[n] + seq[n + 1]
    BY <1>3, <2>1
  <2> QED
    BY <1>5, <2>1, <2>2 DEF Numbers
<1>6. Nat \subseteq T
  <2> HIDE DEF T
  <2> QED
    BY <1>4, <1>5, Induct
<1>7. sum \in [0..Len(seq) -> Int]
  BY <1>1, <1>6 DEF IsSum, Numbers
<1> QED
  BY <1>2, <1>3, <1>7

\* A sum of natural numbers is one.
LEMMA SumIsNat ==
  ASSUME NEW seq, Numbers(seq), \A i \in 1..Len(seq) : seq[i] \in Nat
  PROVE  SumOf(seq) \in Nat
<1>1. PICK s \in [0..Len(seq) -> Int] :
        /\ s[0] = 0 /\ \A i \in 1..Len(seq) : s[i] = s[i - 1] + seq[i]
        /\ SumOf(seq) = s[Len(seq)]
  BY SumUnfolds
<1> DEFINE T == {n \in Nat : n <= Len(seq) => s[n] \in Nat}
<1>2. 0 \in T
  BY <1>1
<1>3. ASSUME NEW n \in Nat, n \in T PROVE n + 1 \in T
  <2> SUFFICES ASSUME n + 1 <= Len(seq) PROVE s[n + 1] \in Nat
    OBVIOUS
  <2>1. n + 1 \in 1..Len(seq) /\ n <= Len(seq)
    BY DEF Numbers
  <2>2. s[n + 1] = s[n] + seq[n + 1]
    BY <1>1, <2>1
  <2> QED
    BY <1>3, <2>1, <2>2
<1>4. Nat \subseteq T
  <2> HIDE DEF T
  <2> QED
    BY <1>2, <1>3, Induct
<1> QED
  BY <1>1, <1>4 DEF Numbers

\* A sum of larger numbers is larger.
LEMMA SumCompare ==
  ASSUME NEW a, NEW b, Numbers(a), Numbers(b), Len(a) = Len(b),
         \A i \in 1..Len(a) : a[i] <= b[i]
  PROVE  SumOf(a) <= SumOf(b) /\ SumOf(a) \in Int /\ SumOf(b) \in Int
<1>1. PICK s \in [0..Len(a) -> Int] :
        /\ s[0] = 0 /\ \A i \in 1..Len(a) : s[i] = s[i - 1] + a[i]
        /\ SumOf(a) = s[Len(a)]
  BY SumUnfolds
<1>2. PICK t \in [0..Len(b) -> Int] :
        /\ t[0] = 0 /\ \A i \in 1..Len(b) : t[i] = t[i - 1] + b[i]
        /\ SumOf(b) = t[Len(b)]
  BY SumUnfolds
<1> DEFINE T == {n \in Nat : n <= Len(a) => s[n] <= t[n]}
<1>3. 0 \in T
  BY <1>1, <1>2
<1>4. ASSUME NEW n \in Nat, n \in T PROVE n + 1 \in T
  <2> SUFFICES ASSUME n + 1 <= Len(a) PROVE s[n + 1] <= t[n + 1]
    OBVIOUS
  <2>1. n + 1 \in 1..Len(a) /\ n \in 0..Len(a)
    BY DEF Numbers
  <2>2. s[n + 1] = s[n] + a[n + 1] /\ t[n + 1] = t[n] + b[n + 1]
    BY <1>1, <1>2, <2>1
  <2>3. s[n] \in Int /\ t[n] \in Int /\ a[n + 1] \in Int /\ b[n + 1] \in Int
    BY <2>1 DEF Numbers
  <2>4. s[n] <= t[n] /\ a[n + 1] <= b[n + 1]
    BY <1>4, <2>1
  <2> QED
    BY <2>2, <2>3, <2>4
<1>5. Nat \subseteq T
  <2> HIDE DEF T
  <2> QED
    BY <1>3, <1>4, Induct
<1> QED
  BY <1>1, <1>2, <1>5 DEF Numbers

\* Changing one number changes the sum by as much.
LEMMA SumChanges ==
  ASSUME NEW a, NEW b, Numbers(a), Numbers(b), Len(a) = Len(b), NEW k \in 1..Len(a),
         \A i \in 1..Len(a) : i # k => b[i] = a[i]
  PROVE  SumOf(b) = SumOf(a) + b[k] - a[k]
<1>1. PICK s \in [0..Len(a) -> Int] :
        /\ s[0] = 0 /\ \A i \in 1..Len(a) : s[i] = s[i - 1] + a[i]
        /\ SumOf(a) = s[Len(a)]
  BY SumUnfolds
<1>2. PICK t \in [0..Len(b) -> Int] :
        /\ t[0] = 0 /\ \A i \in 1..Len(b) : t[i] = t[i - 1] + b[i]
        /\ SumOf(b) = t[Len(b)]
  BY SumUnfolds
<1> DEFINE T == {n \in Nat : n <= Len(a) => t[n] = IF n < k THEN s[n] ELSE s[n] + b[k] - a[k]}
<1>3. 0 \in T
  BY <1>1, <1>2
<1>4. ASSUME NEW n \in Nat, n \in T PROVE n + 1 \in T
  <2> SUFFICES ASSUME n + 1 <= Len(a)
               PROVE  t[n + 1] = IF n + 1 < k THEN s[n + 1] ELSE s[n + 1] + b[k] - a[k]
    OBVIOUS
  <2>1. n + 1 \in 1..Len(a) /\ n \in 0..Len(a)
    BY DEF Numbers
  <2>2. s[n + 1] = s[n] + a[n + 1] /\ t[n + 1] = t[n] + b[n + 1]
    BY <1>1, <1>2, <2>1
  <2>3. s[n] \in Int /\ t[n] \in Int /\ a[n + 1] \in Int /\ b[n + 1] \in Int
        /\ a[k] \in Int /\ b[k] \in Int
    BY <2>1 DEF Numbers
  <2>4. t[n] = IF n < k THEN s[n] ELSE s[n] + b[k] - a[k]
    BY <1>4, <2>1
  <2>5. n + 1 # k => b[n + 1] = a[n + 1]
    BY <2>1
  <2> QED
    BY <2>2, <2>3, <2>4, <2>5
<1>5. Nat \subseteq T
  <2> HIDE DEF T
  <2> QED
    BY <1>3, <1>4, Induct
<1> QED
  BY <1>1, <1>2, <1>5 DEF Numbers

-----------------------------------------------------------------------------
(* The best of a group *)

\* A paper that was accepted, with a whole score for every question.
ListOf(sheet) == Len(sheet.questions) \in Nat /\ DOMAIN sheet.questions = 1..Len(sheet.questions)

Scored(sheet, items) == \A i \in DOMAIN sheet.questions : Score(sheet, items, i) \in Nat

\* A set a candidate can be marked on (MarkedSets of PaperScope).
Choice(sheet, S) ==
  /\ S \subseteq DOMAIN sheet.questions
  /\ Members(sheet, None) \subseteq S
  /\ \A code \in DOMAIN sheet.groups :
       Cardinality(S \cap Members(sheet, code)) = sheet.groups[code]

LEMMA FinitePlaces ==
  ASSUME NEW sheet, ListOf(sheet)
  PROVE  IsFiniteSet(1..Len(sheet.questions))
<1>1. 1 \in Int /\ Len(sheet.questions) \in Int
  BY DEF ListOf
<1> QED
  BY <1>1, FS_Interval, Zenon

LEMMA FiniteMembers ==
  ASSUME NEW sheet, ListOf(sheet), NEW code
  PROVE  IsFiniteSet(Members(sheet, code)) /\ Members(sheet, code) \subseteq DOMAIN sheet.questions
<1>1. Members(sheet, code) \in SUBSET (1..Len(sheet.questions))
  BY DEF Members, ListOf
<1>2. IsFiniteSet(1..Len(sheet.questions))
  BY FinitePlaces
<1>3. IsFiniteSet(Members(sheet, code))
  BY <1>1, <1>2, FS_Subset
<1> QED
  BY <1>1, <1>3 DEF ListOf

\* "Its pick_count highest scores" are pick_count many, whatever the ties.
LEMMA BestAreEnough ==
  ASSUME NEW sheet, ListOf(sheet), NEW items, Scored(sheet, items),
         NEW code \in DOMAIN sheet.groups, GroupFits(sheet, code)
  PROVE  Cardinality(Best(sheet, items, code)) = sheet.groups[code]
<1> DEFINE M == Members(sheet, code)
           A == [i \in M |-> Ahead(sheet, items, i)]
           k == sheet.groups[code]
<1>1. IsFiniteSet(M) /\ M \subseteq DOMAIN sheet.questions
  BY FiniteMembers
<1>2. ASSUME NEW i \in M
      PROVE  A[i] = {j \in M : \/ Score(sheet, items, j) > Score(sheet, items, i)
                               \/ Score(sheet, items, j) = Score(sheet, items, i) /\ j < i}
  BY DEF Ahead, Members
<1>3. A \in [M -> SUBSET M]
  BY <1>2
<1>4. \A i \in M : i \in Nat /\ Score(sheet, items, i) \in Nat
  BY <1>1 DEF ListOf, Scored
<1>5. k \in 0..Cardinality(M)
  <2>1. Cardinality(M) \in Nat
    BY <1>1, FS_CardinalityType
  <2> QED
    BY <2>1 DEF GroupFits
<1>6. \A i \in M : i \notin A[i]
  BY <1>2, <1>4
<1>7. \A i, j \in M : i # j => \/ i \in A[j] /\ A[i] \subseteq A[j]
                               \/ j \in A[i] /\ A[j] \subseteq A[i]
  <2> SUFFICES ASSUME NEW i \in M, NEW j \in M, i # j
               PROVE  \/ i \in A[j] /\ A[i] \subseteq A[j]
                      \/ j \in A[i] /\ A[j] \subseteq A[i]
    OBVIOUS
  <2> HIDE DEF M, A
  <2>1. \/ Score(sheet, items, i) > Score(sheet, items, j)
        \/ Score(sheet, items, j) > Score(sheet, items, i)
        \/ Score(sheet, items, i) = Score(sheet, items, j) /\ (i < j \/ j < i)
    BY <1>4
  <2> QED
    BY <2>1, <1>2, <1>4
<1>8. Best(sheet, items, code) = {i \in M : Cardinality(A[i]) < k}
  BY DEF Best
<1> HIDE DEF M, A, k
<1>9. Cardinality({i \in M : Cardinality(A[i]) < k}) = k
  <2>1. TotalOrder(A, M)
    BY <1>3, <1>6, <1>7 DEF TotalOrder
  <2> QED
    BY <1>1, <1>5, <2>1, FirstOnes
<1> QED
  BY <1>8, <1>9 DEF k

-----------------------------------------------------------------------------
(* The best choice *)

\* What validate_paper_config has made sure of.
LEMMA ValidPaper ==
  ASSUME NEW sheet, ListOf(sheet), ValidatePaperConfig(sheet) = OK
  PROVE  /\ \A i \in DOMAIN sheet.questions :
              sheet.questions[i].group \in {None} \cup DOMAIN sheet.groups
         /\ \A code \in DOMAIN sheet.groups : GroupFits(sheet, code)
<1> DEFINE codes == [i \in DOMAIN sheet.questions |-> QuestionFault(sheet, i)]
<1>1. FirstFailure(codes) = OK
  BY DEF ValidatePaperConfig
<1>2. DOMAIN codes \subseteq Nat
  BY DEF ListOf
<1>3. \A i \in DOMAIN codes : codes[i] = OK
  <2> HIDE DEF codes
  <2> QED
    BY <1>1, <1>2, NoFailure
<1>4. ASSUME NEW i \in DOMAIN sheet.questions
      PROVE  sheet.questions[i].group \in {None} \cup DOMAIN sheet.groups
  <2>1. QuestionFault(sheet, i) = OK
    BY <1>3
  <2> QED
    BY <2>1 DEF QuestionFault, OK
<1>5. \A code \in DOMAIN sheet.groups : GroupFits(sheet, code)
  BY <1>1 DEF ValidatePaperConfig, OK
<1> QED
  BY <1>4, <1>5

\* What is added up for a choice.
Chosen(sheet, items, S) ==
  [i \in DOMAIN sheet.questions |-> IF i \in S THEN Score(sheet, items, i) ELSE 0]

LEMMA ChosenAreNumbers ==
  ASSUME NEW sheet, ListOf(sheet), NEW items, Scored(sheet, items), NEW S
  PROVE  /\ Numbers(Chosen(sheet, items, S))
         /\ Len(Chosen(sheet, items, S)) = Len(sheet.questions)
         /\ \A i \in 1..Len(sheet.questions) :
              Chosen(sheet, items, S)[i] = IF i \in S THEN Score(sheet, items, i) ELSE 0
<1> DEFINE n == Len(sheet.questions)
           f == Chosen(sheet, items, S)
<1>1. n \in Nat /\ f \in [1..n -> Nat]
  BY DEF ListOf, Chosen, Scored
<1>2. f \in Seq(Nat)
  <2> HIDE DEF f, n
  <2> QED
    BY <1>1, IsASeq
<1>3. Len(f) = n
  <2> HIDE DEF f, n
  <2> QED
    BY <1>1, <1>2, LenProperties
<1> QED
  BY <1>1, <1>3 DEF Numbers, Chosen, ListOf

LEMMA MarkedIsNat ==
  ASSUME NEW sheet, ListOf(sheet), NEW items, Scored(sheet, items), NEW S
  PROVE  Marked(sheet, items, S) \in Nat
<1> DEFINE a == Chosen(sheet, items, S)
<1>1. Numbers(a) /\ Len(a) = Len(sheet.questions)
      /\ \A i \in 1..Len(sheet.questions) : a[i] = IF i \in S THEN Score(sheet, items, i) ELSE 0
  BY ChosenAreNumbers
<1>2. \A i \in 1..Len(sheet.questions) : Score(sheet, items, i) \in Nat
  BY DEF ListOf, Scored
<1>3. SumOf(a) \in Nat
  <2> HIDE DEF a
  <2> QED
    BY <1>1, <1>2, SumIsNat
<1> QED
  BY <1>3 DEF Marked, Chosen

\* To give up an answer for a better one makes the sum no smaller.
LEMMA BetterOne ==
  ASSUME NEW sheet, ListOf(sheet), NEW items, Scored(sheet, items),
         NEW S, NEW i \in DOMAIN sheet.questions, NEW j \in DOMAIN sheet.questions,
         i \in S, j \notin S, Score(sheet, items, i) <= Score(sheet, items, j)
  PROVE  Marked(sheet, items, S) <= Marked(sheet, items, (S \ {i}) \cup {j})
<1> DEFINE a == Chosen(sheet, items, S)
           b == Chosen(sheet, items, S \ {i})
           c == Chosen(sheet, items, (S \ {i}) \cup {j})
           n == Len(sheet.questions)
<1>1. Numbers(a) /\ Len(a) = n /\ \A k \in 1..n : a[k] = IF k \in S THEN Score(sheet, items, k) ELSE 0
  BY ChosenAreNumbers
<1>2. Numbers(b) /\ Len(b) = n
      /\ \A k \in 1..n : b[k] = IF k \in S \ {i} THEN Score(sheet, items, k) ELSE 0
  BY ChosenAreNumbers
<1>3. Numbers(c) /\ Len(c) = n
      /\ \A k \in 1..n : c[k] = IF k \in (S \ {i}) \cup {j} THEN Score(sheet, items, k) ELSE 0
  BY ChosenAreNumbers
<1>4. Marked(sheet, items, S) = SumOf(a) /\ Marked(sheet, items, (S \ {i}) \cup {j}) = SumOf(c)
  BY DEF Marked, Chosen
<1> HIDE DEF a, b, c
<1>5. i \in 1..n /\ j \in 1..n /\ i # j
  BY DEF ListOf
<1>6. SumOf(b) = SumOf(a) + b[i] - a[i]
  <2>1. \A k \in 1..Len(a) : k # i => b[k] = a[k]
    BY <1>1, <1>2
  <2> QED
    BY <1>1, <1>2, <1>5, <2>1, SumChanges
<1>7. SumOf(c) = SumOf(b) + c[j] - b[j]
  <2>1. \A k \in 1..Len(b) : k # j => c[k] = b[k]
    BY <1>2, <1>3
  <2> QED
    BY <1>2, <1>3, <1>5, <2>1, SumChanges
<1>8. a[i] = Score(sheet, items, i) /\ b[i] = 0 /\ b[j] = 0 /\ c[j] = Score(sheet, items, j)
  BY <1>1, <1>2, <1>3, <1>5
<1>9. Score(sheet, items, i) \in Nat /\ Score(sheet, items, j) \in Nat
  BY DEF Scored
<1>10. SumOf(a) \in Nat
  BY <1>4, MarkedIsNat
<1> QED
  BY <1>4, <1>6, <1>7, <1>8, <1>9, <1>10

\* The questions that count are a choice.
LEMMA CountedIsChoice ==
  ASSUME NEW sheet, ListOf(sheet), ValidatePaperConfig(sheet) = OK, None \notin DOMAIN sheet.groups,
         NEW items, Scored(sheet, items)
  PROVE  /\ Choice(sheet, Counted(sheet, items))
         /\ \A code \in DOMAIN sheet.groups :
              Counted(sheet, items) \cap Members(sheet, code) = Best(sheet, items, code)
<1>1. ASSUME NEW code \in DOMAIN sheet.groups
      PROVE  Counted(sheet, items) \cap Members(sheet, code) = Best(sheet, items, code)
  BY DEF Counted, Members, Best
<1>2. ASSUME NEW code \in DOMAIN sheet.groups
      PROVE  Cardinality(Best(sheet, items, code)) = sheet.groups[code]
  BY ValidPaper, BestAreEnough
<1>3. Counted(sheet, items) \subseteq DOMAIN sheet.questions
  BY DEF Counted, Best, Members
<1> QED
  BY <1>1, <1>2, <1>3 DEF Choice, Counted

\* An answer that is left out of the best of its group is no better than any
\* that is in.
LEMMA BestAreBetter ==
  ASSUME NEW sheet, ListOf(sheet), NEW items, Scored(sheet, items),
         NEW code \in DOMAIN sheet.groups, GroupFits(sheet, code),
         NEW i \in Members(sheet, code), i \notin Best(sheet, items, code),
         NEW j \in Best(sheet, items, code)
  PROVE  Score(sheet, items, i) <= Score(sheet, items, j)
<1>1. j \in Members(sheet, code) /\ Members(sheet, code) \subseteq DOMAIN sheet.questions
      /\ IsFiniteSet(Members(sheet, code))
  BY FiniteMembers DEF Best
<1>2. Score(sheet, items, i) \in Nat /\ Score(sheet, items, j) \in Nat
  BY <1>1 DEF Scored
<1> SUFFICES ASSUME Score(sheet, items, i) > Score(sheet, items, j) PROVE FALSE
  BY <1>2
<1>3. Ahead(sheet, items, i) \in SUBSET Ahead(sheet, items, j)
  <2>1. sheet.questions[i].group = code /\ sheet.questions[j].group = code
    BY <1>1 DEF Members
  <2>2. \A k \in Members(sheet, code) : Score(sheet, items, k) \in Nat
    BY <1>1 DEF Scored
  <2> QED
    BY <1>2, <2>1, <2>2 DEF Ahead
<1>4. Ahead(sheet, items, j) \in SUBSET Members(sheet, code)
  BY <1>1 DEF Ahead, Members
<1>5. IsFiniteSet(Ahead(sheet, items, j))
  BY <1>1, <1>4, FS_Subset
<1>6. IsFiniteSet(Ahead(sheet, items, i)) /\ Cardinality(Ahead(sheet, items, i)) <= Cardinality(Ahead(sheet, items, j))
  BY <1>3, <1>5, FS_Subset
<1>7. Cardinality(Ahead(sheet, items, i)) \in Nat /\ Cardinality(Ahead(sheet, items, j)) \in Nat
  BY <1>5, <1>6, FS_CardinalityType
<1>8. Cardinality(Ahead(sheet, items, j)) < sheet.groups[code]
      /\ ~(Cardinality(Ahead(sheet, items, i)) < sheet.groups[code])
  BY DEF Best
<1>9. sheet.groups[code] \in Int
  <2>1. Cardinality(Members(sheet, code)) \in Nat
    BY <1>1, FS_CardinalityType
  <2> QED
    BY <2>1 DEF GroupFits
<1> QED
  BY <1>6, <1>7, <1>8, <1>9

\* A choice that has an answer which does not count can be made no worse by
\* giving that up for one that does.
LEMMA Exchange ==
  ASSUME NEW sheet, ListOf(sheet), ValidatePaperConfig(sheet) = OK, None \notin DOMAIN sheet.groups,
         NEW items, Scored(sheet, items),
         NEW S, Choice(sheet, S), NEW i \in S \ Counted(sheet, items)
  PROVE  \E j \in Counted(sheet, items) \ S :
           /\ Choice(sheet, (S \ {i}) \cup {j})
           /\ Marked(sheet, items, S) <= Marked(sheet, items, (S \ {i}) \cup {j})
<1> DEFINE C == Counted(sheet, items)
           code == sheet.questions[i].group
           M == Members(sheet, code)
<1>1. i \in DOMAIN sheet.questions /\ code \in DOMAIN sheet.groups /\ GroupFits(sheet, code) /\ i \in M
  BY ValidPaper DEF Choice, Counted, Members
<1>2. Choice(sheet, C) /\ C \cap M = Best(sheet, items, code)
  BY <1>1, CountedIsChoice
<1>3. Cardinality(S \cap M) = sheet.groups[code] /\ Cardinality(C \cap M) = sheet.groups[code]
  BY <1>1, <1>2 DEF Choice
<1>4. IsFiniteSet(M) /\ M \subseteq DOMAIN sheet.questions
  BY FiniteMembers
<1>5. IsFiniteSet(S \cap M) /\ IsFiniteSet(C \cap M)
  BY <1>4, FS_Intersection
<1>6. \E j \in C \cap M : j \notin S
  <2> SUFFICES ASSUME C \cap M \in SUBSET (S \cap M) PROVE FALSE
    OBVIOUS
  <2>1. S \cap M = C \cap M
    <3> HIDE DEF C, M
    <3> QED
      BY <1>3, <1>5, FS_Subset
  <2> QED
    BY <1>1, <2>1
<1>7. PICK j \in C \cap M : j \notin S
  BY <1>6
<1> DEFINE T == (S \ {i}) \cup {j}
<1>8. Score(sheet, items, i) <= Score(sheet, items, j)
  <2>1. i \notin Best(sheet, items, code)
    BY <1>1, <1>2
  <2> QED
    BY <1>1, <1>2, <1>7, <2>1, BestAreBetter
<1>9. Marked(sheet, items, S) <= Marked(sheet, items, T)
  BY <1>1, <1>4, <1>7, <1>8, BetterOne
<1>10. ASSUME NEW other \in DOMAIN sheet.groups
       PROVE  Cardinality(T \cap Members(sheet, other)) = sheet.groups[other]
  <2>1. CASE other = code
    <3>1. T \cap M = ((S \cap M) \ {i}) \cup {j}
      BY <1>7
    <3>2. IsFiniteSet((S \cap M) \ {i}) /\ Cardinality((S \cap M) \ {i}) = Cardinality(S \cap M) - 1
      BY <1>1, <1>5, FS_RemoveElement
    <3>3. Cardinality(((S \cap M) \ {i}) \cup {j}) = Cardinality((S \cap M) \ {i}) + 1
      BY <1>7, <3>2, FS_AddElement
    <3>4. Cardinality(S \cap M) \in Nat
      BY <1>5, FS_CardinalityType
    <3>5. Members(sheet, other) = M /\ sheet.groups[other] = sheet.groups[code]
      BY <2>1
    <3> HIDE DEF T, M, C, code
    <3>6. Cardinality(T \cap M) = Cardinality(((S \cap M) \ {i}) \cup {j})
      BY <3>1, Zenon
    <3>7. Cardinality(T \cap M) = Cardinality(S \cap M)
      BY <3>2, <3>3, <3>4, <3>6
    <3>8. Cardinality(T \cap Members(sheet, other)) = Cardinality(T \cap M)
      BY <3>5, Zenon
    <3> QED
      BY <1>3, <3>5, <3>7, <3>8
  <2>2. CASE other # code
    <3>1. T \cap Members(sheet, other) = S \cap Members(sheet, other)
      BY <1>7, <2>2 DEF Members
    <3> QED
      BY <3>1 DEF Choice
  <2> QED
    BY <2>1, <2>2
<1>11. Choice(sheet, T)
  <2>1. T \subseteq DOMAIN sheet.questions
    BY <1>4, <1>7 DEF Choice
  <2>2. Members(sheet, None) \subseteq T
    BY <1>1 DEF Choice, Members
  <2> QED
    BY <1>10, <2>1, <2>2 DEF Choice
<1> QED
  BY <1>7, <1>9, <1>11

\* Best N of M (compute_paper_total): no way to choose the answers that count
\* gives more than the sum the rules compute, and that sum is that of a choice.
THEOREM BestIsBest ==
  ASSUME NEW sheet, ListOf(sheet), ValidatePaperConfig(sheet) = OK, None \notin DOMAIN sheet.groups,
         NEW items, Scored(sheet, items)
  PROVE  /\ ComputePaperTotal(sheet, items) \in Nat
         /\ Choice(sheet, Counted(sheet, items))
         /\ \A S : Choice(sheet, S) => Marked(sheet, items, S) <= ComputePaperTotal(sheet, items)
<1> DEFINE C == Counted(sheet, items)
           Total(S) == Marked(sheet, items, S)
           \* The numbers k such that no choice with k answers that do not
           \* count is worth more.
           K == {k \in Nat : \A S : Choice(sheet, S) /\ IsFiniteSet(S \ C) /\ Cardinality(S \ C) = k
                                      => Total(S) <= Total(C)}
<1>1. ASSUME NEW S, NEW T, S \subseteq T PROVE Total(S) <= Total(T)
  <2> DEFINE a == Chosen(sheet, items, S)
             b == Chosen(sheet, items, T)
  <2>1. Numbers(a) /\ Numbers(b) /\ Len(a) = Len(b)
    BY ChosenAreNumbers
  <2>2. ASSUME NEW i \in 1..Len(a) PROVE a[i] <= b[i]
    <3>1. i \in DOMAIN sheet.questions
      BY ChosenAreNumbers DEF ListOf
    <3>2. Score(sheet, items, i) \in Nat
      BY <3>1 DEF Scored
    <3> QED
      BY <1>1, <3>1, <3>2 DEF Chosen
  <2>3. SumOf(a) <= SumOf(b)
    <3> HIDE DEF a, b
    <3> QED
      BY <2>1, <2>2, SumCompare
  <2> QED
    BY <2>3 DEF Marked, Chosen
<1>2. \A S : Total(S) \in Nat
  BY MarkedIsNat
<1>3. 0 \in K
  <2> SUFFICES ASSUME NEW S, IsFiniteSet(S \ C), Cardinality(S \ C) = 0 PROVE Total(S) <= Total(C)
    OBVIOUS
  <2>1. S \ C = {}
    BY FS_EmptySet
  <2> QED
    BY <1>1, <2>1
<1>4. ASSUME NEW k \in Nat, k \in K PROVE k + 1 \in K
  <2> SUFFICES ASSUME NEW S, Choice(sheet, S), IsFiniteSet(S \ C), Cardinality(S \ C) = k + 1
               PROVE  Total(S) <= Total(C)
    OBVIOUS
  <2>1. PICK i \in S \ C : TRUE
    BY FS_EmptySet
  <2>2. PICK j \in C \ S : /\ Choice(sheet, (S \ {i}) \cup {j})
                           /\ Total(S) <= Total((S \ {i}) \cup {j})
    BY Exchange
  <2> DEFINE T == (S \ {i}) \cup {j}
  <2>3. T \ C = (S \ C) \ {i}
    BY <2>2
  <2>4. IsFiniteSet(T \ C) /\ Cardinality(T \ C) = k
    <3> DEFINE D == S \ C
    <3>1. IsFiniteSet(D) /\ Cardinality(D) = k + 1 /\ i \in D /\ T \ C = D \ {i}
      BY <2>3
    <3> HIDE DEF T, C, D
    <3>2. IsFiniteSet(D \ {i}) /\ Cardinality(D \ {i}) = Cardinality(D) - 1
      BY <3>1, FS_RemoveElement
    <3>3. IsFiniteSet(T \ C) /\ Cardinality(T \ C) = Cardinality(D \ {i})
      BY <3>1, <3>2, Zenon
    <3>4. k + 1 - 1 = k
      OBVIOUS
    <3> QED
      BY <3>1, <3>2, <3>3, <3>4
  <2>5. Total(T) <= Total(C)
    BY <1>4, <2>2, <2>4
  <2> HIDE DEF Total, T
  <2>6. Total(S) \in Nat /\ Total(T) \in Nat /\ Total(C) \in Nat /\ Total(S) <= Total(T)
    BY <1>2, <2>2 DEF T
  <2> QED
    BY <2>5, <2>6
<1>5. Nat \subseteq K
  <2> HIDE DEF K
  <2> QED
    BY <1>3, <1>4, Induct
<1>6. Choice(sheet, C)
  BY CountedIsChoice
<1>7. ASSUME NEW S, Choice(sheet, S) PROVE Total(S) <= Total(C)
  <2>1. S \ C \in SUBSET (1..Len(sheet.questions))
    BY <1>7 DEF Choice, ListOf
  <2>2. IsFiniteSet(S \ C)
    <3>1. IsFiniteSet(1..Len(sheet.questions))
      BY FinitePlaces
    <3> QED
      BY <2>1, <3>1, FS_Subset
  <2>3. Cardinality(S \ C) \in Nat
    BY <2>2, FS_CardinalityType
  <2> QED
    BY <1>5, <1>7, <2>2, <2>3
<1> QED
  BY <1>2, <1>6, <1>7 DEF ComputePaperTotal

-----------------------------------------------------------------------------
(* Attendance *)

\* Only what transcriptions write is ever stored as attendance.
AttendanceTyped == attendance \in [Students -> Rows]

LEMMA AttendanceTypedInit == Init => AttendanceTyped
  BY DEF Init, AttendanceTyped, Rows

\* An upsert of one column leaves a row a row.
LEMMA AttendanceTypedStep == AttendanceTyped /\ [Next]_vars => AttendanceTyped'
<1> SUFFICES ASSUME AttendanceTyped, [Next]_vars PROVE AttendanceTyped'
  OBVIOUS
<1> USE DEF AttendanceTyped
<1>1. ASSUME NEW s \in Students, NEW a \in Attendances, Transcribe(s, a) PROVE AttendanceTyped'
  BY <1>1 DEF Transcribe, Rows
<1>2. ASSUME NEW s \in Students, NEW a \in Attendances, TranscribeBaseline(s, a)
      PROVE AttendanceTyped'
  BY <1>2 DEF TranscribeBaseline, Rows
<1>3. CASE UNCHANGED attendance
  BY <1>3
<1> QED
  BY <1>1, <1>2, <1>3 DEF Next, SavePaper, Submit, StoreResult, Raise, Resolve, Finalize, vars

-----------------------------------------------------------------------------

\* A submission is accepted with a total only where the paper has its own
\* transcription, and that is not "absent".
LEMMA AcceptedWithTotal ==
  ASSUME NEW mode, NEW rows, NEW p, NEW entered,
         ValidateMarksSubmission(mode, rows, p, entered).total # None
  PROVE  rows.paper \notin {None, "absent"}
<1>1. rows.paper # None
  BY DEF ValidateMarksSubmission, HasSpecificTranscription, Rejected
<1>2. EffectiveAttendance(rows) = rows.paper
  BY <1>1 DEF EffectiveAttendance
<1>3. ASSUME rows.paper = "absent" PROVE FALSE
  BY <1>2, <1>3 DEF ValidateMarksSubmission, ValidateTotalMark, ValidateItemMarks, Accepted, Rejected
<1> QED
  BY <1>1, <1>3

\* Marks are stored for a student only on the strength of the paper's own
\* report: it was transcribed before and says present, whatever the baseline.
THEOREM MarksRestOnTheReport == Spec => MarksNeedTheReport
<1> DEFINE FromReport == \A s \in Students :
                           marks'[s] \notin {marks[s], None} => attendance[s].paper = "present"
<1>1. AttendanceTyped /\ [Next]_vars => FromReport
  <2> SUFFICES ASSUME AttendanceTyped, [Next]_vars,
                      NEW s \in Students, marks'[s] \notin {marks[s], None}
               PROVE  attendance[s].paper = "present"
    OBVIOUS
  <2>1. PICK t \in Students, e \in Entries[paper.mode] : Submit(t, e)
    BY DEF Next, SavePaper, Transcribe, TranscribeBaseline, Raise, Resolve, Finalize, vars
  <2> DEFINE result == ValidateMarksSubmission(paper.mode, attendance[t], paper, e)
  <2>2. s = t /\ result.total # None
    BY <2>1 DEF Submit, StoreResult
  <2>3. attendance[s].paper \notin {None, "absent"}
    BY <2>2, AcceptedWithTotal
  <2>4. attendance[s].paper \in Attendances \cup {None}
    BY DEF AttendanceTyped, Rows
  <2> QED
    BY <2>3, <2>4 DEF Attendances
<1>2. Spec => []AttendanceTyped
  BY AttendanceTypedInit, AttendanceTypedStep, PTL DEF Spec
<1> QED
  BY <1>1, <1>2, PTL DEF Spec, MarksNeedTheReport

-----------------------------------------------------------------------------

\* The question asked before a FinalizedScope is written, of any scope.
CompleteIn(a) ==
  EvaluateScopeCompleteness([s \in Students |-> [attendance |-> EffectiveAttendance(a.attendance[s]),
                                                complete   |-> a.marks[s] # None,
                                                incident   |-> s \in a.incidents]],
                            None \in a.incidents) = {}

\* A scope without blockers is settled: what evaluate_scope_completeness
\* promises to whoever writes the FinalizedScope.
LEMMA NoBlockersMeansSettled ==
  ASSUME NEW a, CompleteIn(a)
  PROVE  /\ None \notin a.incidents
         /\ \A s \in Students :
              \/ a.marks[s] # None /\ s \notin a.incidents
              \/ a.attendance[s].paper = "absent"
              \/ a.attendance[s].paper = None /\ a.attendance[s].all = "absent"
<1> DEFINE states == [s \in Students |-> [attendance |-> EffectiveAttendance(a.attendance[s]),
                                         complete   |-> a.marks[s] # None,
                                         incident   |-> s \in a.incidents]]
<1>1. None \notin a.incidents
  BY DEF CompleteIn, EvaluateScopeCompleteness
<1>2. ASSUME NEW s \in Students PROVE StudentBlocker(states[s]) = OK
  BY <1>2 DEF CompleteIn, EvaluateScopeCompleteness
<1>3. ASSUME NEW s \in Students
      PROVE  EffectiveAttendance(a.attendance[s]) = "absent" \/ (s \notin a.incidents /\ a.marks[s] # None)
  BY <1>2, <1>3 DEF StudentBlocker, OK
<1>4. ASSUME NEW s \in Students, EffectiveAttendance(a.attendance[s]) = "absent"
      PROVE  \/ a.attendance[s].paper = "absent"
             \/ a.attendance[s].paper = None /\ a.attendance[s].all = "absent"
  BY <1>4 DEF EffectiveAttendance
<1> QED
  BY <1>1, <1>3, <1>4

\* The steps that keep a finalized scope settled: to finalize it, to resolve an
\* incident, and anything else while it is not finalized.
LEMMA SettledStays ==
  ASSUME FinalizedIsComplete,
         \/ Finalize
         \/ \E x : Resolve(x)
         \/ ~finalized /\ UNCHANGED finalized
         \/ UNCHANGED <<attendance, marks, incidents, finalized>>
  PROVE  FinalizedIsComplete'
<1>1. CASE Finalize
  <2>1. CompleteIn(Scope)
    BY <1>1 DEF Finalize, Complete, CompleteIn, StudentScopeState, Scope
  <2> QED
    BY <1>1, <2>1, NoBlockersMeansSettled DEF Finalize, FinalizedIsComplete, Scope
<1>2. ASSUME NEW x, Resolve(x) PROVE FinalizedIsComplete'
  BY <1>2 DEF Resolve, FinalizedIsComplete
<1>3. CASE ~finalized /\ UNCHANGED finalized
  BY <1>3 DEF FinalizedIsComplete
<1>4. CASE UNCHANGED <<attendance, marks, incidents, finalized>>
  BY <1>4 DEF FinalizedIsComplete
<1> QED
  BY <1>1, <1>2, <1>3, <1>4

\* A finalized scope is settled, and nothing that happens afterwards unsettles it.
THEOREM FinalizedStaysComplete == Spec => []FinalizedIsComplete
<1>1. Init => FinalizedIsComplete
  BY DEF Init, FinalizedIsComplete
<1>2. FinalizedIsComplete /\ [Next]_vars => FinalizedIsComplete'
  BY SettledStays
  DEF Next, SavePaper, Transcribe, TranscribeBaseline, Submit, StoreResult, Raise, Open, vars
<1> QED
  BY <1>1, <1>2, PTL DEF Spec

-----------------------------------------------------------------------------
(* What is stored *)

\* A configuration is a list of questions.
LEMMA PapersAreLists ==
  ASSUME NEW p \in Papers
  PROVE  ListOf(p) /\ None \notin DOMAIN p.groups /\ p.max \in Nat
         /\ \A i \in DOMAIN p.questions : p.questions[i].max \in Nat
<1> DEFINE Q == {p.questions[i] : i \in DOMAIN p.questions}
<1>1. p.questions \in Seq(Q)
  BY PaperAssumption
<1>2. Len(p.questions) \in Nat /\ DOMAIN p.questions = 1..Len(p.questions)
  <2> HIDE DEF Q
  <2> QED
    BY <1>1, LenProperties
<1> QED
  BY <1>2, PaperAssumption DEF ListOf

\* A mark without a fault is a number in range.
LEMMA FaultlessMark ==
  ASSUME NEW raw, NEW max, MarkFault(raw, max) = OK
  PROVE  raw \in 0..max
BY DEF MarkFault, OK, Surfaces

\* An item set has a mark in range for every question and for no other, or it
\* has a fault.
LEMMA FaultlessItems ==
  ASSUME NEW p \in Papers, NEW items, ItemFault(p, items) = OK
  PROVE  /\ DOMAIN items = QuestionNumbers(p)
         /\ \A i \in DOMAIN p.questions :
              items[p.questions[i].number] \in 0..p.questions[i].max
<1> DEFINE codes == [i \in DOMAIN p.questions |->
                       MarkFault(items[p.questions[i].number], p.questions[i].max)]
<1>1. DOMAIN items = QuestionNumbers(p) /\ FirstFailure(codes) = OK
  BY DEF ItemFault, OK
<1>2. DOMAIN codes \subseteq Nat
  BY PapersAreLists DEF ListOf
<1>3. \A i \in DOMAIN codes : codes[i] = OK
  <2> HIDE DEF codes
  <2> QED
    BY <1>1, <1>2, NoFailure
<1> QED
  BY <1>1, <1>3, FaultlessMark

\* Such an item set has a whole score for every question.
LEMMA ItemsAreScored ==
  ASSUME NEW p \in Papers, NEW items, DOMAIN items = QuestionNumbers(p),
         \A i \in DOMAIN p.questions : items[p.questions[i].number] \in 0..p.questions[i].max
  PROVE  Scored(p, items)
<1> SUFFICES ASSUME NEW i \in DOMAIN p.questions PROVE Score(p, items, i) \in Nat
  BY DEF Scored
<1>1. p.questions[i].number \in DOMAIN items
  BY DEF QuestionNumbers
<1> QED
  BY <1>1 DEF Score

\* What the rules accept with a total.
Explicit(p, stored) ==
  /\ stored.total \in 0..p.max
  /\ p.mode = "ITEM_LEVEL" =>
       /\ DOMAIN stored.entered = QuestionNumbers(p)
       /\ \A i \in DOMAIN p.questions :
            stored.entered[p.questions[i].number] \in 0..p.questions[i].max
       /\ stored.total = ComputePaperTotal(p, stored.entered)

LEMMA AcceptedIsExplicit ==
  ASSUME NEW p \in Papers, ValidatePaperConfig(p) = OK, NEW rows, NEW entered, NEW result,
         result = ValidateMarksSubmission(p.mode, rows, p, entered),
         result.code = OK, result.total # None
  PROVE  Explicit(p, [entered |-> entered, total |-> result.total])
<1>1. p.mode = "TOTAL_MARKS" \/ p.mode = "ITEM_LEVEL"
  BY ModeAssumption
<1>2. CASE p.mode = "TOTAL_MARKS"
  <2>1. result = ValidateTotalMark(EffectiveAttendance(rows), p, entered)
    BY <1>2 DEF ValidateMarksSubmission, Rejected, OK
  <2>2. MarkFault(entered, p.max) = OK /\ result.total = entered
    BY <2>1 DEF ValidateTotalMark, Accepted, Rejected, OK
  <2>3. entered \in 0..p.max
    BY <2>2, FaultlessMark
  <2> QED
    BY <1>2, <2>2, <2>3 DEF Explicit
<1>3. CASE p.mode = "ITEM_LEVEL"
  <2>1. result = ValidateItemMarks(EffectiveAttendance(rows), p, entered)
    BY <1>3 DEF ValidateMarksSubmission, Rejected, OK
  <2>2. /\ ItemFault(p, entered) = OK
        /\ ~(ComputePaperTotal(p, entered) > p.max)
        /\ result.total = ComputePaperTotal(p, entered)
    BY <2>1 DEF ValidateItemMarks, Accepted, Rejected, OK
  <2>3. /\ DOMAIN entered = QuestionNumbers(p)
        /\ \A i \in DOMAIN p.questions :
             entered[p.questions[i].number] \in 0..p.questions[i].max
    BY <2>2, FaultlessItems
  <2>4. ComputePaperTotal(p, entered) \in Nat
    BY <2>3, ItemsAreScored, PapersAreLists, BestIsBest
  <2>5. ComputePaperTotal(p, entered) \in 0..p.max
    BY <2>2, <2>4, PapersAreLists
  <2> QED
    BY <2>2, <2>3, <2>5 DEF Explicit
<1> QED
  BY <1>1, <1>2, <1>3

\* The inductive invariant of what is stored: a paper in force was accepted, and
\* every stored submission is what the rules made of it under that paper.
StoredInv ==
  /\ paper # None => paper \in Papers /\ ValidatePaperConfig(paper) = OK
  /\ marks = [s \in Students |-> marks[s]]
  /\ \A s \in Students : marks[s] # None => paper # None /\ Explicit(paper, marks[s])

LEMMA StoredInvStep == StoredInv /\ [Next]_vars => StoredInv'
<1> SUFFICES ASSUME StoredInv, [Next]_vars PROVE StoredInv'
  OBVIOUS
<1> USE DEF StoredInv
<1>1. ASSUME NEW p \in Papers, SavePaper(p) PROVE StoredInv'
  BY <1>1 DEF SavePaper
<1>2. ASSUME NEW s \in Students, NEW e \in Entries[paper.mode], Submit(s, e) PROVE StoredInv'
  <2> DEFINE result == ValidateMarksSubmission(paper.mode, attendance[s], paper, e)
  <2>1. /\ paper # None /\ result.code = OK /\ paper' = paper
        /\ marks' = [marks EXCEPT ![s] = IF result.total = None THEN None
                                         ELSE [entered |-> e, total |-> result.total]]
    BY <1>2 DEF Submit, StoreResult, Open
  <2>2. result.total # None => Explicit(paper, [entered |-> e, total |-> result.total])
    BY <2>1, AcceptedIsExplicit
  <2> HIDE DEF result
  <2>3. marks' = [t \in Students |-> marks'[t]]
    BY <2>1
  <2>4. ASSUME NEW t \in Students, marks'[t] # None PROVE Explicit(paper, marks'[t])
    BY <2>1, <2>2, <2>4
  <2> QED
    BY <2>1, <2>3, <2>4
<1>3. CASE UNCHANGED <<paper, marks>>
  BY <1>3
<1> QED
  BY <1>1, <1>2, <1>3
  DEF Next, Transcribe, TranscribeBaseline, Raise, Resolve, Finalize, vars

LEMMA StoredInvHolds == Spec => []StoredInv
<1>1. Init => StoredInv
  BY DEF Init, StoredInv
<1> QED
  BY <1>1, StoredInvStep, PTL DEF Spec

\* "No blank marks, ever": for any configuration and any entries, in whatever
\* order they come, what is stored is a number in range for each question.
THEOREM NoBlankMarks == Spec => []StoredMarksAreExplicit
<1>1. StoredInv => StoredMarksAreExplicit
  BY DEF StoredInv, StoredMarksAreExplicit, Explicit
<1> QED
  BY <1>1, StoredInvHolds, PTL

LEMMA LargestIsMax ==
  ASSUME NEW T \in SUBSET Int, NEW m \in T, \A t \in T : t <= m
  PROVE  Max(T) = m
<1> DEFINE Largest(x) == \A y \in T : x >= y
<1>1. m \in T /\ Largest(m)
  OBVIOUS
<1>2. Max(T) = CHOOSE x \in T : Largest(x)
  BY DEF Max
<1>3. Max(T) \in T /\ Largest(Max(T))
  <2> HIDE DEF Largest
  <2> QED
    BY <1>1, <1>2
<1>4. m \in Int /\ Max(T) \in Int
  BY <1>3
<1>5. Max(T) >= m /\ m >= Max(T)
  BY <1>1, <1>3
<1> QED
  BY <1>4, <1>5

\* Best N of M: for any configuration that was accepted and any item set, the
\* total stored is the most the candidate can be given.
THEOREM TotalsAreBest == Spec => []TotalIsTheBestChoice
<1>1. StoredInv => TotalIsTheBestChoice
  <2> SUFFICES ASSUME StoredInv, paper # None, paper.mode = "ITEM_LEVEL",
                      NEW s \in Students, marks[s] # None
               PROVE  marks[s].total = Max({Marked(paper, marks[s].entered, S) : S \in MarkedSets})
    BY DEF TotalIsTheBestChoice
  <2> DEFINE items == marks[s].entered
             totals == {Marked(paper, items, S) : S \in MarkedSets}
  <2>1. /\ paper \in Papers /\ ValidatePaperConfig(paper) = OK
        /\ marks[s].total = ComputePaperTotal(paper, items)
    BY DEF StoredInv, Explicit
  <2>2. ListOf(paper) /\ None \notin DOMAIN paper.groups /\ Scored(paper, items)
    BY <2>1, PapersAreLists, ItemsAreScored DEF StoredInv, Explicit
  <2>3. \A S : S \in MarkedSets <=> Choice(paper, S)
    BY DEF MarkedSets, Choice
  <2>4. /\ Counted(paper, items) \in MarkedSets
        /\ \A S \in MarkedSets : Marked(paper, items, S) <= ComputePaperTotal(paper, items)
    BY <2>1, <2>2, <2>3, BestIsBest
  <2>5. ComputePaperTotal(paper, items) \in totals
    BY <2>4 DEF ComputePaperTotal
  <2>6. \A t \in totals : t <= ComputePaperTotal(paper, items)
    BY <2>4
  <2>7. totals \in SUBSET Int
    BY <2>2, MarkedIsNat
  <2> HIDE DEF totals
  <2>8. Max(totals) = ComputePaperTotal(paper, items)
    BY <2>5, <2>6, <2>7, LargestIsMax
  <2> QED
    BY <2>1, <2>8 DEF totals
<1> QED
  BY <1>1, StoredInvHolds, PTL

-----------------------------------------------------------------------------
(* The Central of ScopeSync: what is finalized *)

\* A saved scope that is complete if it is finalized.
Settled(scope) ==
  scope.finalized =>
    /\ None \notin scope.incidents
    /\ \A s \in Students :
         \/ scope.marks[s] # None /\ s \notin scope.incidents
         \/ scope.attendance[s].paper = "absent"
         \/ scope.attendance[s].paper = None /\ scope.attendance[s].all = "absent"

\* The inductive invariant: what a rollback would bring back is settled as well.
SettledInv == CentralFinalizedIsComplete /\ (active # None => Settled(before))

LEMMA SettledInvInit == SyncInit => SettledInv
  BY DEF SyncInit, SettledInv, CentralFinalizedIsComplete, Central!FinalizedIsComplete

\* The tables as they are saved when a request enters the engine.
LEMMA SavedSettled == CentralFinalizedIsComplete => Settled(Tables)
  BY DEF CentralFinalizedIsComplete, Central!FinalizedIsComplete, Settled, Tables

\* The Central asks of its tables what the station asked of its own.
LEMMA SameQuestion == Central!Complete <=> CompleteIn(CentralScope)
  BY DEF Central!Complete, CompleteIn, CentralScope, Central!StudentScopeState,
     Central!EvaluateScopeCompleteness, EvaluateScopeCompleteness, Central!EffectiveAttendance,
     EffectiveAttendance, Central!StudentBlocker, StudentBlocker, Central!OK, OK

\* What apply_event does to a scope that is finalized leaves it settled.
LEMMA ApplySettled ==
  ASSUME CentralFinalizedIsComplete, NEW event, Apply(event)
  PROVE  CentralFinalizedIsComplete'
<1> USE DEF CentralFinalizedIsComplete, Central!FinalizedIsComplete
<1>1. \/ Central!Finalize
      \/ \E x : Central!Resolve(x)
      \/ ~cFinalized /\ UNCHANGED cFinalized
      \/ UNCHANGED <<cAttendance, cMarks, cIncidents, cFinalized>>
  BY DEF Apply, LandMarks, Central!Transcribe, Central!TranscribeBaseline, Central!StoreResult,
     Central!Raise, Central!Resolve, Central!Finalize, Central!Open
<1>2. CASE Central!Finalize
  <2>1. CompleteIn(CentralScope)
    BY <1>2, SameQuestion DEF Central!Finalize
  <2> QED
    BY <1>2, <2>1, NoBlockersMeansSettled DEF Central!Finalize, CentralScope
<1>3. ASSUME NEW x, Central!Resolve(x) PROVE CentralFinalizedIsComplete'
  BY <1>3 DEF Central!Resolve
<1>4. CASE ~cFinalized /\ UNCHANGED cFinalized
  BY <1>4
<1>5. CASE UNCHANGED <<cAttendance, cMarks, cIncidents, cFinalized>>
  BY <1>5
<1> QED
  BY <1>1, <1>2, <1>3, <1>4, <1>5

LEMMA SettledInvStep == SettledInv /\ [SyncNext]_syncVars => SettledInv'
<1> SUFFICES ASSUME SettledInv, [SyncNext]_syncVars PROVE SettledInv'
  OBVIOUS
<1> USE DEF SettledInv
<1>1. ASSUME NEW i \in Indices, Accept(i) PROVE SettledInv'
  <2>1. CentralFinalizedIsComplete'
    BY <1>1, ApplySettled DEF Accept
  <2> QED
    BY <1>1, <2>1 DEF Accept, Judging, Named, Settled
<1>2. CASE Fail
  BY <1>2 DEF Fail, Settled, CentralFinalizedIsComplete, Central!FinalizedIsComplete
<1>3. ASSUME NEW r \in wire, Begin(r) PROVE SettledInv'
  <2>1. before' = Tables /\ UNCHANGED tableVars
    BY <1>3 DEF Begin
  <2> QED
    BY <2>1, SavedSettled DEF Settled, tableVars, CentralFinalizedIsComplete,
       Central!FinalizedIsComplete
<1>4. CASE UNCHANGED <<tableVars, before>> /\ (active = None => active' = None)
  BY <1>4 DEF tableVars, Settled, CentralFinalizedIsComplete, Central!FinalizedIsComplete
<1>5. CASE Answer
  BY <1>5 DEF Answer, tableVars, CentralFinalizedIsComplete, Central!FinalizedIsComplete
<1>6. ASSUME NEW i \in Indices, Duplicate(i) \/ Refuse(i) \/ Reject(i) PROVE SettledInv'
  BY <1>4, <1>6 DEF Duplicate, Refuse, Reject, Named, Judging
<1>7. CASE Timeout
  BY <1>4, <1>7 DEF Timeout
<1>8. CASE Enter \/ Send \/ ToggleGate \/ UNCHANGED syncVars
  <2>1. Enter => UNCHANGED <<tableVars, before, active>>
    BY DEF Enter, Record
  <2> QED
    BY <1>4, <1>8, <2>1 DEF Send, ToggleGate, syncVars
<1> QED
  BY <1>1, <1>2, <1>3, <1>5, <1>6, <1>7, <1>8 DEF SyncNext, Judge

\* For any scope and any history of batches, refusals, rejections and rollbacks:
\* what the Central has finalized is complete by the Central's own tables.
THEOREM CentralFinalizesComplete == SyncSpec => []CentralFinalizedIsComplete
<1>1. SettledInv => CentralFinalizedIsComplete
  BY DEF SettledInv
<1> QED
  BY SettledInvInit, SettledInvStep, <1>1, PTL DEF SyncSpec
-----------------------------------------------------------------------------
(***************************************************************************)
(* The Central follows the station.  The argument: `past' is a chain of    *)
(* scopes, each following from the one before by the event between them,   *)
(* and what an event makes of a scope is determined by the scope, on       *)
(* either side.  So a Central that has the effect of the first n events    *)
(* can take event n + 1 and no other step forward, and cannot reject it.   *)
(* That event n + 1 is the one that comes rests on requests being cut off  *)
(* the front of what is pending, and on nothing being skipped while the    *)
(* gate is open.                                                           *)
(***************************************************************************)

\* A scope of these parts.
ScopeOf(a, m, x, f) == [attendance |-> a, marks |-> m, incidents |-> x, finalized |-> f]

MarksResult(p, event, a) ==
  ValidateMarksSubmission(p.mode, a.attendance[event.of], p, event.value)

\* Under the configuration p the rules let event be stored in the scope a, and b
\* is the scope then.
Follows(p, event, a, b) ==
  \/ /\ event.type = "ATTENDANCE_TRANSCRIBED" /\ ~a.finalized
     /\ b = ScopeOf([a.attendance EXCEPT ![event.of].paper = event.value],
                    a.marks, a.incidents, a.finalized)
  \/ /\ event.type = "ATTENDANCE_BASELINE" /\ ~a.finalized
     /\ b = ScopeOf([a.attendance EXCEPT ![event.of].all = event.value],
                    a.marks, a.incidents, a.finalized)
  \/ /\ event.type = "STUDENT_PAPER_MARKS_REPLACED" /\ ~a.finalized
     /\ MarksResult(p, event, a).code = OK
     /\ b = ScopeOf(a.attendance,
                    [a.marks EXCEPT ![event.of] =
                       IF MarksResult(p, event, a).total = None THEN None
                       ELSE [entered |-> event.value, total |-> MarksResult(p, event, a).total]],
                    a.incidents, a.finalized)
  \/ /\ event.type = "INCIDENT_RAISED" /\ event.value = "OPEN" /\ ~a.finalized
     /\ b = ScopeOf(a.attendance, a.marks, a.incidents \cup {event.of}, a.finalized)
  \/ /\ event.type = "INCIDENT_RAISED" /\ event.value = "RESOLVED" /\ event.of \in a.incidents
     /\ b = ScopeOf(a.attendance, a.marks, a.incidents \ {event.of}, a.finalized)
  \/ /\ event.type = "SCOPE_FINALIZED" /\ ~a.finalized /\ CompleteIn(a)
     /\ b = ScopeOf(a.attendance, a.marks, a.incidents, TRUE)

IsSequence(s) == Len(s) \in Nat /\ s = [i \in 1..Len(s) |-> s[i]]

\* What the station has recorded.
History ==
  /\ paper \in Papers
  /\ IsSequence(outbox) /\ IsSequence(status) /\ IsSequence(past)
  /\ Len(outbox) <= MaxEvents /\ Len(status) = Len(outbox) /\ Len(past) = Len(outbox) + 1
  /\ past[Len(past)] = Scope
  /\ \A i \in 1..Len(outbox) : Follows(paper, outbox[i], past[i], past[i + 1])

Receipts == [Indices -> {"ACCEPTED", "REJECTED", None}]

Requests ==
  /\ receipts \in Receipts
  /\ wire \subseteq [events : SUBSET (1..Len(outbox)), live : BOOLEAN]
  /\ active # None =>
       /\ active \in [todo : SUBSET (1..Len(outbox)), live : BOOLEAN,
                      answer : [Indices -> Outcomes \cup {None}]]
       /\ before.receipts \in Receipts

\* These receipts and this scope are the first n events, all of them accepted.
Front(rec, scope) ==
  \E n \in 0..Len(outbox) :
    /\ \A i \in Indices : rec[i] = IF i <= n THEN "ACCEPTED" ELSE None
    /\ scope = past[n + 1]

SavedScope == ScopeOf(before.attendance, before.marks, before.incidents, before.finalized)

\* What stays if the request in the engine fails.
Committed == IF active = None THEN receipts ELSE before.receipts

\* Whatever comes before an event of the batch is in the batch or judged.
InOrder(batch, rec) == \A i \in batch : \A j \in 1..(i - 1) : j \in batch \/ rec[j] # None

OnRecord == {"accepted", "duplicate", "rejected"}

CentralFollows ==
  /\ Front(receipts, CentralScope)
  /\ active # None =>
       /\ Front(before.receipts, SavedScope)
       /\ \A i \in Indices : before.receipts[i] # None => receipts[i] # None
       /\ gateOpen => InOrder(active.todo, receipts)
       /\ \A i \in Indices : active.answer[i] \in OnRecord => receipts[i] # None
  /\ \A i \in 1..Len(outbox) : status[i] # "PENDING" => Committed[i] # None
  /\ \A r \in wire : InOrder(r.events, Committed)

\* The inductive invariant.
FollowInv == History /\ Requests /\ (torn \/ CentralFollows)

\* What an append does to a sequence, whatever its elements are.
LEMMA Appended ==
  ASSUME NEW s, IsSequence(s), NEW e
  PROVE  /\ DOMAIN s = 1..Len(s)
         /\ IsSequence(Append(s, e)) /\ Len(Append(s, e)) = Len(s) + 1
         /\ \A i \in 1..Len(s) : Append(s, e)[i] = s[i]
         /\ Append(s, e)[Len(s) + 1] = e
<1> DEFINE S == {s[i] : i \in 1..Len(s)} \cup {e}
<1>1. s \in Seq(S) /\ e \in S BY DEF IsSequence
<1> HIDE DEF S
<1>2. Append(s, e) \in Seq(S) BY <1>1
<1>3. /\ Len(Append(s, e)) = Len(s) + 1 /\ Append(s, e)[Len(s) + 1] = e
      /\ \A i \in 1..Len(s) : Append(s, e)[i] = s[i]
  BY <1>1, AppendProperties
<1>4. Len(Append(s, e)) \in Nat /\ Append(s, e) \in [1..Len(Append(s, e)) -> S]
  BY <1>2, LenProperties
<1>5. IsSequence(Append(s, e)) BY <1>4 DEF IsSequence
<1>6. DOMAIN s = 1..Len(s) BY DEF IsSequence
<1> QED BY <1>3, <1>5, <1>6

\* What the station enters follows from the scope it had.
LEMMA EnterFollows ==
  ASSUME Enter
  PROVE  /\ \E event : Record(event) /\ Follows(paper, event, Scope, Scope')
         /\ UNCHANGED paper
<1>1. ASSUME NEW s \in Students, NEW a \in Attendances,
             Transcribe(s, a), Record(Event("ATTENDANCE_TRANSCRIBED", s, a))
      PROVE  Follows(paper, Event("ATTENDANCE_TRANSCRIBED", s, a), Scope, Scope') /\ UNCHANGED paper
  BY <1>1 DEF Transcribe, Open, Follows, Event, Scope, ScopeOf
<1>2. ASSUME NEW s \in Students, NEW a \in Attendances,
             TranscribeBaseline(s, a), Record(Event("ATTENDANCE_BASELINE", s, a))
      PROVE  Follows(paper, Event("ATTENDANCE_BASELINE", s, a), Scope, Scope') /\ UNCHANGED paper
  BY <1>2 DEF TranscribeBaseline, Follows, Event, Scope, ScopeOf
<1>3. ASSUME NEW s \in Students, NEW e \in Entries[paper.mode],
             Submit(s, e), Record(Event("STUDENT_PAPER_MARKS_REPLACED", s, e))
      PROVE  Follows(paper, Event("STUDENT_PAPER_MARKS_REPLACED", s, e), Scope, Scope') /\ UNCHANGED paper
  BY <1>3 DEF Submit, StoreResult, Open, Follows, MarksResult, Event, Scope, ScopeOf
<1>4. ASSUME NEW x \in IncidentSubjects, Raise(x), Record(Event("INCIDENT_RAISED", x, "OPEN"))
      PROVE  Follows(paper, Event("INCIDENT_RAISED", x, "OPEN"), Scope, Scope') /\ UNCHANGED paper
  BY <1>4 DEF Raise, Open, Follows, Event, Scope, ScopeOf
<1>5. ASSUME NEW x \in IncidentSubjects, Resolve(x), Record(Event("INCIDENT_RAISED", x, "RESOLVED"))
      PROVE  Follows(paper, Event("INCIDENT_RAISED", x, "RESOLVED"), Scope, Scope') /\ UNCHANGED paper
  BY <1>5 DEF Resolve, Follows, Event, Scope, ScopeOf
<1>6. ASSUME Finalize, Record(Event("SCOPE_FINALIZED", None, None))
      PROVE  Follows(paper, Event("SCOPE_FINALIZED", None, None), Scope, Scope') /\ UNCHANGED paper
  BY <1>6 DEF Finalize, Open, Complete, CompleteIn, StudentScopeState, Follows, Event, Scope, ScopeOf
<1> QED BY <1>1, <1>2, <1>3, <1>4, <1>5, <1>6 DEF Enter

LEMMA HistoryStep == History /\ [SyncNext]_syncVars => History'
<1> SUFFICES ASSUME History, [SyncNext]_syncVars PROVE History'
  OBVIOUS
<1> USE DEF History
<1>1. CASE Enter
  <2>1. PICK event : Record(event) /\ Follows(paper, event, Scope, Scope') BY <1>1, EnterFollows
  <2>2. UNCHANGED paper BY <1>1, EnterFollows
  <2>3. /\ outbox' = Append(outbox, event) /\ status' = Append(status, "PENDING")
        /\ past' = Append(past, Scope') /\ Len(outbox) < MaxEvents
    BY <2>1 DEF Record
  <2>4. Len(outbox) \in Nat /\ MaxEvents \in Nat BY SyncAssumption DEF IsSequence
  <2>5. /\ IsSequence(outbox') /\ IsSequence(status') /\ IsSequence(past')
        /\ Len(outbox') = Len(outbox) + 1 /\ Len(status') = Len(outbox')
        /\ Len(past') = Len(outbox') + 1 /\ Len(outbox') <= MaxEvents
    BY <2>3, <2>4, Appended
  <2>6. past'[Len(past')] = Scope' BY <2>3, <2>5, Appended
  <2>7. ASSUME NEW i \in 1..Len(outbox') PROVE Follows(paper, outbox[i], past[i], past[i + 1])'
    <3>1. CASE i <= Len(outbox)
      <4>1. /\ outbox'[i] = outbox[i] /\ past'[i] = past[i] /\ past'[i + 1] = past[i + 1]
            /\ i \in 1..Len(outbox)
        BY <2>3, <2>4, <2>5, <3>1, Appended
      <4> QED BY <4>1, <2>2
    <3>2. CASE i = Len(outbox) + 1
      <4>1. outbox'[i] = event /\ past'[i] = Scope /\ past'[i + 1] = Scope'
        BY <2>3, <2>4, <2>5, <3>2, Appended
      <4> QED BY <4>1, <2>1, <2>2
    <3> QED BY <2>4, <2>5, <3>1, <3>2
  <2> QED BY <2>2, <2>5, <2>6, <2>7
<1>2. CASE UNCHANGED stationVars
  BY <1>2 DEF stationVars, scopeVars, IsSequence, Scope
<1>3. CASE Answer
  <2>1. UNCHANGED <<scopeVars, outbox, past>> BY <1>3 DEF Answer
  <2>2. IsSequence(status') /\ Len(status') = Len(status)
    <3>1. DOMAIN status = 1..Len(status) /\ Len(status) \in Nat BY Appended DEF IsSequence
    <3>2. status' = status \/
          status' = [i \in 1..Len(status) |-> IF active.answer[i] = None THEN status[i]
                                             ELSE Reconciled(active.answer[i])]
      BY <1>3, <3>1 DEF Answer
    <3> QED BY <3>1, <3>2 DEF IsSequence
  <2> QED BY <2>1, <2>2 DEF scopeVars, IsSequence, Scope
<1> QED
  BY <1>1, <1>2, <1>3
     DEF SyncNext, Send, Timeout, Begin, Judge, Duplicate, Refuse, Accept, Reject, Named, Apply,
         Fail, ToggleGate, syncVars
-----------------------------------------------------------------------------
(* The Central *)

\* What the rules let a station store in a scope, they let a Central that has
\* the same scope store, and they make the same of it.
LEMMA CentralTakes ==
  ASSUME paper # None, NEW event, NEW b, Follows(paper, event, CentralScope, b)
  PROVE  /\ Apply(event) => CentralScope' = b
         /\ ~Rejection(event)
<1> DEFINE a == CentralScope
           result == ValidateMarksSubmission(paper.mode, cAttendance[event.of], paper, event.value)
<1>1. /\ a.attendance = cAttendance /\ a.marks = cMarks
      /\ a.incidents = cIncidents /\ a.finalized = cFinalized
  BY DEF CentralScope
<1>2. MarksResult(paper, event, a) = result BY <1>1 DEF MarksResult
<1>3. CentralScope' = ScopeOf(cAttendance', cMarks', cIncidents', cFinalized')
  BY DEF CentralScope, ScopeOf
<1>4. CompleteIn(a) <=> Central!Complete BY SameQuestion
<1> HIDE DEF a, result
<1>5. ASSUME Apply(event) PROVE CentralScope' = b
  <2>1. CASE event.type = "ATTENDANCE_TRANSCRIBED"
    <3>1. Central!Transcribe(event.of, event.value) BY <1>5, <2>1 DEF Apply
    <3> QED BY <3>1, <2>1, <1>1, <1>3 DEF Follows, Central!Transcribe, a
  <2>2. CASE event.type = "ATTENDANCE_BASELINE"
    <3>1. Central!TranscribeBaseline(event.of, event.value) BY <1>5, <2>2 DEF Apply
    <3> QED BY <3>1, <2>2, <1>1, <1>3 DEF Follows, Central!TranscribeBaseline, a
  <2>3. CASE event.type = "STUDENT_PAPER_MARKS_REPLACED"
    <3>1. LandMarks(event.of, event.value) BY <1>5, <2>3 DEF Apply
    <3>2. /\ cMarks' = [cMarks EXCEPT ![event.of] =
                          IF result.total = None THEN None
                          ELSE [entered |-> event.value, total |-> result.total]]
          /\ UNCHANGED <<cAttendance, cIncidents, cFinalized>>
      BY <3>1 DEF LandMarks, Central!StoreResult, result
    <3> QED BY <3>2, <2>3, <1>1, <1>2, <1>3 DEF Follows, a
  <2>4. CASE event.type = "INCIDENT_RAISED" /\ event.value = "OPEN"
    <3>1. Central!Raise(event.of) BY <1>5, <2>4 DEF Apply
    <3> QED BY <3>1, <2>4, <1>1, <1>3 DEF Follows, Central!Raise, a
  <2>5. CASE event.type = "INCIDENT_RAISED" /\ event.value = "RESOLVED"
    <3>1. Central!Resolve(event.of) BY <1>5, <2>5 DEF Apply
    <3> QED BY <3>1, <2>5, <1>1, <1>3 DEF Follows, Central!Resolve, a
  <2>6. CASE event.type = "SCOPE_FINALIZED"
    <3>1. Central!Finalize BY <1>5, <2>6 DEF Apply
    <3> QED BY <3>1, <2>6, <1>1, <1>3 DEF Follows, Central!Finalize, a
  <2> QED BY <1>5, <2>1, <2>2, <2>3, <2>4, <2>5, <2>6 DEF Apply
<1>6. ~Rejection(event)
  <2>1. ~a.finalized => Central!Open BY <1>1 DEF Central!Open
  <2>2. CASE event.type = "STUDENT_PAPER_MARKS_REPLACED"
    BY <1>1, <1>2, <2>1, <2>2 DEF Follows, Rejection, result, a
  <2>3. CASE event.type = "SCOPE_FINALIZED"
    BY <1>4, <2>1, <2>3 DEF Follows, Rejection, a
  <2>4. CASE event.type = "INCIDENT_RAISED" /\ event.value = "RESOLVED"
    BY <1>1, <2>4 DEF Follows, Rejection, a
  <2>5. CASE event.type \in {"ATTENDANCE_TRANSCRIBED", "ATTENDANCE_BASELINE"}
    BY <2>1, <2>5 DEF Follows, Rejection, a
  <2>6. CASE event.type = "INCIDENT_RAISED" /\ event.value = "OPEN"
    BY <2>1, <2>6 DEF Follows, Rejection, a
  <2> QED BY <2>2, <2>3, <2>4, <2>5, <2>6 DEF Follows
<1> QED BY <1>5, <1>6
\* The types of what travels and of the receipts.
LEMMA RequestsStep == History /\ Requests /\ [SyncNext]_syncVars => Requests'
<1> SUFFICES ASSUME History, Requests, [SyncNext]_syncVars PROVE Requests'
  OBVIOUS
<1> USE DEF History, Requests
<1> DEFINE Asked == [events : SUBSET (1..Len(outbox)), live : BOOLEAN]
           Judgement == [todo : SUBSET (1..Len(outbox)), live : BOOLEAN,
                         answer : [Indices -> Outcomes \cup {None}]]
<1>1. /\ Len(outbox) \in Nat /\ MaxEvents \in Nat /\ DOMAIN outbox = 1..Len(outbox)
      /\ 1..Len(outbox) \subseteq Indices
  BY SyncAssumption DEF IsSequence, Indices
<1>2. NoAnswer \in [Indices -> Outcomes \cup {None}] BY DEF NoAnswer
<1>3. ASSUME NEW event, Record(event) PROVE Requests'
  <2>1. outbox' = Append(outbox, event) /\ UNCHANGED <<receipts, wire, active, before>>
    BY <1>3 DEF Record
  <2>2. Len(outbox') = Len(outbox) + 1 BY <2>1, Appended
  <2>3. 1..Len(outbox) \subseteq 1..Len(outbox') BY <1>1, <2>2
  <2> QED BY <2>1, <2>3
<1>4. CASE Send
  <2>1. NextBatch \in SUBSET (1..Len(outbox)) BY <1>1 DEF NextBatch, Pending
  <2>2. [events |-> NextBatch, live |-> TRUE] \in Asked BY <2>1
  <2>3. wire' = wire \cup {[events |-> NextBatch, live |-> TRUE]} BY <1>4 DEF Send
  <2>4. UNCHANGED <<outbox, receipts, active, before>> BY <1>4 DEF Send, stationVars
  <2>5. wire' \subseteq Asked BY <2>2, <2>3
  <2> QED BY <2>4, <2>5
<1>5. CASE Timeout
  <2>1. UNCHANGED <<outbox, receipts, before>> BY <1>5 DEF Timeout, stationVars
  <2>2. wire' \subseteq Asked
    <3>1. \A r \in Asked : [r EXCEPT !.live = FALSE] \in Asked OBVIOUS
    <3>2. wire' = {[r EXCEPT !.live = FALSE] : r \in wire} BY <1>5 DEF Timeout
    <3>3. wire \subseteq Asked OBVIOUS
    <3> QED BY <3>1, <3>2, <3>3
  <2>3. active' # None => active' \in Judgement
    BY <1>2, <1>5 DEF Timeout
  <2>4. active' # None => active # None BY <1>5 DEF Timeout
  <2> QED BY <2>1, <2>2, <2>3, <2>4
<1>6. ASSUME NEW r \in wire, Begin(r) PROVE Requests'
  <2>1. before' = Tables /\ UNCHANGED <<outbox, receipts>> /\ wire' \subseteq wire
    BY <1>6 DEF Begin, stationVars
  <2>2. before'.receipts = receipts BY <2>1 DEF Tables
  <2>3. active' = [todo |-> r.events, live |-> r.live, answer |-> NoAnswer] BY <1>6 DEF Begin
  <2>4. active' \in Judgement BY <1>2, <2>3
  <2> QED BY <2>1, <2>2, <2>4
<1>7. ASSUME NEW i \in Indices, NEW outcome \in Outcomes, active # None, Named(i, outcome),
             receipts' \in Receipts
      PROVE  Requests'
  <2>1. UNCHANGED <<outbox, wire, before>> BY <1>7 DEF Named, stationVars
  <2>2. active' = [active EXCEPT !.todo = @ \ {i},
                               !.answer = IF active.live THEN [@ EXCEPT ![i] = outcome] ELSE @]
    BY <1>7 DEF Named
  <2>3. active \in Judgement BY <1>7
  <2>4. [active.answer EXCEPT ![i] = outcome] \in [Indices -> Outcomes \cup {None}] BY <2>3
  <2>5. active' \in Judgement BY <2>2, <2>3, <2>4
  <2> QED BY <1>7, <2>1, <2>5
<1>8. ASSUME NEW i \in Indices, Duplicate(i) \/ Refuse(i) \/ Accept(i) \/ Reject(i) PROVE Requests'
  <2>1. active # None BY <1>8 DEF Duplicate, Refuse, Accept, Reject, Judging
  <2>2. receipts' \in Receipts
    BY <1>8 DEF Duplicate, Refuse, Accept, Reject, Receipts
  <2>3. \E outcome \in Outcomes : Named(i, outcome)
    BY <1>8 DEF Duplicate, Refuse, Accept, Reject, Outcomes
  <2> QED BY <1>7, <2>1, <2>2, <2>3
<1>9. CASE Answer
  BY <1>9 DEF Answer
<1>10. CASE Fail
  BY <1>10 DEF Fail, stationVars
<1>11. CASE ToggleGate \/ UNCHANGED syncVars
  BY <1>11 DEF ToggleGate, syncVars, stationVars
<1>12. CASE Enter
  BY <1>3, <1>12, EnterFollows
<1> QED BY <1>4, <1>5, <1>6, <1>8, <1>9, <1>10, <1>11, <1>12 DEF SyncNext, Judge
-----------------------------------------------------------------------------
(* The Central follows *)

LEMMA OutboxIndices ==
  ASSUME History
  PROVE  /\ Len(outbox) \in Nat /\ MaxEvents \in Nat
         /\ DOMAIN outbox = 1..Len(outbox) /\ DOMAIN status = 1..Len(outbox)
         /\ 1..Len(outbox) \subseteq Indices /\ Indices \subseteq Nat \ {0}
BY SyncAssumption DEF History, IsSequence, Indices

\* A request holds the front of what is pending, so what it leaves out in front
\* of an event is not pending.
LEMMA BatchInOrder ==
  ASSUME History, Requests, CentralFollows
  PROVE  InOrder(NextBatch, Committed)
<1> SUFFICES ASSUME NEW i \in NextBatch, NEW j \in 1..(i - 1), j \notin NextBatch
             PROVE  Committed[j] # None
  BY DEF InOrder
<1>1. /\ i \in 1..Len(outbox) /\ j \in 1..Len(outbox) /\ j < i
      /\ Pending \subseteq 1..Len(outbox) /\ Len(outbox) \in Nat
  BY OutboxIndices DEF NextBatch, Pending
<1>2. CASE j \in Pending
  <2> DEFINE I == {k \in Pending : k <= i}
             J == {k \in Pending : k <= j}
  <2>1. IsFiniteSet(1..Len(outbox))
    <3>1. 1 \in Int /\ Len(outbox) \in Int BY <1>1
    <3> QED BY <3>1, FS_Interval, Zenon
  <2>2. I \subseteq 1..Len(outbox) /\ J \subseteq I
    <3>1. \A k \in Pending : k \in 1..Len(outbox) BY <1>1
    <3>2. \A k \in Pending : k <= j => k <= i BY <1>1, <3>1
    <3> QED BY <3>1, <3>2
  <2>3. IsFiniteSet(I) BY <2>1, <2>2, FS_Subset
  <2>4. Cardinality(J) <= Cardinality(I) /\ Cardinality(I) \in Nat /\ Cardinality(J) \in Nat
    BY <2>2, <2>3, FS_Subset, FS_CardinalityType
  <2>5. Cardinality(I) <= MaxBatch BY DEF NextBatch
  <2>6. ~(Cardinality(J) <= MaxBatch) BY <1>2 DEF NextBatch
  <2> QED BY <2>4, <2>5, <2>6, SyncAssumption
<1>3. CASE j \notin Pending
  <2>1. status[j] # "PENDING" BY <1>1, <1>3, OutboxIndices DEF Pending
  <2> QED BY <1>1, <2>1 DEF CentralFollows
<1> QED BY <1>2, <1>3

\* What the station records later does not change what a Central has.
LEMMA FrontStays ==
  ASSUME History, NEW event, Record(event), NEW n \in 0..Len(outbox)
  PROVE  n \in 0..Len(outbox') /\ past'[n + 1] = past[n + 1]
<1>1. outbox' = Append(outbox, event) /\ past' = Append(past, Scope') BY DEF Record
<1>2. Len(outbox') = Len(outbox) + 1 /\ Len(outbox) \in Nat /\ Len(past) = Len(outbox) + 1
  BY <1>1, Appended, OutboxIndices DEF History
<1>3. past'[n + 1] = past[n + 1] BY <1>1, <1>2, Appended DEF History
<1> QED BY <1>2, <1>3

\* The loop goes on after an event that is on record, or that was refused while
\* the gate is closed.
LEMMA NamedKeeps ==
  ASSUME History, Requests, CentralFollows, Requests',
         NEW i \in Indices, NEW outcome \in Outcomes, Judging(i), Named(i, outcome),
         \A j \in Indices : receipts[j] # None => receipts'[j] # None,
         gateOpen \/ outcome \in OnRecord => receipts'[i] # None,
         Front(receipts, CentralScope)'
  PROVE  CentralFollows'
<1> USE DEF CentralFollows, Requests
<1>1. UNCHANGED <<outbox, status, past, wire, gateOpen, before>> BY DEF Named, stationVars
<1>2. active # None BY DEF Judging
<1>3. active.todo \subseteq 1..Len(outbox) /\ 1..Len(outbox) \subseteq Indices /\ Indices \subseteq Nat
  BY <1>2, OutboxIndices
<1>4. /\ active'.todo = active.todo \ {i}
      /\ \A j \in Indices : active'.answer[j] \in {active.answer[j], IF j = i THEN outcome ELSE active.answer[j]}
  BY <1>2 DEF Named
<1>5. \A j \in Indices : Committed[j] # None => Committed'[j] # None
  BY <1>1, <1>2 DEF Committed
<1>6. \A j \in 1..Len(outbox) : status'[j] # "PENDING" => Committed'[j] # None
  BY <1>1, <1>3, <1>5
<1>7. \A r \in wire : InOrder(r.events, Committed')
  <2> SUFFICES ASSUME NEW r \in wire, NEW j \in r.events, NEW k \in 1..(j - 1), k \notin r.events
               PROVE  Committed'[k] # None
    BY DEF InOrder
  <2>1. j \in 1..Len(outbox) /\ Len(outbox) \in Nat BY OutboxIndices
  <2>2. k \in Indices BY <1>3, <2>1
  <2>3. Committed[k] # None BY DEF InOrder
  <2> QED BY <1>5, <2>2, <2>3
<1>8. gateOpen => InOrder(active'.todo, receipts')
  <2> SUFFICES ASSUME gateOpen, NEW j \in active'.todo, NEW k \in 1..(j - 1), k \notin active'.todo
               PROVE  receipts'[k] # None
    BY DEF InOrder
  <2>1. j \in active.todo /\ j \in 1..Len(outbox) /\ Len(outbox) \in Nat
    BY <1>2, <1>4, OutboxIndices
  <2>2. k \in Indices BY <1>3, <2>1
  <2>3. k = i \/ receipts[k] # None BY <1>2, <1>4, <2>1 DEF InOrder
  <2> QED BY <2>2, <2>3
<1>9. \A j \in Indices : active'.answer[j] \in OnRecord => receipts'[j] # None
  BY <1>2, <1>4
<1>10. Front(before.receipts, SavedScope)'
  BY <1>1, <1>2 DEF Front, SavedScope, ScopeOf
<1>11. \A j \in Indices : before'.receipts[j] # None => receipts'[j] # None
  BY <1>1, <1>2
<1> QED BY <1>1, <1>6, <1>7, <1>8, <1>9, <1>10, <1>11
\* The event that comes while the gate is open is the one after those on record,
\* and the Central's scope is the one it was entered in.
LEMMA NextInLine ==
  ASSUME History, Requests, CentralFollows,
         NEW i \in Indices, Judging(i), gateOpen, receipts[i] = None
  PROVE  /\ \A j \in Indices : receipts[j] = IF j < i THEN "ACCEPTED" ELSE None
         /\ i \in 1..Len(outbox)
         /\ CentralScope = past[i]
         /\ Follows(paper, outbox[i], CentralScope, past[i + 1])
<1>1. PICK n \in 0..Len(outbox) :
        /\ \A j \in Indices : receipts[j] = IF j <= n THEN "ACCEPTED" ELSE None
        /\ CentralScope = past[n + 1]
  BY DEF CentralFollows, Front
<1>2. /\ active # None /\ i \in active.todo /\ i \in 1..Len(outbox)
      /\ \A j \in active.todo : i <= j
  BY DEF Judging, Requests
<1>3. Len(outbox) \in Nat /\ 1..Len(outbox) \subseteq Indices /\ Indices \subseteq Nat
  BY OutboxIndices
<1>4. \A j \in 1..(i - 1) : receipts[j] # None
  BY <1>2, <1>3 DEF CentralFollows, InOrder
<1>5. None # "ACCEPTED" BY SyncAssumption
<1>6. i = n + 1
  <2>1. i > n BY <1>1, <1>3, <1>5
  <2>2. ASSUME i > n + 1 PROVE FALSE
    <3>1. n + 1 \in 1..(i - 1) /\ n + 1 \in Indices BY <1>2, <1>3, <2>2
    <3>2. receipts[n + 1] = None BY <1>1, <3>1
    <3> QED BY <1>4, <3>1, <3>2
  <2> QED BY <1>3, <2>1, <2>2
<1>7. CentralScope = past[i] BY <1>1, <1>6
<1>8. \A j \in Indices : receipts[j] = IF j < i THEN "ACCEPTED" ELSE None
  BY <1>1, <1>3, <1>6
<1> QED BY <1>2, <1>7, <1>8 DEF History

\* What is accepted takes the Central one event further.
LEMMA AcceptFollows ==
  ASSUME History, Requests, CentralFollows, Requests', NEW i \in Indices, Accept(i)
  PROVE  CentralFollows'
<1>1. Judging(i) /\ receipts[i] = None /\ gateOpen /\ Apply(outbox[i]) /\ Named(i, "accepted")
  BY DEF Accept
<1>2. receipts' = [receipts EXCEPT ![i] = "ACCEPTED"] BY DEF Accept
<1>3. /\ \A j \in Indices : receipts[j] = IF j < i THEN "ACCEPTED" ELSE None
      /\ i \in 1..Len(outbox)
      /\ Follows(paper, outbox[i], CentralScope, past[i + 1])
  BY <1>1, NextInLine
<1>4. paper # None BY ModeAssumption DEF History
<1>5. CentralScope' = past[i + 1] BY <1>1, <1>3, <1>4, CentralTakes
<1>6. UNCHANGED <<outbox, past>> BY <1>1 DEF Named, stationVars
<1>7. None # "ACCEPTED" /\ Indices \subseteq Nat BY SyncAssumption, OutboxIndices
<1>8. \A j \in Indices : receipts'[j] = IF j <= i THEN "ACCEPTED" ELSE None
  BY <1>2, <1>3, <1>7 DEF Requests, Receipts
<1>9. Front(receipts, CentralScope)'
  <2>1. i \in 0..Len(outbox') BY <1>3, <1>6
  <2> QED BY <1>5, <1>6, <1>8, <2>1 DEF Front
<1>10. \A j \in Indices : receipts[j] # None => receipts'[j] # None
  BY <1>2, <1>7 DEF Requests, Receipts
<1>11. receipts'[i] # None BY <1>7, <1>8
<1>12. "accepted" \in Outcomes BY DEF Outcomes
<1> QED BY <1>1, <1>9, <1>10, <1>11, <1>12, NamedKeeps

\* An event whose turn it is cannot be rejected.
LEMMA NoRejection ==
  ASSUME History, Requests, CentralFollows, NEW i \in Indices, Reject(i)
  PROVE  FALSE
<1>1. Judging(i) /\ receipts[i] = None /\ gateOpen /\ Rejection(outbox[i]) BY DEF Reject
<1>2. Follows(paper, outbox[i], CentralScope, past[i + 1]) BY <1>1, NextInLine
<1>3. paper # None BY ModeAssumption DEF History
<1> QED BY <1>1, <1>2, <1>3, CentralTakes

\* Between two requests, and when one begins, ends or fails.
LEMMA CommittedStays ==
  ASSUME History, Requests, CentralFollows, UNCHANGED <<outbox, past, gateOpen>>,
         \A r \in wire' : \E q \in wire : r.events = q.events,
         \A j \in Indices : Committed[j] # None => Committed'[j] # None,
         \A j \in 1..Len(outbox) : status'[j] # "PENDING" => Committed'[j] # None
  PROVE  /\ \A j \in 1..Len(outbox') : status'[j] # "PENDING" => Committed'[j] # None
         /\ \A r \in wire' : InOrder(r.events, Committed')
<1> SUFFICES ASSUME NEW r \in wire', NEW j \in r.events, NEW k \in 1..(j - 1), k \notin r.events
             PROVE  Committed'[k] # None
  BY DEF InOrder
<1>1. PICK q \in wire : r.events = q.events OBVIOUS
<1>2. j \in 1..Len(outbox) /\ Len(outbox) \in Nat /\ 1..Len(outbox) \subseteq Indices
  BY <1>1, OutboxIndices DEF Requests
<1>3. k \in Indices BY <1>2
<1>4. Committed[k] # None BY <1>1 DEF CentralFollows, InOrder
<1> QED BY <1>3, <1>4
LEMMA TornStays == [SyncNext]_syncVars /\ torn => torn'
  BY DEF SyncNext, Enter, Record, Send, Timeout, Begin, Judge, Duplicate, Refuse, Accept, Reject,
     Named, Answer, Fail, ToggleGate, syncVars

LEMMA FollowInvInit == SyncInit => FollowInv
<1> SUFFICES ASSUME SyncInit PROVE FollowInv
  OBVIOUS
<1>1. outbox = <<>> /\ status = <<>> /\ past = <<Scope>> /\ Len(outbox) = 0 /\ Len(past) = 1
  BY DEF SyncInit
<1>2. History
  <2>1. IsSequence(outbox) /\ IsSequence(status) /\ IsSequence(past) BY <1>1 DEF IsSequence
  <2> QED BY <1>1, <2>1, SyncAssumption DEF History, SyncInit
<1>3. Requests BY DEF SyncInit, Requests, Receipts
<1>4. Front(receipts, CentralScope)
  <2>1. CentralScope = past[1] BY <1>1 DEF SyncInit, CentralScope, Scope
  <2>2. \A i \in Indices : ~(i <= 0) BY SyncAssumption DEF Indices
  <2> QED BY <1>1, <2>1, <2>2 DEF Front, SyncInit
<1>5. CentralFollows BY <1>1, <1>4 DEF CentralFollows, SyncInit
<1> QED BY <1>2, <1>3, <1>5 DEF FollowInv

\* What the station does, and the world around both.
LEMMA StationKeeps ==
  ASSUME History, Requests, CentralFollows, Requests', ~torn',
         Enter \/ Send \/ Timeout \/ ToggleGate \/ UNCHANGED syncVars
  PROVE  CentralFollows'
<1> USE DEF CentralFollows
<1>1. ASSUME NEW event, Record(event) PROVE CentralFollows'
  <2>1. /\ outbox' = Append(outbox, event) /\ status' = Append(status, "PENDING")
        /\ UNCHANGED <<wire, tableVars, receipts, gateOpen, active, before>>
    BY <1>1 DEF Record
  <2>2. /\ Len(outbox') = Len(outbox) + 1 /\ Len(status) = Len(outbox) /\ Len(outbox) \in Nat
        /\ status'[Len(outbox) + 1] = "PENDING"
        /\ \A i \in 1..Len(outbox) : status'[i] = status[i]
    BY <2>1, Appended, OutboxIndices DEF History
  <2>3. UNCHANGED <<CentralScope, SavedScope, Committed>>
    BY <2>1 DEF tableVars, CentralScope, SavedScope, Committed, ScopeOf
  <2>4. Front(receipts, CentralScope)' BY <1>1, <2>1, <2>3, FrontStays DEF Front
  <2>5. active # None => Front(before.receipts, SavedScope)'
    BY <1>1, <2>1, <2>3, FrontStays DEF Front
  <2>6. \A i \in 1..Len(outbox') : status'[i] # "PENDING" => Committed'[i] # None
    BY <2>2, <2>3
  <2> QED BY <2>1, <2>3, <2>4, <2>5, <2>6 DEF InOrder
<1>2. CASE Enter BY <1>1, <1>2, EnterFollows
<1>3. CASE Send
  <2>1. /\ wire' = wire \cup {[events |-> NextBatch, live |-> TRUE]}
        /\ UNCHANGED <<outbox, status, past, tableVars, receipts, gateOpen, active, before>>
    BY <1>3 DEF Send, stationVars
  <2>2. UNCHANGED <<CentralScope, SavedScope, Committed>>
    BY <2>1 DEF tableVars, CentralScope, SavedScope, Committed, ScopeOf
  <2>3. \A r \in wire' : InOrder(r.events, Committed) BY <2>1, BatchInOrder
  <2> QED BY <2>1, <2>2, <2>3 DEF Front, InOrder
<1>4. CASE Timeout
  <2>1. /\ UNCHANGED <<outbox, status, past, tableVars, receipts, gateOpen, before>>
        /\ wire' = {[r EXCEPT !.live = FALSE] : r \in wire}
        /\ active' = IF active = None THEN None
                     ELSE [active EXCEPT !.live = FALSE, !.answer = NoAnswer]
    BY <1>4 DEF Timeout, stationVars
  <2>2. UNCHANGED <<CentralScope, SavedScope>>
    BY <2>1 DEF tableVars, CentralScope, SavedScope, ScopeOf
  <2>3. \A r \in wire' : \E q \in wire : r.events = q.events BY <2>1 DEF Requests
  <2>4. \A j \in Indices : Committed[j] # None => Committed'[j] # None
    BY <2>1 DEF Committed
  <2>5. \A j \in 1..Len(outbox) : status'[j] # "PENDING" => Committed'[j] # None
    BY <2>1, <2>4, OutboxIndices
  <2>6. /\ \A j \in 1..Len(outbox') : status'[j] # "PENDING" => Committed'[j] # None
        /\ \A r \in wire' : InOrder(r.events, Committed')
    BY <2>1, <2>3, <2>4, <2>5, CommittedStays
  <2>7. active' # None => /\ active # None /\ active'.todo = active.todo
                          /\ active'.answer = NoAnswer
    BY <2>1 DEF Requests
  <2>8. \A i \in Indices : NoAnswer[i] \notin OnRecord BY SyncAssumption DEF NoAnswer, OnRecord, Outcomes
  <2> QED BY <2>1, <2>2, <2>6, <2>7, <2>8 DEF Front, InOrder
<1>5. CASE ToggleGate
  <2>1. /\ UNCHANGED <<outbox, status, past, wire, tableVars, receipts, active, before>>
        /\ gateOpen' = ~gateOpen /\ ~(active # None /\ ~gateOpen)
    BY <1>5 DEF ToggleGate, stationVars
  <2>2. UNCHANGED <<CentralScope, SavedScope, Committed>>
    BY <2>1 DEF tableVars, CentralScope, SavedScope, Committed, ScopeOf
  <2>3. active # None => ~gateOpen' BY <2>1
  <2> QED BY <2>1, <2>2, <2>3 DEF Front, InOrder
<1>6. CASE UNCHANGED syncVars
  <2>1. UNCHANGED <<outbox, status, past, wire, tableVars, receipts, active, before, gateOpen>>
    BY <1>6 DEF syncVars, stationVars
  <2>2. UNCHANGED <<CentralScope, SavedScope, Committed>>
    BY <2>1 DEF tableVars, CentralScope, SavedScope, Committed, ScopeOf
  <2> QED BY <2>1, <2>2 DEF Front, InOrder
<1> QED BY <1>2, <1>3, <1>4, <1>5, <1>6
\* A request enters the engine; what a rollback restores is what is there.
LEMMA BeginKeeps ==
  ASSUME History, Requests, CentralFollows, Requests', NEW r \in wire, Begin(r)
  PROVE  CentralFollows'
<1>1. /\ UNCHANGED <<outbox, status, past, tableVars, receipts, gateOpen>>
      /\ active = None /\ wire' = wire \ {r} /\ before' = Tables
      /\ active' = [todo |-> r.events, live |-> r.live, answer |-> NoAnswer]
  BY DEF Begin, stationVars
<1>2. UNCHANGED CentralScope BY <1>1 DEF tableVars, CentralScope
<1>3. before'.receipts = receipts /\ SavedScope' = CentralScope
  BY <1>1 DEF Tables, SavedScope, CentralScope, ScopeOf
<1>4. Committed = receipts /\ Committed' = receipts BY <1>1, <1>3 DEF Committed
<1>5. InOrder(r.events, receipts) BY <1>4 DEF CentralFollows
<1>6. \A i \in Indices : NoAnswer[i] \notin OnRecord BY SyncAssumption DEF NoAnswer, OnRecord, Outcomes
<1>7. active'.todo = r.events /\ active'.answer = NoAnswer BY <1>1
<1> QED BY <1>1, <1>2, <1>3, <1>4, <1>5, <1>6, <1>7 DEF CentralFollows, Front, InOrder

\* One event is judged, whichever way.
LEMMA JudgeKeeps ==
  ASSUME History, Requests, CentralFollows, Requests',
         NEW i \in Indices, Duplicate(i) \/ Refuse(i) \/ Accept(i) \/ Reject(i)
  PROVE  CentralFollows'
<1>1. CASE Duplicate(i)
  <2>1. /\ Judging(i) /\ Named(i, "duplicate") /\ receipts[i] # None
        /\ UNCHANGED <<tableVars, receipts>>
    BY <1>1 DEF Duplicate
  <2>2. UNCHANGED <<outbox, past>> BY <2>1 DEF Named, stationVars
  <2>3. Front(receipts, CentralScope)'
    BY <2>1, <2>2 DEF tableVars, CentralScope, CentralFollows, Front
  <2>4. "duplicate" \in Outcomes BY DEF Outcomes
  <2> QED BY <2>1, <2>3, <2>4, NamedKeeps
<1>2. CASE Refuse(i)
  <2>1. /\ Judging(i) /\ Named(i, "refused") /\ ~gateOpen
        /\ UNCHANGED <<tableVars, receipts>>
    BY <1>2 DEF Refuse
  <2>2. UNCHANGED <<outbox, past>> BY <2>1 DEF Named, stationVars
  <2>3. Front(receipts, CentralScope)'
    BY <2>1, <2>2 DEF tableVars, CentralScope, CentralFollows, Front
  <2>4. "refused" \in Outcomes /\ "refused" \notin OnRecord BY DEF Outcomes, OnRecord
  <2> QED BY <2>1, <2>3, <2>4, NamedKeeps
<1>3. CASE Accept(i) BY <1>3, AcceptFollows
<1>4. CASE Reject(i) BY <1>4, NoRejection
<1> QED BY <1>1, <1>2, <1>3, <1>4

\* The batch commits: the station learns of judgements that are there to stay.
LEMMA AnswerKeeps ==
  ASSUME History, Requests, CentralFollows, Requests', Answer
  PROVE  CentralFollows'
<1>1. /\ UNCHANGED <<outbox, past, wire, tableVars, receipts, gateOpen>>
      /\ active # None /\ active' = None
  BY DEF Answer
<1>2. UNCHANGED CentralScope BY <1>1 DEF tableVars, CentralScope
<1>3. Committed = before.receipts /\ Committed' = receipts BY <1>1 DEF Committed
<1>4. \A i \in Indices : Committed[i] # None => Committed'[i] # None
  BY <1>1, <1>3 DEF CentralFollows
<1>5. ASSUME NEW i \in 1..Len(outbox), status'[i] # "PENDING" PROVE Committed'[i] # None
  <2>1. i \in Indices /\ i \in DOMAIN status BY OutboxIndices
  <2>2. CASE status'[i] = status[i] BY <1>4, <1>5, <2>1, <2>2 DEF CentralFollows
  <2>3. CASE status'[i] # status[i]
    <3>1. active.answer[i] # None /\ status'[i] = Reconciled(active.answer[i])
      BY <2>1, <2>3 DEF Answer
    <3>2. active.answer[i] \in Outcomes BY <1>1, <2>1, <3>1 DEF Requests
    <3>3. active.answer[i] \in OnRecord BY <1>5, <3>1, <3>2 DEF Outcomes, OnRecord, Reconciled
    <3> QED BY <1>1, <1>3, <2>1, <3>3 DEF CentralFollows
  <2> QED BY <2>2, <2>3
<1>6. /\ \A j \in 1..Len(outbox') : status'[j] # "PENDING" => Committed'[j] # None
      /\ \A r \in wire' : InOrder(r.events, Committed')
  BY <1>1, <1>4, <1>5, CommittedStays
<1> QED BY <1>1, <1>2, <1>6 DEF CentralFollows, Front

\* The batch fails: the Central is back at an earlier front.
LEMMA FailKeeps ==
  ASSUME History, Requests, CentralFollows, Requests', Fail
  PROVE  CentralFollows'
<1>1. /\ UNCHANGED <<outbox, status, past, wire, gateOpen>>
      /\ active # None /\ active' = None /\ receipts' = before.receipts
      /\ cAttendance' = before.attendance /\ cMarks' = before.marks
      /\ cIncidents' = before.incidents /\ cFinalized' = before.finalized
  BY DEF Fail, stationVars
<1>2. CentralScope' = SavedScope BY <1>1 DEF CentralScope, SavedScope, ScopeOf
<1>3. Committed' = Committed BY <1>1 DEF Committed
<1> QED BY <1>1, <1>2, <1>3 DEF CentralFollows, Front, InOrder

LEMMA FollowInvStep == FollowInv /\ [SyncNext]_syncVars => FollowInv'
<1> SUFFICES ASSUME FollowInv, [SyncNext]_syncVars PROVE FollowInv'
  OBVIOUS
<1>1. History /\ Requests /\ History' /\ Requests'
  BY HistoryStep, RequestsStep DEF FollowInv
<1>2. ASSUME ~torn' PROVE CentralFollows'
  <2>1. CentralFollows BY <1>2, TornStays DEF FollowInv
  <2> QED
    BY <1>1, <1>2, <2>1, StationKeeps, BeginKeeps, JudgeKeeps, AnswerKeeps, FailKeeps
       DEF SyncNext, Judge
<1> QED BY <1>1, <1>2 DEF FollowInv

LEMMA FollowInvHolds == SyncSpec => []FollowInv
BY FollowInvInit, FollowInvStep, PTL DEF SyncSpec

\* "Central and Station both call them" (marks.py): unless the exam is reopened
\* in the middle of a batch, a Central rejects nothing its station could store,
\* for any scope, batch size, number of events and failures.
THEOREM SharedRulesAgree == SyncSpec => []NothingTypedIsRejected
<1>1. FollowInv => NothingTypedIsRejected
  <2> SUFFICES ASSUME FollowInv, ~torn, NEW i \in Indices PROVE receipts[i] # "REJECTED"
    BY DEF NothingTypedIsRejected
  <2>1. Front(receipts, CentralScope) BY DEF FollowInv, CentralFollows
  <2>2. receipts[i] \in {"ACCEPTED", None} BY <2>1 DEF Front
  <2> QED BY <2>2, SyncAssumption
<1> QED BY <1>1, FollowInvHolds, PTL

\* Under the same condition the Central always has the effect of the first so
\* many events of the outbox and of no other, before and after every rollback.
THEOREM CentralTrails == SyncSpec => []CentralIsThePast
<1>1. FollowInv => CentralIsThePast
  <2> SUFFICES ASSUME FollowInv, ~torn
               PROVE  \E n \in 0..Len(outbox) : Judged = 1..n /\ CentralScope = past[n + 1]
    BY DEF CentralIsThePast
  <2>1. PICK n \in 0..Len(outbox) :
          /\ \A i \in Indices : receipts[i] = IF i <= n THEN "ACCEPTED" ELSE None
          /\ CentralScope = past[n + 1]
    BY DEF FollowInv, CentralFollows, Front
  <2>2. /\ 1..Len(outbox) \subseteq Indices /\ Indices \subseteq Nat \ {0}
        /\ Len(outbox) \in Nat /\ None # "ACCEPTED"
    BY OutboxIndices, SyncAssumption DEF FollowInv
  <2>3. Judged = 1..n
    <3>1. \A i \in Indices : i \in Judged <=> i <= n BY <2>1, <2>2 DEF Judged
    <3>2. 1..n \subseteq Indices /\ Judged \subseteq Indices BY <2>1, <2>2 DEF Judged
    <3>3. \A i \in Indices : i \in 1..n <=> i <= n BY <2>1, <2>2
    <3> QED BY <3>1, <3>2, <3>3
  <2> QED BY <2>1, <2>3
<1> QED BY <1>1, FollowInvHolds, PTL
=============================================================================
