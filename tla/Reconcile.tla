------------------------------ MODULE Reconcile ------------------------------
(***************************************************************************)
(* reconcile.py over hashing.py: the records of a scope, their digest and  *)
(* counts, and the comparison of two digests.  Pure, like the code.        *)
(*                                                                         *)
(* A number is what Decimal(str(value)) makes of it: a sign, which 0 has   *)
(* too, a coefficient, and how many of its digits are decimals.  The       *)
(* canonical JSON of records differs whenever they do, their numbers being *)
(* text by then, and SHA-256 is taken to be injective.                     *)
(***************************************************************************)
EXTENDS Integers, FiniteSets, FiniteSetsExt, Functions, Sequences

CONSTANT None     \* no mark

Number(neg, coefficient, scale) == [neg |-> neg, coefficient |-> coefficient, scale |-> scale]

\* The powers that a number of decimals stands for.
PowerOfTen[k \in Nat] == IF k = 0 THEN 1 ELSE 10 * PowerOfTen[k - 1]

\* Mistake: the text of the value as it is.
NumStrAsIs(n) == n

\* Without trailing decimals that are 0; the sign stays.
NumStr(n) ==
  LET shortest == Min({k \in 0..n.scale : n.coefficient % PowerOfTen[n.scale - k] = 0})
  IN Number(n.neg, n.coefficient \div PowerOfTen[n.scale - shortest], shortest)

NormalizeTotalRecord(student, present, total) ==
  [student_id |-> student, present |-> present, mode |-> "TOTAL_MARKS",
   total |-> IF total = None THEN None ELSE NumStr(total)]

\* items maps question numbers to numbers.
NormalizeItemRecord(student, present, items) ==
  [student_id |-> student, present |-> present, mode |-> "ITEM_LEVEL",
   items |-> [q \in DOMAIN items |-> NumStr(items[q])]]

\* Mistake: the records as they were listed.
ScopeDigestAsListed(records) == records

\* A stable sort by student: place n is for the record with n - 1 ahead of it.
ScopeDigest(records) ==
  LET Student(i) == records[i].student_id
      ahead == [i \in DOMAIN records |->
                  {j \in DOMAIN records :
                     Student(j) < Student(i) \/ (Student(j) = Student(i) /\ j < i)}]
  IN [n \in DOMAIN records |->
        records[CHOOSE i \in DOMAIN records : Cardinality(ahead[i]) = n - 1]]

\* Mistake: a record of items counts, with or without any.
HasMarksByKey(record) ==
  IF record.mode = "TOTAL_MARKS" THEN record.total # None ELSE "items" \in DOMAIN record

HasMarks(record) ==
  IF record.mode = "TOTAL_MARKS" THEN record.total # None ELSE DOMAIN record.items # {}

CountsFromRecords(records) ==
  [present    |-> Cardinality({i \in DOMAIN records : records[i].present}),
   absent     |-> Cardinality({i \in DOMAIN records : ~records[i].present}),
   with_marks |-> Cardinality({i \in DOMAIN records : HasMarks(records[i])})]

\* Mistake: scopes with equal counts match.
ReconcileCounts(local, central) ==
  IF CountsFromRecords(local) = CountsFromRecords(central) THEN "MATCHED" ELSE "MISMATCHED"

ReconcileDigests(local, central) == IF local = central THEN "MATCHED" ELSE "MISMATCHED"
=============================================================================
