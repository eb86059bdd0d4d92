--------------------------- MODULE ScopeReconcile ----------------------------
(***************************************************************************)
(* One scope in the hands of a station and of its Central, which find out  *)
(* by digests whether they hold the same marks, and the snapshot by which  *)
(* the station gets those of Central (schemas/station_sync.py).  Both keep *)
(* numbers as they please: the station as they were typed or came in JSON, *)
(* Central in a column of fixed scale.                                     *)
(*                                                                         *)
(* External: both databases and everything that writes to them.  An entry  *)
(* reaches Central by the intake, here in one step.  A SnapshotRow has no  *)
(* field for items, so that snapshots are of use for marks by total only.  *)
(* Versions of rows and the writer are left out: no rule of src reads them.*)
(***************************************************************************)
EXTENDS Reconcile

CONSTANTS
  Students,       \* positive codes
  Entries,        \* mode -> the rows that may be entered
  Scale,          \* the decimals of Central's column
  MaxChanges,     \* bound: entries and corrections
  MaxReinstalls   \* bound: times the station loses its data

ASSUME ReconcileAssumption ==
  /\ Students \subseteq Nat /\ IsFiniteSet(Students)
  /\ Scale \in Nat /\ MaxChanges \in Nat /\ MaxReinstalls \in Nat
  /\ None \notin [neg : BOOLEAN, coefficient : Nat, scale : Nat]

\* What fits Central's column.
Typed == [neg : BOOLEAN, coefficient : Nat, scale : 0..Scale]

\* A row has the attendance, and a mark or none, or a set of them by question.
ASSUME EntriesAssumption ==
  /\ DOMAIN Entries \subseteq {"TOTAL_MARKS", "ITEM_LEVEL"}
  /\ \A m \in DOMAIN Entries : \A row \in Entries[m] :
       /\ row = [present |-> row.present, marks |-> row.marks] /\ row.present \in BOOLEAN
       /\ m = "TOTAL_MARKS" => row.marks \in Typed \cup {None}
       /\ m = "ITEM_LEVEL" => row.marks # None /\ row.marks \in [DOMAIN row.marks -> Typed]

VARIABLES
  mode,           \* how the scope is filled
  station,        \* student -> row, of those with data
  pending,        \* students whose entry waits in the station's outbox
  central,        \* student -> row, of those with data
  asked,          \* the digest on its way to Central, with the rows it is of
  snapshot,       \* the snapshot on its way to the station
  verdict,        \* what the last comparison said
  changes,
  reinstalls

bounds == <<changes, reinstalls>>
vars == <<mode, station, pending, central, asked, snapshot, verdict, bounds>>

NoData == [s \in {} |-> None]

Init ==
  /\ mode \in DOMAIN Entries
  /\ station = NoData
  /\ pending = {}
  /\ central = NoData
  /\ asked = None
  /\ snapshot = None
  /\ verdict = None
  /\ changes = 0
  /\ reinstalls = 0

WithData(rows) == DOMAIN rows

\* The row of a student, instead of the one there was.
With(rows, s, row) == [t \in WithData(rows) \cup {s} |-> IF t = s THEN row ELSE rows[t]]

Record(s, row) ==
  IF mode = "TOTAL_MARKS" THEN NormalizeTotalRecord(s, row.present, row.marks)
  ELSE NormalizeItemRecord(s, row.present, row.marks)

\* The lists of records that a side may build of its rows, in the order it
\* happens to read them.
RecordLists(rows) ==
  {[i \in DOMAIN order |-> Record(order[i], rows[order[i]])] :
     order \in Bijection(1..Cardinality(WithData(rows)), WithData(rows))}

\* The digests that come of them.
Digests(rows) == {ScopeDigest(records) : records \in RecordLists(rows)}

-----------------------------------------------------------------------------
(* What changes the rows *)

\* NUMERIC with a scale, which has one 0.
Column(n) == Number(n.neg /\ n.coefficient # 0, n.coefficient * PowerOfTen[Scale - n.scale], Scale)

Stored(row) ==
  [row EXCEPT !.marks = IF mode = "ITEM_LEVEL" THEN [q \in DOMAIN @ |-> Column(@[q])]
                        ELSE IF @ = None THEN None ELSE Column(@)]

Enter(s, row) ==
  /\ changes < MaxChanges
  /\ changes' = changes + 1
  /\ station' = With(station, s, row)
  /\ pending' = pending \cup {s}
  /\ UNCHANGED <<mode, central, asked, snapshot, verdict, reinstalls>>

Sync(s) ==
  /\ s \in pending
  /\ pending' = pending \ {s}
  /\ central' = With(central, s, Stored(station[s]))
  /\ UNCHANGED <<mode, station, asked, snapshot, verdict, bounds>>

Correct(s, row) ==
  /\ changes < MaxChanges
  /\ changes' = changes + 1
  /\ central' = With(central, s, Stored(row))
  /\ UNCHANGED <<mode, station, pending, asked, snapshot, verdict, reinstalls>>

\* The machine is set up again and what it held is gone.
Reinstall ==
  /\ reinstalls < MaxReinstalls
  /\ reinstalls' = reinstalls + 1
  /\ station' = NoData
  /\ pending' = {}
  /\ asked' = None
  /\ snapshot' = None
  /\ UNCHANGED <<mode, central, verdict, changes>>

-----------------------------------------------------------------------------
(* Reconciliation: both sides hash what they hold when their turn comes *)

Ask ==
  /\ asked = None
  /\ \E digest \in Digests(station) : asked' = [digest |-> digest, rows |-> station]
  /\ UNCHANGED <<mode, station, pending, central, snapshot, verdict, bounds>>

\* Mistake: a digest that was asked for once is compared for ever.
CompareAgain ==
  /\ asked # None
  /\ \E digest \in Digests(central) : verdict' = ReconcileDigests(asked.digest, digest)
  /\ UNCHANGED <<mode, station, pending, central, asked, snapshot, bounds>>

Compare ==
  /\ asked # None
  /\ \E digest \in Digests(central) : verdict' = ReconcileDigests(asked.digest, digest)
  /\ asked' = None
  /\ UNCHANGED <<mode, station, pending, central, snapshot, bounds>>

-----------------------------------------------------------------------------
(* The snapshot *)

\* A float has at least one decimal when it is written, and no more than needed.
Float(n) ==
  LET shortest == NumStr(n)
  IN IF shortest.scale > 0 THEN shortest ELSE Number(n.neg, shortest.coefficient * 10, 1)

SnapshotRow(row) ==
  [is_present |-> row.present, total |-> IF row.marks = None THEN None ELSE Float(row.marks)]

TakeSnapshot ==
  /\ mode = "TOTAL_MARKS"
  /\ snapshot = None
  /\ \E digest \in Digests(central) :
       snapshot' = [central_digest |-> digest,
                    rows |-> [s \in WithData(central) |-> SnapshotRow(central[s])]]
  /\ UNCHANGED <<mode, station, pending, central, asked, verdict, bounds>>

\* Every row is taken over but where an entry of its own is still to be sent.
Restore ==
  /\ snapshot # None
  /\ station' = [s \in WithData(station) \cup DOMAIN snapshot.rows |->
       IF s \in DOMAIN snapshot.rows \ pending
       THEN [present |-> snapshot.rows[s].is_present, marks |-> snapshot.rows[s].total]
       ELSE station[s]]
  /\ snapshot' = None
  /\ UNCHANGED <<mode, pending, central, asked, verdict, bounds>>

Next ==
  \/ \E s \in Students, row \in Entries[mode] : Enter(s, row) \/ Correct(s, row)
  \/ \E s \in Students : Sync(s)
  \/ Reinstall \/ Ask \/ Compare \/ TakeSnapshot \/ Restore

\* The outbox empties, and the station asks and fetches again and again.  Nothing
\* is owed by people, nor by the machine breaking down.
Fairness ==
  /\ \A s \in Students : WF_vars(Sync(s))
  /\ WF_vars(Ask) /\ WF_vars(Compare) /\ WF_vars(TakeSnapshot) /\ WF_vars(Restore)

Spec == Init /\ [][Next]_vars /\ Fairness

-----------------------------------------------------------------------------

MinusZero(n) == n.neg /\ n.coefficient = 0

HasMinusZero(row) ==
  IF mode = "ITEM_LEVEL" THEN \E q \in DOMAIN row.marks : MinusZero(row.marks[q])
  ELSE row.marks # None /\ MinusZero(row.marks)

NoMinusZero(rows) == \A s \in WithData(rows) : ~HasMinusZero(rows[s])

SameNumber(m, n) ==
  /\ m.coefficient * PowerOfTen[n.scale] = n.coefficient * PowerOfTen[m.scale]
  /\ m.neg = n.neg \/ m.coefficient = 0

SameMarks(m, n) ==
  IF mode = "ITEM_LEVEL" THEN DOMAIN m = DOMAIN n /\ \A q \in DOMAIN m : SameNumber(m[q], n[q])
  ELSE IF m = None \/ n = None THEN m = n ELSE SameNumber(m, n)

\* Two sides hold data for the same students, the same attendance, and marks
\* that are equal as numbers.
SameScope(rows, others) ==
  /\ WithData(rows) = WithData(others)
  /\ \A s \in WithData(rows) :
       rows[s].present = others[s].present /\ SameMarks(rows[s].marks, others[s].marks)

\* A verdict is true of what the station held when it asked and what Central held
\* when it compared, whatever was entered, corrected or restored on either side in
\* between.  MATCHED: 0 is not confused with no mark, nor one student with another
\* (reconcile.py:3-6, station_sync.py:110).  MISMATCHED: "both sides always agree
\* byte-for-byte" (reconcile.py:5-6), so equal marks match in whatever
\* representation and order each side keeps them; except a mark entered as "-0",
\* whose sign _numstr keeps and a numeric column does not.
VerdictIsTrue ==
  [][Compare =>
       /\ verdict' = "MATCHED" => SameScope(asked.rows, central)
       /\ SameScope(asked.rows, central) /\ NoMinusZero(asked.rows) => verdict' = "MATCHED"]_vars

\* central_digest is "comparable, byte for byte, with the digest the station
\* computes over the same scope" (station_sync.py:130-131): a station that takes a
\* snapshot over, with no entry of its own to send, then computes that
\* digest, although totals travel as floats, unless it had rows Central has not.
RestoredMatches ==
  [][Restore /\ pending = {} /\ WithData(station) \subseteq DOMAIN snapshot.rows
     => Digests(station') = {snapshot.central_digest}]_vars

\* The counts of a scope split the students with data by attendance, and count
\* as marked those who have marks, 0 included and an empty item set not
\* (counts_from_records, "None means no mark recorded -- distinct from 0").
CountsAreOfMarks ==
  \A records \in RecordLists(station) :
    LET counts == CountsFromRecords(records)
        marked == {s \in WithData(station) : station[s].marks \notin {None, <<>>}}
    IN /\ counts.present = Cardinality({s \in WithData(station) : station[s].present})
       /\ counts.present + counts.absent = Cardinality(WithData(station))
       /\ counts.with_marks = Cardinality(marked)

\* The snapshot is how a station sees "a correction made centrally" and recovers
\* "after being reinstalled" (station_sync.py:66-68): once people leave a scope
\* marked by total alone, both sides hold the same and know it.
EventuallyMatched ==
  mode = "TOTAL_MARKS" => <>[](verdict = "MATCHED" /\ SameScope(station, central))
=============================================================================
