------------------------- MODULE MCCollectionUpload --------------------------
EXTENDS CollectionUpload

School(c)        == [centre_number |-> c]
Subject(k)       == [subject_code |-> k]
Student(c, n)    == [centre_number |-> c, student_id |-> n]
Mark(c, n, k, m) == [centre_number |-> c, student_id |-> n, subject_code |-> k, theory_marks |-> m]

\* Two schools with a candidate each, eight rows: two full chunks of four.  Then a
\* mark corrected; then a third school with its candidate, which moves rows over
\* the boundaries and adds a chunk that is not full.
AsCollected ==
  [schools  |-> {School(1), School(2)},
   subjects |-> {Subject(1), Subject(2)},
   students |-> {Student(1, 1), Student(2, 1)},
   marks    |-> {Mark(1, 1, 1, 5), Mark(2, 1, 1, 0)},
   closeout_revision |-> 1]

Corrected == [AsCollected EXCEPT !.marks = {Mark(1, 1, 1, 6), Mark(2, 1, 1, 0)}]

Enlarged ==
  [Corrected EXCEPT !.schools = @ \cup {School(3)}, !.students = @ \cup {Student(3, 1)},
                    !.closeout_revision = 2]

Enlargement == <<AsCollected, Enlarged>>
AllVersions == <<AsCollected, Corrected, Enlarged>>
=============================================================================
