----------------------------- MODULE MarksRules ------------------------------
(***************************************************************************)
(* The shared rules of validation/: attendance.py, marks.py, scoring.py    *)
(* and scope.py.  Pure, like the code.  A ValidationError is a result with *)
(* the rejection code it carries, and the first one raised is the result.  *)
(*                                                                         *)
(* Marks are integers (the code has exact decimals), topic weights are in  *)
(* ten-thousandths.  What a client can put in a mark's place is a number,  *)
(* nothing (None), something as_decimal refuses (Junk), or Decimal's NaN,  *)
(* which as_decimal accepts and no comparison does.  Papers are real ones: *)
(* every function here refuses the ALL baseline as a paper.                *)
(***************************************************************************)
EXTENDS Integers, FiniteSets, FiniteSetsExt, Sequences

CONSTANTS
  None,           \* no value, no group, no total
  Junk,           \* a value that is not numeric
  NotANumber      \* Decimal("NaN")

OK == "OK"

\* The result of a submission: accepted with the paper's total (None for an
\* absent student), or rejected with a code.
Accepted(total) == [code |-> OK, total |-> total]
Rejected(code)  == [code |-> code, total |-> None]

RejectionCodes == {"ATTENDANCE_REQUIRED_FIRST", "BLANK_MARK_NOT_ALLOWED", "MARK_OUT_OF_RANGE",
                   "ABSENT_STUDENT_HAS_MARKS", "INCOMPLETE_QUESTION_SET", "DUPLICATE_QUESTION",
                   "TOPIC_WEIGHT_SUM_INVALID", "UNRESOLVED_INCIDENT"}

\* Comparing with NaN raises a decimal exception that is no ValidationError.
Surfaces == "InvalidOperation"

\* Checks that are made one after the other: the first failure counts.
FirstFailure(codes) ==
  LET failed == {i \in DOMAIN codes : codes[i] # OK}
  IN IF failed = {} THEN OK ELSE codes[Min(failed)]

SumOf(seq) ==
  LET sum[i \in 0..Len(seq)] == IF i = 0 THEN 0 ELSE sum[i - 1] + seq[i]
  IN sum[Len(seq)]

-----------------------------------------------------------------------------
(* attendance.py: rows are the paper's own transcription and the baseline  *)

Attendances == {"present", "absent"}

\* Mistake: the subject-wide baseline wins over the paper's own transcription.
BaselineFirst(rows) ==
  IF rows.all # None THEN rows.all ELSE IF rows.paper # None THEN rows.paper ELSE "present"

\* The paper's own transcription, else the baseline, else present.
EffectiveAttendance(rows) ==
  IF rows.paper # None THEN rows.paper ELSE IF rows.all # None THEN rows.all ELSE "present"

\* Mistake: the baseline counts as a transcription.
HasAnyTranscription(rows) == rows.paper # None \/ rows.all # None

HasSpecificTranscription(rows) == rows.paper # None

-----------------------------------------------------------------------------
(* scoring.py over config.py *)

\* A question of a group (None: compulsory), with the weights of its topics.
QuestionConfig(number, max, group, weights) ==
  [number |-> number, max |-> max, group |-> group, weights |-> weights]

\* The questions in order, and the groups as a function to their pick_count.
PaperConfig(mode, questions, groups, max) ==
  [mode |-> mode, questions |-> questions, groups |-> groups, max |-> max]

\* The weights of a question, if it has topics, sum to one up to a tolerance.
ValidateTopicWeights(q) ==
  IF q.weights = <<>> \/ SumOf(q.weights) \in 9999..10001 THEN OK ELSE "TOPIC_WEIGHT_SUM_INVALID"

Members(paper, code) == {i \in DOMAIN paper.questions : paper.questions[i].group = code}

\* The checks on the i-th question, and those on a group.
QuestionFault(paper, i) ==
  LET q == paper.questions[i]
  IN CASE \E j \in 1..(i - 1) : paper.questions[j].number = q.number -> "DUPLICATE_QUESTION"
       [] OTHER -> IF q.group # None /\ q.group \notin DOMAIN paper.groups
                   THEN "INCOMPLETE_QUESTION_SET" ELSE ValidateTopicWeights(q)

GroupFits(paper, code) == paper.groups[code] \in 1..Cardinality(Members(paper, code))

\* What may be saved as a paper's scoring configuration.
ValidatePaperConfig(paper) ==
  LET questions == FirstFailure([i \in DOMAIN paper.questions |-> QuestionFault(paper, i)])
  IN IF questions # OK THEN questions
     ELSE IF \A code \in DOMAIN paper.groups : GroupFits(paper, code) THEN OK
     ELSE "INCOMPLETE_QUESTION_SET"

QuestionNumbers(paper) == {paper.questions[i].number : i \in DOMAIN paper.questions}

\* The score of the i-th question; a missing one counts as 0.
Score(paper, items, i) ==
  LET number == paper.questions[i].number
  IN IF number \in DOMAIN items THEN items[number] ELSE 0

\* Mistake: the answers that come first count instead of the best ones.
AheadByPlace(paper, items, i) == {j \in Members(paper, paper.questions[i].group) : j < i}

\* What stands before the i-th question when the scores of its group are sorted,
\* the highest first and equal ones in the order of the questions.
Ahead(paper, items, i) ==
  {j \in Members(paper, paper.questions[i].group) :
     \/ Score(paper, items, j) > Score(paper, items, i)
     \/ Score(paper, items, j) = Score(paper, items, i) /\ j < i}

\* The questions with the pick_count highest scores of a group.
Best(paper, items, code) ==
  {i \in Members(paper, code) : Cardinality(Ahead(paper, items, i)) < paper.groups[code]}

\* The sum of the scores of these questions.
Marked(paper, items, chosen) ==
  SumOf([i \in DOMAIN paper.questions |-> IF i \in chosen THEN Score(paper, items, i) ELSE 0])

\* All compulsory questions, and the best of each group.
Counted(paper, items) ==
  Members(paper, None) \cup UNION {Best(paper, items, code) : code \in DOMAIN paper.groups}

ComputePaperTotal(paper, items) == Marked(paper, items, Counted(paper, items))

-----------------------------------------------------------------------------
(* marks.py *)

\* Mistake: no check for negative marks.
MarkFaultNoFloor(raw, max) ==
  CASE raw \in {None, Junk} -> "BLANK_MARK_NOT_ALLOWED"
    [] raw = NotANumber     -> Surfaces
    [] OTHER                -> IF raw <= max THEN OK ELSE "MARK_OUT_OF_RANGE"

\* _coerce_present_value, then _check_range.
MarkFault(raw, max) ==
  CASE raw \in {None, Junk} -> "BLANK_MARK_NOT_ALLOWED"
    [] raw = NotANumber     -> Surfaces
    [] OTHER                -> IF raw \in 0..max THEN OK ELSE "MARK_OUT_OF_RANGE"

ValidateTotalMark(attendance, paper, raw) ==
  IF attendance = "absent"
  THEN IF raw = None THEN Accepted(None) ELSE Rejected("ABSENT_STUDENT_HAS_MARKS")
  ELSE LET fault == MarkFault(raw, paper.max)
       IN IF fault = OK THEN Accepted(raw) ELSE Rejected(fault)

\* Mistake: questions left out are not missed.
ItemFaultGapsAllowed(paper, items) ==
  IF DOMAIN items \ QuestionNumbers(paper) # {} THEN "INCOMPLETE_QUESTION_SET"
  ELSE FirstFailure([i \in DOMAIN paper.questions |->
         IF paper.questions[i].number \in DOMAIN items
         THEN MarkFault(items[paper.questions[i].number], paper.questions[i].max) ELSE OK])

\* items is a function from the question numbers a client sent.
ItemFault(paper, items) ==
  IF QuestionNumbers(paper) \ DOMAIN items # {} THEN "BLANK_MARK_NOT_ALLOWED"
  ELSE IF DOMAIN items \ QuestionNumbers(paper) # {} THEN "INCOMPLETE_QUESTION_SET"
  ELSE FirstFailure([i \in DOMAIN paper.questions |->
         MarkFault(items[paper.questions[i].number], paper.questions[i].max)])

ValidateItemMarks(attendance, paper, items) ==
  IF attendance = "absent"
  THEN IF DOMAIN items = {} THEN Accepted(None) ELSE Rejected("ABSENT_STUDENT_HAS_MARKS")
  ELSE IF ItemFault(paper, items) # OK THEN Rejected(ItemFault(paper, items))
  ELSE LET total == ComputePaperTotal(paper, items)
       IN IF total > paper.max THEN Rejected("MARK_OUT_OF_RANGE") ELSE Accepted(total)

\* The full gate; `entered' is the total or the items, as the mode says.
ValidateMarksSubmission(mode, rows, paper, entered) ==
  IF ~HasSpecificTranscription(rows) THEN Rejected("ATTENDANCE_REQUIRED_FIRST")
  ELSE IF mode = "TOTAL_MARKS" THEN ValidateTotalMark(EffectiveAttendance(rows), paper, entered)
  ELSE ValidateItemMarks(EffectiveAttendance(rows), paper, entered)

-----------------------------------------------------------------------------
(* scope.py: students map to a summary (attendance, complete, incident)    *)

\* Mistake: complete marks hide an open incident.
StudentBlockerIncompleteOnly(state) ==
  IF state.attendance = "absent" \/ state.complete THEN OK
  ELSE IF state.incident THEN "UNRESOLVED_INCIDENT" ELSE "BLANK_MARK_NOT_ALLOWED"

\* Why one student keeps the scope from being finalized.
StudentBlocker(state) ==
  IF state.attendance = "absent" THEN OK
  ELSE IF state.incident THEN "UNRESOLVED_INCIDENT"
  ELSE IF state.complete THEN OK ELSE "BLANK_MARK_NOT_ALLOWED"

\* The blockers by student, None for the whole scope.
EvaluateScopeCompleteness(states, scopeIncident) ==
  {<<s, StudentBlocker(states[s])>> : s \in {s \in DOMAIN states : StudentBlocker(states[s]) # OK}}
    \cup IF scopeIncident THEN {<<None, "UNRESOLVED_INCIDENT">>} ELSE {}
=============================================================================
