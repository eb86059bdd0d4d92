----------------------------- MODULE PaperScope ------------------------------
(***************************************************************************)
(* One scope (exam, school, subject, paper) from its configuration to its  *)
(* finalization, under the rules of validation/.  The rules are the code;  *)
(* the caller that stores what they accept (Central or a station) is       *)
(* external.  Of it we assume what marks.py:8-9 and scope.py:3-10 say: it  *)
(* adds "its own scope, writer-assignment and finalize checks around the   *)
(* result", so that a finalized scope takes no more writes, and it asks    *)
(* evaluate_scope_completeness before it writes a FinalizedScope, in the   *)
(* transaction that read the students' states.                             *)
(***************************************************************************)
EXTENDS MarksRules

CONSTANTS
  Students,
  Papers,         \* configurations somebody tries to save, each with its mode
  Entries         \* mode -> what a client may enter: totals or item sets

ASSUME ModeAssumption ==
  /\ DOMAIN Entries = {"TOTAL_MARKS", "ITEM_LEVEL"}
  /\ \A p \in Papers : p.mode \in DOMAIN Entries
  /\ None \notin Papers

\* A configuration is a list of questions, each with whole marks at most, groups
\* that are named, and a maximum.
ASSUME PaperAssumption ==
  \A p \in Papers :
    /\ p.questions \in Seq({p.questions[i] : i \in DOMAIN p.questions})
    /\ \A i \in DOMAIN p.questions : p.questions[i].max \in Nat
    /\ None \notin DOMAIN p.groups
    /\ p.max \in Nat

VARIABLES
  paper,          \* the configuration in force, None before one is saved
  attendance,     \* the transcriptions of each student
  marks,          \* the stored submission of each student: what was entered, the total
  incidents,      \* unresolved incidents, of a student or (None) of the scope
  finalized

vars == <<paper, attendance, marks, incidents, finalized>>

Rows == [paper : Attendances \cup {None}, all : Attendances \cup {None}]

Init ==
  /\ paper = None
  /\ attendance = [s \in Students |-> [paper |-> None, all |-> None]]
  /\ marks = [s \in Students |-> None]
  /\ incidents = {}
  /\ finalized = FALSE

SavePaper(p) ==
  /\ paper = None
  /\ ValidatePaperConfig(p) = OK
  /\ paper' = p
  /\ UNCHANGED <<attendance, marks, incidents, finalized>>

Open == paper # None /\ ~finalized

\* A transcription of the paper's own report (ISAL), or of the subject-wide
\* baseline (CAL).  Marks stored before are left alone by either.
Transcribe(s, a) ==
  /\ Open
  /\ attendance' = [attendance EXCEPT ![s].paper = a]
  /\ UNCHANGED <<paper, marks, incidents, finalized>>

TranscribeBaseline(s, a) ==
  /\ ~finalized
  /\ attendance' = [attendance EXCEPT ![s].all = a]
  /\ UNCHANGED <<paper, marks, incidents, finalized>>

\* One atomic submission, stored as the rules judged it.  That of an absent
\* student replaces what is stored by nothing; a rejected one changes nothing.
StoreResult(s, e, result) ==
  /\ Open
  /\ result.code = OK
  /\ marks' = [marks EXCEPT ![s] =
                 IF result.total = None THEN None
                 ELSE [entered |-> e, total |-> result.total]]
  /\ UNCHANGED <<paper, attendance, incidents, finalized>>

Submit(s, e) == StoreResult(s, e, ValidateMarksSubmission(paper.mode, attendance[s], paper, e))

Raise(x) ==
  /\ Open
  /\ incidents' = incidents \cup {x}
  /\ UNCHANGED <<paper, attendance, marks, finalized>>

Resolve(x) ==
  /\ x \in incidents
  /\ incidents' = incidents \ {x}
  /\ UNCHANGED <<paper, attendance, marks, finalized>>

\* What the caller assembles from persisted data.
StudentScopeState(s) ==
  [attendance |-> EffectiveAttendance(attendance[s]),
   complete   |-> marks[s] # None,
   incident   |-> s \in incidents]

\* Mistake: incidents of the scope as a whole are not looked up.
CompleteByStudents ==
  EvaluateScopeCompleteness([s \in Students |-> StudentScopeState(s)], FALSE) = {}

\* No blocker: what is asked before a FinalizedScope is written.
Complete ==
  EvaluateScopeCompleteness([s \in Students |-> StudentScopeState(s)], None \in incidents) = {}

Finalize ==
  /\ Open
  /\ Complete
  /\ finalized' = TRUE
  /\ UNCHANGED <<paper, attendance, marks, incidents>>

Next ==
  \/ \E p \in Papers : SavePaper(p)
  \/ \E s \in Students, a \in Attendances : Transcribe(s, a)
  \/ \E s \in Students, a \in Attendances : TranscribeBaseline(s, a)
  \/ paper # None /\ \E s \in Students, e \in Entries[paper.mode] : Submit(s, e)
  \/ \E x \in Students \cup {None} : Raise(x)
  \/ \E x \in Students \cup {None} : Resolve(x)
  \/ Finalize

Spec == Init /\ [][Next]_vars

-----------------------------------------------------------------------------

\* The sets of answers, by their place in the paper, that a candidate can be
\* marked on: all the compulsory questions and, of each group, as many as it
\* asks for.
MarkedSets ==
  {S \in SUBSET DOMAIN paper.questions :
     /\ Members(paper, None) \subseteq S
     /\ \A code \in DOMAIN paper.groups :
          Cardinality(S \cap Members(paper, code)) = paper.groups[code]}

\* "No blank marks, ever" (marks.py:3): in whatever order configurations,
\* transcriptions and submissions come, an item set is stored only with a number
\* in range for every configured question and for no other, and a total only if
\* it is a number in range.
StoredMarksAreExplicit ==
  \A s \in Students : marks[s] # None =>
    /\ marks[s].total \in 0..paper.max
    /\ paper.mode = "ITEM_LEVEL" =>
         /\ DOMAIN marks[s].entered = QuestionNumbers(paper)
         /\ \A i \in DOMAIN paper.questions :
              marks[s].entered[paper.questions[i].number] \in 0..paper.questions[i].max

\* Best N of M: the total stored for an item set is the most the candidate can
\* be given, over all the ways to choose the answers that count
\* (compute_paper_total); every configuration that was accepted has such a way.
TotalIsTheBestChoice ==
  paper # None /\ paper.mode = "ITEM_LEVEL" => \A s \in Students : marks[s] # None =>
    marks[s].total = Max({Marked(paper, marks[s].entered, S) : S \in MarkedSets})

\* Marks are stored for a student only on the strength of the paper's own
\* report: it was transcribed before, and it says present, whatever the baseline
\* says and whichever of the two came first (attendance.py:36-41, marks.py:169-170).
MarksNeedTheReport ==
  [][\A s \in Students : marks'[s] \notin {marks[s], None} => attendance[s].paper = "present"]_vars

\* A finalized scope is settled for good: every student has marks and no open
\* incident, or is absent by the report, or by the baseline where there is no
\* report; and nothing that was written afterwards changed that.
FinalizedIsComplete ==
  finalized =>
    /\ None \notin incidents
    /\ \A s \in Students :
         \/ marks[s] # None /\ s \notin incidents
         \/ attendance[s].paper = "absent"
         \/ attendance[s].paper = None /\ attendance[s].all = "absent"
=============================================================================
