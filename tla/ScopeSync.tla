------------------------------ MODULE ScopeSync ------------------------------
(***************************************************************************)
(* One scope as a station keeps it (PaperScope, whose variables are the    *)
(* station's), and the same scope at its Central, which judges the         *)
(* station's events by the same rules.  The events travel as station-sync  *)
(* says: in bounded batches that keep the order of the outbox, over a      *)
(* connection that times out and delivers late.                            *)
(*                                                                         *)
(* process_sync_batch is taken one event at a time: the exam can be        *)
(* published or reopened between two events, and a batch can fail between  *)
(* them and roll back.  What two requests in the engine at once do to one  *)
(* another is in SyncIntake; here the Central takes one after the other.   *)
(*                                                                         *)
(* External: the station's outbox, the transaction around the engine, and  *)
(* the tables apply_event writes, with the checks PaperScope assumes of    *)
(* whoever stores a scope.  An event the gate refused keeps its place in   *)
(* the outbox.  INCIDENT_RAISED is an UPSERT: it carries the incident as   *)
(* it stands, open or resolved.                                            *)
(***************************************************************************)
EXTENDS PaperScope

CONSTANTS
  IncidentSubjects, \* the students, or None for the scope, incidents are raised of
  MaxBatch,       \* the most events of one request
  MaxEvents,      \* bound: events a station records
  MaxFailures,    \* bound: timeouts, and batches that fail
  MaxToggles      \* bound: the gate opening or closing

Outcomes == {"accepted", "duplicate", "rejected", "refused"}

ASSUME SyncAssumption ==
  /\ IncidentSubjects \subseteq Students \cup {None}
  /\ MaxBatch \in Nat \ {0} /\ MaxEvents \in Nat
  /\ MaxFailures \in Nat /\ MaxToggles \in Nat
  /\ None \notin Outcomes \cup {"ACCEPTED", "REJECTED"}

VARIABLES
  \* the station, beside its scope
  outbox,         \* the events it recorded, in order
  status,         \* what it knows of each
  \* between the two
  wire,           \* requests under way; the station waits for a live one
  \* the Central
  cAttendance, cMarks, cIncidents, cFinalized,
  receipts,       \* the judgement of each event
  gateOpen,
  active,         \* the request in the engine, None between requests
  before,         \* what a rollback of that request restores
  \* history and bounds
  past,           \* the station's scope after each event
  torn,           \* the gate opened while a request was in the engine
  failures, toggles

scopeVars   == <<paper, attendance, marks, incidents, finalized>>
stationVars == <<scopeVars, outbox, status, past>>
tableVars   == <<cAttendance, cMarks, cIncidents, cFinalized>>
boundVars   == <<failures, toggles>>
syncVars    == <<stationVars, wire, tableVars, receipts, gateOpen, active, before,
                 torn, boundVars>>

Central == INSTANCE PaperScope WITH
  attendance <- cAttendance, marks <- cMarks, incidents <- cIncidents, finalized <- cFinalized

Indices == 1..MaxEvents
Scope   == [attendance |-> attendance, marks |-> marks, incidents |-> incidents,
            finalized |-> finalized]
Tables  == [attendance |-> cAttendance, marks |-> cMarks, incidents |-> cIncidents,
            finalized |-> cFinalized, receipts |-> receipts]

SyncInit ==
  /\ paper \in {p \in Papers : ValidatePaperConfig(p) = OK}
  /\ attendance = [s \in Students |-> [paper |-> None, all |-> None]]
  /\ marks = [s \in Students |-> None]
  /\ incidents = {}
  /\ finalized = FALSE
  /\ outbox = <<>> /\ status = <<>> /\ past = <<Scope>>
  /\ wire = {}
  /\ cAttendance = attendance /\ cMarks = marks
  /\ cIncidents = incidents /\ cFinalized = finalized
  /\ receipts = [i \in Indices |-> None]
  /\ gateOpen \in BOOLEAN
  /\ active = None /\ before = None
  /\ torn = FALSE
  /\ failures = 0 /\ toggles = 0

-----------------------------------------------------------------------------
(* The station *)

\* ATTENDANCE_BASELINE is ATTENDANCE_TRANSCRIBED of the paper ALL.
Event(type, x, value) == [type |-> type, of |-> x, value |-> value]

\* Entering again what is stored already changes nothing on either side, and
\* is left out.
Record(event) ==
  /\ Len(outbox) < MaxEvents
  /\ Scope' # Scope
  /\ outbox' = Append(outbox, event)
  /\ status' = Append(status, "PENDING")
  /\ past' = Append(past, Scope')
  /\ UNCHANGED <<wire, tableVars, receipts, gateOpen, active, before, torn, boundVars>>

\* What is entered is stored under the rules and recorded for the Central.
Enter ==
  \/ \E s \in Students, a \in Attendances :
       \/ Transcribe(s, a) /\ Record(Event("ATTENDANCE_TRANSCRIBED", s, a))
       \/ TranscribeBaseline(s, a) /\ Record(Event("ATTENDANCE_BASELINE", s, a))
  \/ \E s \in Students, e \in Entries[paper.mode] :
       Submit(s, e) /\ Record(Event("STUDENT_PAPER_MARKS_REPLACED", s, e))
  \/ \E x \in IncidentSubjects :
       \/ Raise(x) /\ Record(Event("INCIDENT_RAISED", x, "OPEN"))
       \/ Resolve(x) /\ Record(Event("INCIDENT_RAISED", x, "RESOLVED"))
  \/ Finalize /\ Record(Event("SCOPE_FINALIZED", None, None))

Waiting == (active # None /\ active.live) \/ \E r \in wire : r.live

\* What is pending, by its place in the outbox.
Pending == {i \in DOMAIN outbox : status[i] = "PENDING"}

\* The first of them that fit a request.  A request keeps the order of the
\* outbox, so a set of places in the outbox stands for its list of events.
NextBatch == {i \in Pending : Cardinality({j \in Pending : j <= i}) <= MaxBatch}

Send ==
  /\ ~Waiting /\ Pending # {}
  /\ wire' = wire \cup {[events |-> NextBatch, live |-> TRUE]}
  /\ UNCHANGED <<stationVars, tableVars, receipts, gateOpen, active, before, torn,
                 boundVars>>

\* An answer that names no event yet: every event is named in one of four lists.
NoAnswer == [i \in Indices |-> None]

\* The station gives up; its request stays under way and may arrive, or never.
Timeout ==
  /\ Waiting
  /\ failures < MaxFailures
  /\ failures' = failures + 1
  /\ wire' = {[r EXCEPT !.live = FALSE] : r \in wire}
  /\ active' = IF active = None THEN None ELSE [active EXCEPT !.live = FALSE, !.answer = NoAnswer]
  /\ UNCHANGED <<stationVars, tableVars, receipts, gateOpen, before, torn, toggles>>

-----------------------------------------------------------------------------
(* The Central *)

Begin(r) ==
  /\ active = None
  /\ r \in wire
  /\ wire' = wire \ {r}
  /\ active' = [todo |-> r.events, live |-> r.live, answer |-> NoAnswer]
  /\ before' = Tables
  /\ UNCHANGED <<stationVars, tableVars, receipts, gateOpen, torn, boundVars>>

\* The events of a request are taken in their order.
Judging(i) == active # None /\ i \in active.todo /\ \A j \in active.todo : i <= j

\* The event is named in one list of the answer, and the loop goes on.
Named(i, outcome) ==
  /\ active' = [active EXCEPT !.todo = @ \ {i},
                             !.answer = IF active.live THEN [@ EXCEPT ![i] = outcome] ELSE @]
  /\ UNCHANGED <<stationVars, wire, gateOpen, before, torn, boundVars>>

Duplicate(i) ==
  /\ Judging(i) /\ receipts[i] # None
  /\ Named(i, "duplicate")
  /\ UNCHANGED <<tableVars, receipts>>

\* Mistake: a refusal leaves a receipt.
RefuseForGood(i) ==
  /\ Judging(i) /\ receipts[i] = None /\ ~gateOpen
  /\ Named(i, "refused")
  /\ receipts' = [receipts EXCEPT ![i] = "REJECTED"]
  /\ UNCHANGED tableVars

Refuse(i) ==
  /\ Judging(i) /\ receipts[i] = None /\ ~gateOpen
  /\ Named(i, "refused")
  /\ UNCHANGED <<tableVars, receipts>>

\* The Central puts the same question to the shared rules, about its own tables.
LandMarks(s, e) ==
  Central!StoreResult(s, e, ValidateMarksSubmission(paper.mode, cAttendance[s], paper, e))

\* The whole of apply_event for each kind of event; it has no step where the
\* rules or the finalized scope refuse the write.
Apply(event) ==
  \/ event.type = "ATTENDANCE_TRANSCRIBED" /\ Central!Transcribe(event.of, event.value)
  \/ event.type = "ATTENDANCE_BASELINE" /\ Central!TranscribeBaseline(event.of, event.value)
  \/ event.type = "STUDENT_PAPER_MARKS_REPLACED" /\ LandMarks(event.of, event.value)
  \/ event.type = "INCIDENT_RAISED" /\ event.value = "OPEN" /\ Central!Raise(event.of)
  \/ event.type = "INCIDENT_RAISED" /\ event.value = "RESOLVED" /\ Central!Resolve(event.of)
  \/ event.type = "SCOPE_FINALIZED" /\ Central!Finalize

Accept(i) ==
  /\ Judging(i) /\ receipts[i] = None /\ gateOpen
  /\ Apply(outbox[i])
  /\ Named(i, "accepted")
  /\ receipts' = [receipts EXCEPT ![i] = "ACCEPTED"]

\* Why apply_event raises SyncRejected.
Rejection(event) ==
  CASE event.type = "STUDENT_PAPER_MARKS_REPLACED" ->
         ~Central!Open
           \/ ValidateMarksSubmission(paper.mode, cAttendance[event.of], paper, event.value).code # OK
    [] event.type = "SCOPE_FINALIZED" -> ~Central!Open \/ ~Central!Complete
    [] event.type = "INCIDENT_RAISED" /\ event.value = "RESOLVED" -> event.of \notin cIncidents
    [] OTHER -> ~Central!Open

Reject(i) ==
  /\ Judging(i) /\ receipts[i] = None /\ gateOpen
  /\ Rejection(outbox[i])
  /\ Named(i, "rejected")
  /\ receipts' = [receipts EXCEPT ![i] = "REJECTED"]
  /\ UNCHANGED <<tableVars>>

\* Mistake: a duplicate is taken for news of nothing.
ReconciledUnlessDuplicate(outcome) ==
  CASE outcome = "accepted"               -> "ACCEPTED"
    [] outcome = "rejected"               -> "REJECTED"
    [] outcome \in {"refused", "duplicate"} -> "PENDING"

\* What the station makes of the list that names an event.
Reconciled(outcome) ==
  CASE outcome \in {"accepted", "duplicate"} -> "ACCEPTED"
    [] outcome = "rejected"                  -> "REJECTED"
    [] outcome = "refused"                   -> "PENDING"

\* The batch commits and its answer goes out, to a station that may no longer
\* wait for it.
Answer ==
  /\ active # None /\ active.todo = {}
  /\ status' = IF active.live
               THEN [i \in DOMAIN status |-> IF active.answer[i] = None THEN status[i]
                                             ELSE Reconciled(active.answer[i])]
               ELSE status
  /\ active' = None /\ before' = None
  /\ UNCHANGED <<scopeVars, outbox, past, wire, tableVars, receipts, gateOpen, torn, boundVars>>

\* Mistake: the writes of a failed batch stay.
FailKeepsWrites ==
  /\ active # None
  /\ failures < MaxFailures
  /\ failures' = failures + 1
  /\ receipts' = before.receipts
  /\ active' = None /\ before' = None
  /\ UNCHANGED <<stationVars, wire, tableVars, gateOpen, torn, toggles>>

\* Anything but a SyncRejected surfaces, and the Central rolls the batch back.
Fail ==
  /\ active # None
  /\ failures < MaxFailures
  /\ failures' = failures + 1
  /\ cAttendance' = before.attendance /\ cMarks' = before.marks
  /\ cIncidents' = before.incidents /\ cFinalized' = before.finalized
  /\ receipts' = before.receipts
  /\ active' = None /\ before' = None
  /\ UNCHANGED <<stationVars, wire, gateOpen, torn, toggles>>

ToggleGate ==
  /\ toggles < MaxToggles
  /\ toggles' = toggles + 1
  /\ gateOpen' = ~gateOpen
  /\ torn' = (torn \/ (active # None /\ ~gateOpen))
  /\ UNCHANGED <<stationVars, wire, tableVars, receipts, active, before, failures>>

Judge == \E i \in Indices : Duplicate(i) \/ Refuse(i) \/ Accept(i) \/ Reject(i)

SyncNext ==
  \/ Enter \/ Send \/ Timeout
  \/ \E r \in wire : Begin(r)
  \/ Judge \/ Answer \/ Fail \/ ToggleGate

SyncSpec == SyncInit /\ [][SyncNext]_syncVars

\* A station sends what is pending, and a request that is not given up is
\* taken, judged and answered.  Nobody has to enter anything, and a request the
\* station gave up may never arrive.
SyncFairness ==
  /\ WF_syncVars(Send)
  /\ WF_syncVars(\E r \in wire : r.live /\ Begin(r))
  /\ WF_syncVars(Judge)
  /\ WF_syncVars(Answer)

FairSyncSpec == SyncSpec /\ SyncFairness

-----------------------------------------------------------------------------
(* Properties *)

CentralScope == [attendance |-> cAttendance, marks |-> cMarks, incidents |-> cIncidents,
                 finalized |-> cFinalized]

Judged == {i \in Indices : receipts[i] # None}

\* "Central and Station both call them" (marks.py:7-9): what the rules let a
\* station store, they let its Central store, however batches are cut, repeated,
\* delayed and rolled back, because the events come in order
\* (station_sync.py:3).  The one exception is `torn': the exam is reopened in the
\* middle of a batch, after an event of it was refused, and the marks that rest
\* on a refused attendance are rejected for good.
NothingTypedIsRejected ==
  torn \/ \A i \in Indices : receipts[i] # "REJECTED"

\* The Central is never in a state the station was not in: it has the effect of
\* the first n events, all of them judged, and of nothing else, and a batch that
\* fails takes it back to such a state.
CentralIsThePast ==
  torn \/ \E n \in 0..Len(outbox) : Judged = 1..n /\ CentralScope = past[n + 1]

\* A scope the Central has finalized is complete by the Central's own tables,
\* whatever the gate kept out of them (scope.py:3-10).
CentralFinalizedIsComplete == Central!FinalizedIsComplete

\* When the exam stays open, the Central ends up with what the station has, and
\* the station knows that it has.
EventuallySame ==
  []<>~gateOpen \/ <>[](torn \/ (/\ CentralScope = Scope
                                /\ \A i \in DOMAIN status : status[i] = "ACCEPTED"))
=============================================================================
