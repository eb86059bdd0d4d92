----------------------------- MODULE EventLedger -----------------------------
(***************************************************************************)
(* What a Central promises its stations about outbox events, seen from     *)
(* the database: every event is judged at most once, the judgement is      *)
(* permanent, and the writes of an event are committed exactly when it is  *)
(* judged to have landed, together with that judgement.                    *)
(*                                                                         *)
(* Nothing is said here of requests, batches, savepoints or answers.  The  *)
(* module SyncIntake, which has all of them, is shown to implement this.   *)
(***************************************************************************)
EXTENDS Naturals

CONSTANT EventIds       \* the event_ids a station's outbox may hold

VARIABLES verdict,      \* the committed judgement of each event
          applied       \* how often the writes of each event were committed

ledgerVars == <<verdict, applied>>

Landed   == "ACCEPTED"
Refused  == "REJECTED"
Open     == "undecided"
Verdicts == {Landed, Refused}

\* A Central may start with events it judged before.
Init ==
  /\ verdict \in [EventIds -> Verdicts \cup {Open}]
  /\ applied = [e \in EventIds |-> IF verdict[e] = Landed THEN 1 ELSE 0]

\* One commit judges any number of open events at once and applies exactly
\* those that land.
Judge(decision) ==
  /\ \A e \in DOMAIN decision : verdict[e] = Open
  /\ verdict' = [e \in EventIds |->
                   IF e \in DOMAIN decision THEN decision[e] ELSE verdict[e]]
  /\ applied' = [e \in EventIds |->
                   IF e \in DOMAIN decision /\ decision[e] = Landed
                   THEN applied[e] + 1 ELSE applied[e]]

Next == \E D \in SUBSET EventIds : \E decision \in [D -> Verdicts] : Judge(decision)

Spec == Init /\ [][Next]_ledgerVars
=============================================================================
