----------------------------- MODULE PaperWrites -----------------------------
(***************************************************************************)
(* Writes to one student's paper: several stations type marks under clocks *)
(* that may be wrong, several Centrals (each with its own schema and the   *)
(* same rules) receive the writes in any order and any number of times,    *)
(* and people correct the value in the Central UI.  central/conflict.py    *)
(* decides every incoming write; this module is what its rules add up to.  *)
(*                                                                         *)
(* True time is `now', which no machine can read.  A station's clock is    *)
(* wrong by a constant error until someone fixes it; a Central's clock is  *)
(* the reference.  Each request carries the station's time when it was     *)
(* sent and is processed up to MaxTransit later: at once over a network,   *)
(* later when it waits, is relayed, or travels as a portable envelope.     *)
(*                                                                         *)
(* External: the stations, the tables behind apply_event, the Central UI.  *)
(***************************************************************************)
EXTENDS Integers, FiniteSets

CONSTANTS
  Stations,       \* the stations that hold this paper
  TimedStations,  \* those whose build sends station_time
  Centrals,       \* the Centrals that decide independently
  Values,         \* the marks
  Errors,         \* how far ahead a station's clock may be
  MaxVersion,     \* bound: the entries one station types for the paper
  MaxTime,        \* bound on true time
  MaxTransit,     \* the longest a request takes from sending to processing
  MaxEdits,       \* bound: corrections in the Central UI
  ClocksGetFixed, \* whether a wrong clock may be corrected
  Redelivery,     \* whether an entry can come again, under another event_id
  None            \* nothing stored, no value, no station time

ASSUME PaperAssumption ==
  /\ TimedStations \subseteq Stations
  /\ Errors \subseteq Int
  /\ MaxVersion \in Nat /\ MaxTime \in Nat /\ MaxTransit \in Nat /\ MaxEdits \in Nat
  /\ ClocksGetFixed \in BOOLEAN /\ Redelivery \in BOOLEAN
  /\ None \notin Stations /\ None \notin Values

Versions == 1..MaxVersion
Times    == 0..MaxTime
Never    == MaxTime + 1

INSTANCE Conflict

\* An entry as typed: what the outbox holds, and the true time of typing.
Entry == [station : Stations, version : Versions, typedAt : Times,
          occurredAt : Int, value : Values]

\* A write as a Central stored it, with the true time of typing for reference.
Write == Entry

ASSUME NoneAssumption == None \notin Entry /\ None \notin Int

VARIABLES
  now,            \* true time
  clockError,     \* station -> how far its clock is ahead until it is fixed
  fixedAt,        \* station -> when its clock was fixed, or Never
  version,        \* station -> the last local_version it gave out for the paper
  typed,          \* the entries typed so far
  stored,         \* Central -> the write this mechanism recorded last
  row,            \* Central -> the value its table holds
  received,       \* Central -> the entries it has decided on
  edited,         \* Central -> when the row was last changed outside sync
  flagged,        \* Central -> the last decision replaced a foreign change
  edits           \* bound

typingVars  == <<clockError, fixedAt, version, typed>>
centralVars == <<stored, row, received, edited, flagged>>
vars == <<now, typingVars, centralVars, edits>>

Init ==
  /\ now = 0
  /\ clockError \in [Stations -> Errors]
  /\ fixedAt = [s \in Stations |-> Never]
  /\ version = [s \in Stations |-> 0]
  /\ typed = {}
  /\ stored = [c \in Centrals |-> None]
  /\ row = [c \in Centrals |-> None]
  /\ received = [c \in Centrals |-> {}]
  /\ edited = [c \in Centrals |-> None]
  /\ flagged = [c \in Centrals |-> FALSE]
  /\ edits = 0

\* What the clock of s shows at true time t.
Clock(s, t) == IF t < fixedAt[s] THEN t + clockError[s] ELSE t

-----------------------------------------------------------------------------
(* Time and the stations *)

Tick ==
  /\ now < MaxTime
  /\ now' = now + 1
  /\ UNCHANGED <<typingVars, centralVars, edits>>

\* Someone sets the clock of s right.
FixClock(s) ==
  /\ ClocksGetFixed /\ fixedAt[s] = Never /\ clockError[s] # 0
  /\ fixedAt' = [fixedAt EXCEPT ![s] = now]
  /\ UNCHANGED <<now, clockError, version, typed, centralVars, edits>>

\* A Data Enterer types a value: the next version, stamped with the clock of
\* the machine.
TypeEntry(s, value) ==
  /\ version[s] < MaxVersion
  /\ version' = [version EXCEPT ![s] = @ + 1]
  /\ typed' = typed \cup {[station |-> s, version |-> version[s] + 1, typedAt |-> now,
                           occurredAt |-> Clock(s, now), value |-> value]}
  /\ UNCHANGED <<now, clockError, fixedAt, centralVars, edits>>

-----------------------------------------------------------------------------
(* A Central *)

\* The station time in a request sent at t.
StationTime(s, t) == IF s \in TimedStations THEN Clock(s, t) ELSE None

\* The entry as the Central compares it, from a request sent at t.
Incoming(e, t) ==
  [e EXCEPT !.occurredAt = NormalizeOccurredAt(@, SkewSeconds(StationTime(e.station, t), now))]

\* Mistake: the row takes the write, not its value.
RecordWhole(c, incoming) ==
  /\ stored' = [stored EXCEPT ![c] = incoming]
  /\ row' = [row EXCEPT ![c] = incoming]
  /\ edited' = [edited EXCEPT ![c] = None]

\* The value goes to the row, and the write is remembered for later decisions.
Record(c, incoming) ==
  /\ stored' = [stored EXCEPT ![c] = incoming]
  /\ row' = [row EXCEPT ![c] = incoming.value]
  /\ edited' = [edited EXCEPT ![c] = None]

\* apply_event: decide, write what is to be written, reject what is stale.
Receive(c, e, t) ==
  /\ e \in typed
  /\ Redelivery \/ e \notin received[c]
  /\ e.typedAt <= t /\ t <= now /\ now - t <= MaxTransit
  /\ LET incoming == Incoming(e, t)
         decision == Decide(incoming, stored[c], row[c])
     IN /\ flagged' = [flagged EXCEPT ![c] = decision.foreign]
        /\ IF decision.resolution = "APPLY"
           THEN Record(c, incoming)
           ELSE UNCHANGED <<stored, row, edited>>
  /\ received' = [received EXCEPT ![c] = @ \cup {e}]
  /\ UNCHANGED <<now, typingVars, edits>>

\* A correction in the Central UI changes the row and not the stored write.
CentralEdit(c, value) ==
  /\ edits < MaxEdits
  /\ row[c] # value
  /\ edits' = edits + 1
  /\ row' = [row EXCEPT ![c] = value]
  /\ edited' = [edited EXCEPT ![c] = now]
  /\ UNCHANGED <<now, typingVars, stored, received, flagged>>

Next ==
  \/ Tick
  \/ \E s \in Stations : FixClock(s) \/ \E value \in Values : TypeEntry(s, value)
  \/ \E c \in Centrals, e \in typed, t \in Times : Receive(c, e, t)
  \/ \E c \in Centrals, value \in Values : CentralEdit(c, value)

Spec == Init /\ [][Next]_vars

-----------------------------------------------------------------------------
(* Properties *)

\* Every variable has its type.
TypeOK ==
  /\ now \in Times
  /\ clockError \in [Stations -> Errors]
  /\ fixedAt \in [Stations -> Times \cup {Never}]
  /\ version \in [Stations -> 0..MaxVersion]
  /\ typed \subseteq Entry
  /\ stored \in [Centrals -> Write \cup {None}]
  /\ row \in [Centrals -> Values \cup {None}]
  /\ received \in [Centrals -> SUBSET Entry]
  /\ edited \in [Centrals -> Times \cup {None}]
  /\ flagged \in [Centrals -> BOOLEAN]
  /\ edits \in Nat

\* "The later authorship wins": whatever the order in which entries reached a
\* Central and however wrong the clocks they were typed under, none of them
\* was truly typed later than the one it stored.  (For stations that send their
\* time, over a network that takes none, and clocks nobody touches.)
LatestAuthorshipWins ==
  \A c \in Centrals : \A e \in received[c] :
    stored[c] # None /\ stored[c].typedAt >= e.typedAt

\* An out-of-order retry never resurrects a mark that its own station had
\* already replaced, also when a write of another station came in between, and
\* also for stations that do not send their time.
NoResurrection ==
  \A c \in Centrals : \A e \in received[c] :
    stored[c] # None /\ (stored[c].station = e.station => stored[c].version >= e.version)

\* Two Centrals that received the same entries store the same one, in whatever
\* order each received them.  At one instant "keeping what is stored is the only
\* deterministic answer" (conflict.py:225-226): two Centrals may keep different writers
\* then, but never entries of two instants, nor two versions of one station.
CentralsAgree ==
  \A c, d \in Centrals :
    received[c] = received[d] /\ received[c] # {} =>
      /\ stored[c].typedAt = stored[d].typedAt
      /\ stored[c].station = stored[d].station => stored[c].version = stored[d].version

\* "Ordering within one station does not need clocks at all": while only one
\* station has written, its newest entry is the one stored, whatever happens
\* to its clock, and however late and often each entry arrives.
CounterNeedsNoClock ==
  \A c \in Centrals, s \in Stations :
    (\A e \in received[c] : e.station = s) =>
      \A e \in received[c] : stored[c] # None /\ stored[c].version >= e.version

\* No correction disappears unnoticed: an entry that replaces a value entered
\* outside sync is flagged (a value that differs from what sync wrote last).
CorrectionsAreFlagged ==
  [][\A c \in Centrals :
       /\ edited[c] # None /\ edited'[c] = None
       /\ row'[c] # row[c]
       /\ stored[c] = None \/ row[c] # stored[c].value
       => flagged'[c]]_vars

\* NOT a property of these rules ("a central correction is not overwritten by
\* an older entry"): where a synced write was stored before a correction, an entry
\* of another station that replaces the correction was typed after it.  (The first
\* synced write supersedes what it finds on purpose, conflict.py:149-151, and a
\* station's own next version replaces its last one without a clock.)
CorrectionSurvivesOlderEntry ==
  [][\A c \in Centrals :
       /\ stored[c] # None /\ edited[c] # None
       /\ edited'[c] = None /\ row'[c] # row[c]
       /\ stored'[c].station # stored[c].station
       => stored'[c].typedAt >= edited[c]]_vars
=============================================================================
