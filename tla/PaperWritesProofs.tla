-------------------------- MODULE PaperWritesProofs --------------------------
(***************************************************************************)
(* What the conflict rules guarantee for every number of stations, marks,  *)
(* Centrals and entries, and for every clock error.  The argument rests on *)
(* one case analysis of a decision (ReceiveCases): everything after it     *)
(* speaks of versions and times, and no longer of decide.                  *)
(***************************************************************************)
EXTENDS PaperWrites, TLAPS

\* The write w is entry e, its time perhaps restated.
Restates(w, e) ==
  /\ w.station = e.station /\ w.version = e.version
  /\ w.typedAt = e.typedAt /\ w.value = e.value

-----------------------------------------------------------------------------
(* Decisions *)

\* The clock of a station shows an integer.
LEMMA ClockIsInt ==
  ASSUME TypeOK, NEW s \in Stations, NEW t \in Times
  PROVE  Clock(s, t) \in Int
<1>1. clockError[s] \in Int BY PaperAssumption DEF TypeOK
<1>2. t \in Int BY PaperAssumption DEF Times
<1>3. QED BY <1>1, <1>2 DEF Clock

\* The write a Central compares is the entry, restated on its own clock.
LEMMA IncomingRestates ==
  ASSUME TypeOK, NEW e \in Entry, NEW t \in Times
  PROVE  /\ Incoming(e, t) \in Write
         /\ Restates(Incoming(e, t), e)
         /\ e.station \in TimedStations =>
              Incoming(e, t).occurredAt = e.occurredAt + (now - Clock(e.station, t))
         /\ e.station \notin TimedStations => Incoming(e, t).occurredAt = e.occurredAt
<1> DEFINE skew == SkewSeconds(StationTime(e.station, t), now)
<1>1. e.station \in Stations /\ e.occurredAt \in Int BY DEF Entry
<1>2. Clock(e.station, t) \in Int BY <1>1, ClockIsInt
<1>3. now \in Int BY PaperAssumption DEF TypeOK, Times
<1>4. skew = IF e.station \in TimedStations THEN now - Clock(e.station, t) ELSE 0
  BY <1>2, NoneAssumption DEF SkewSeconds, StationTime
<1>5. Incoming(e, t) = [e EXCEPT !.occurredAt = e.occurredAt + skew]
  BY DEF Incoming, NormalizeOccurredAt
<1>6. e.occurredAt + skew \in Int BY <1>1, <1>2, <1>3, <1>4
<1> HIDE DEF skew
<1>7. QED BY <1>1, <1>2, <1>3, <1>4, <1>5, <1>6 DEF Entry, Write, Restates

\* What a Central does with an entry: store it, or keep what it has.
Stores(c, w) == stored' = [stored EXCEPT ![c] = w]

\* The five ways a decision can go.
LEMMA ReceiveCases ==
  ASSUME TypeOK, NEW c \in Centrals, NEW e \in typed, NEW t \in Times, Receive(c, e, t)
  PROVE  LET w == Incoming(e, t) IN
         \/ stored[c] = None /\ Stores(c, w)
         \/ /\ stored[c] # None /\ stored[c].station = e.station
            /\ \/ e.version > stored[c].version /\ Stores(c, w)
               \/ e.version <= stored[c].version /\ UNCHANGED stored
         \/ /\ stored[c] # None /\ stored[c].station # e.station
            /\ \/ w.occurredAt > stored[c].occurredAt /\ Stores(c, w)
               \/ w.occurredAt <= stored[c].occurredAt /\ UNCHANGED stored
<1> DEFINE w == Incoming(e, t)
           d == Decide(w, stored[c], row[c])
<1>1. e \in Entry BY DEF TypeOK
<1>2. w \in Write /\ Restates(w, e) BY <1>1, IncomingRestates
<1>3. d.resolution = "APPLY" => Stores(c, w) BY DEF Receive, Record, Stores
<1>4. d.resolution # "APPLY" => UNCHANGED stored BY DEF Receive
<1>5. stored[c] = None => d.resolution = "APPLY" BY DEF Decide, Decision
<1>6. CASE stored[c] = None BY <1>3, <1>5, <1>6
<1>7. CASE stored[c] # None
  <2>1. stored[c] \in Write BY <1>7 DEF TypeOK
  <2>2. stored[c].station # None BY <2>1, PaperAssumption DEF Write, Entry
  <2>3. CASE stored[c].station = e.station
    <3>1. d.resolution = ByVersion(w, stored[c])
      BY <1>2, <1>7, <2>2, <2>3 DEF Decide, Decision, SameStation, Restates
    <3>2. w.version = e.version /\ e.version \in Int /\ stored[c].version \in Int
      BY <1>1, <1>2, <2>1, PaperAssumption DEF Restates, Entry, Write, Versions
    <3>3. d.resolution = "APPLY" <=> e.version > stored[c].version
      BY <3>1, <3>2 DEF ByVersion
    <3>4. QED BY <1>3, <1>4, <1>7, <2>3, <3>2, <3>3
  <2>4. CASE stored[c].station # e.station
    <3>1. d.resolution = ByTime(w, stored[c])
      BY <1>2, <1>7, <2>2, <2>4 DEF Decide, Decision, SameStation, Restates
    <3>2. w.occurredAt \in Int /\ stored[c].occurredAt \in Int
      BY <1>2, <2>1 DEF Entry, Write
    <3>3. d.resolution = "APPLY" <=> w.occurredAt > stored[c].occurredAt
      BY <3>1, <3>2 DEF ByTime
    <3>4. QED BY <1>3, <1>4, <1>7, <2>4, <3>2, <3>3
  <2>5. QED BY <2>3, <2>4
<1>8. QED BY <1>6, <1>7

-----------------------------------------------------------------------------
(* Types *)

\* The initial state has its types.
LEMMA InitTyped == Init => TypeOK
<1>1. Never \in Times \cup {Never} /\ 0 \in Times BY PaperAssumption DEF Times
<1>2. 0 \in 0..MaxVersion BY PaperAssumption
<1>3. QED BY <1>1, <1>2 DEF Init, TypeOK

\* The entry a station types.
LEMMA EntryTyped ==
  ASSUME TypeOK, NEW s \in Stations, NEW value \in Values, version[s] < MaxVersion
  PROVE  /\ version[s] + 1 \in 0..MaxVersion
         /\ [station |-> s, version |-> version[s] + 1, typedAt |-> now,
             occurredAt |-> Clock(s, now), value |-> value] \in Entry
<1>1. version[s] \in 0..MaxVersion /\ now \in Times BY DEF TypeOK
<1>2. version[s] + 1 \in 1..MaxVersion BY <1>1, PaperAssumption
<1>3. Clock(s, now) \in Int BY <1>1, ClockIsInt
<1>4. QED BY <1>1, <1>2, <1>3 DEF Entry, Versions

\* Every step keeps the types.
LEMMA TypingStep == TypeOK /\ [Next]_vars => TypeOK'
<1> SUFFICES ASSUME TypeOK, [Next]_vars PROVE TypeOK' OBVIOUS
<1>1. CASE Tick
  <2>1. now + 1 \in Times BY <1>1, PaperAssumption DEF Tick, TypeOK, Times
  <2>2. QED BY <1>1, <2>1 DEF Tick, TypeOK, typingVars, centralVars
<1>2. ASSUME NEW s \in Stations, FixClock(s) PROVE TypeOK'
  BY <1>2 DEF FixClock, TypeOK, centralVars
<1>3. ASSUME NEW s \in Stations, NEW value \in Values, TypeEntry(s, value) PROVE TypeOK'
  <2>1. version[s] < MaxVersion BY <1>3 DEF TypeEntry
  <2>2. QED BY <1>3, <2>1, EntryTyped DEF TypeEntry, TypeOK, centralVars
<1>4. ASSUME NEW c \in Centrals, NEW e \in typed, NEW t \in Times, Receive(c, e, t) PROVE TypeOK'
  <2>1. e \in Entry BY DEF TypeOK
  <2>2. Incoming(e, t) \in Write BY <2>1, IncomingRestates
  <2>3. Incoming(e, t).value \in Values BY <2>2 DEF Write, Entry
  <2>4. Decide(Incoming(e, t), stored[c], row[c]).foreign \in BOOLEAN
    BY DEF Decide, Decision, ForeignChange
  <2>5. flagged' \in [Centrals -> BOOLEAN] BY <1>4, <2>4 DEF Receive, TypeOK
  <2>6. received' \in [Centrals -> SUBSET Entry] BY <1>4, <2>1 DEF Receive, TypeOK
  <2>7. /\ stored' \in [Centrals -> Write \cup {None}]
        /\ row' \in [Centrals -> Values \cup {None}]
        /\ edited' \in [Centrals -> Times \cup {None}]
    BY <1>4, <2>2, <2>3 DEF Receive, Record, TypeOK
  <2>8. QED BY <1>4, <2>5, <2>6, <2>7 DEF Receive, TypeOK, typingVars
<1>5. ASSUME NEW c \in Centrals, NEW value \in Values, CentralEdit(c, value) PROVE TypeOK'
  BY <1>5 DEF CentralEdit, TypeOK, typingVars
<1>6. CASE UNCHANGED vars BY <1>6 DEF TypeOK, vars, typingVars, centralVars
<1>7. QED BY <1>1, <1>2, <1>3, <1>4, <1>5, <1>6 DEF Next

\* TypeOK: every variable has its type, in particular a Central only ever
\* stores writes, and its row only ever holds marks.
THEOREM TypeCorrect == Spec => []TypeOK
BY InitTyped, TypingStep, PTL DEF Spec

-----------------------------------------------------------------------------
(* Versions, and what a Central has stored *)

\* A station numbers its entries in the order they are typed.
EntriesOrdered ==
  /\ \A e \in typed : e.typedAt <= now /\ e.version <= version[e.station]
  /\ \A e, f \in typed : e.station = f.station =>
       /\ e.version < f.version => e.typedAt <= f.typedAt
       /\ e.version = f.version => e = f

\* What a Central stored restates an entry it received; it stored something
\* when it received anything.
StoredIsReceived ==
  \A c \in Centrals :
    /\ received[c] \subseteq typed
    /\ stored[c] = None => received[c] = {}
    /\ stored[c] # None => \E e \in received[c] : Restates(stored[c], e)

BaseInv == TypeOK /\ EntriesOrdered /\ StoredIsReceived /\ CounterNeedsNoClock

\* The initial state satisfies the base invariant.
LEMMA InitBase == Init => BaseInv
BY InitTyped DEF Init, BaseInv, EntriesOrdered, StoredIsReceived, CounterNeedsNoClock

\* Typing keeps the numbering.
LEMMA TypeEntryOrdered ==
  ASSUME BaseInv, NEW s \in Stations, NEW value \in Values, TypeEntry(s, value)
  PROVE  EntriesOrdered'
<1> DEFINE new == [station |-> s, version |-> version[s] + 1, typedAt |-> now,
                   occurredAt |-> Clock(s, now), value |-> value]
<1>1. typed' = typed \cup {new} /\ now' = now /\ version' = [version EXCEPT ![s] = @ + 1]
  BY DEF TypeEntry
<1>2. version[s] \in Int /\ now \in Int BY PaperAssumption DEF BaseInv, TypeOK, Times
<1>3. \A e \in typed : e.typedAt \in Int /\ e.version \in Int /\ e.station \in Stations
  BY PaperAssumption DEF BaseInv, TypeOK, Entry, Times, Versions
<1>4. new.station = s /\ new.version = version[s] + 1 /\ new.typedAt = now OBVIOUS
<1> HIDE DEF new
<1>5. \A e \in typed : e.typedAt <= now /\ e.version <= version[e.station]
  BY DEF BaseInv, EntriesOrdered
<1>6. version'[s] = version[s] + 1 /\ \A r \in Stations \ {s} : version'[r] = version[r]
  BY <1>1 DEF BaseInv, TypeOK
<1>7. \A e \in typed' : e.typedAt <= now' /\ e.version <= version'[e.station]
  BY <1>1, <1>2, <1>3, <1>4, <1>5, <1>6
<1>8. \A e \in typed : e.station = s => e.version < new.version
  BY <1>2, <1>3, <1>4, <1>5
<1>9. ASSUME NEW e \in typed', NEW f \in typed', e.station = f.station
      PROVE  /\ e.version < f.version => e.typedAt <= f.typedAt
             /\ e.version = f.version => e = f
  <2>1. CASE e \in typed /\ f \in typed BY <1>9, <2>1 DEF BaseInv, EntriesOrdered
  <2>2. CASE e = new /\ f = new BY <1>2, <1>4, <2>2
  <2>3. CASE e = new /\ f \in typed BY <1>2, <1>3, <1>4, <1>8, <1>9, <2>3
  <2>4. CASE e \in typed /\ f = new BY <1>2, <1>3, <1>4, <1>5, <1>8, <1>9, <2>4
  <2>5. QED BY <1>1, <2>1, <2>2, <2>3, <2>4
<1>10. QED BY <1>7, <1>9 DEF EntriesOrdered

\* Which entries a step adds to those a Central received, and what it stores.
LEMMA OthersUntouched ==
  ASSUME TypeOK, NEW c \in Centrals, NEW e \in typed, NEW t \in Times, Receive(c, e, t)
  PROVE  /\ received'[c] = received[c] \cup {e}
         /\ \A d \in Centrals \ {c} : received'[d] = received[d] /\ stored'[d] = stored[d]
         /\ Stores(c, Incoming(e, t)) => stored'[c] = Incoming(e, t)
         /\ typed' = typed /\ version' = version /\ now' = now
         /\ clockError' = clockError /\ fixedAt' = fixedAt
<1>1. \A d \in Centrals \ {c} : stored'[d] = stored[d]
  BY DEF Receive, Record, TypeOK
<1>2. Stores(c, Incoming(e, t)) => stored'[c] = Incoming(e, t) BY DEF Stores, TypeOK
<1>3. QED BY <1>1, <1>2 DEF Receive, TypeOK, typingVars

\* A decision keeps StoredIsReceived.
LEMMA ReceiveStored ==
  ASSUME BaseInv, NEW c \in Centrals, NEW e \in typed, NEW t \in Times, Receive(c, e, t)
  PROVE  StoredIsReceived'
<1> DEFINE w == Incoming(e, t)
<1>1. TypeOK /\ e \in Entry BY DEF BaseInv, TypeOK
<1>2. w \in Write /\ Restates(w, e) /\ w # None
  BY <1>1, IncomingRestates, NoneAssumption DEF Write
<1>3. stored'[c] = w \/ (stored'[c] = stored[c] /\ stored[c] # None)
  BY <1>1, ReceiveCases, OthersUntouched
<1> HIDE DEF w
<1>4. StoredIsReceived!(c)'
  BY <1>1, <1>2, <1>3, OthersUntouched DEF BaseInv, StoredIsReceived
<1>5. ASSUME NEW d \in Centrals \ {c} PROVE StoredIsReceived!(d)'
  BY <1>1, OthersUntouched DEF BaseInv, StoredIsReceived
<1>6. QED BY <1>4, <1>5 DEF StoredIsReceived

\* A decision keeps the newest entry of a station that writes alone.
LEMMA ReceiveCounter ==
  ASSUME BaseInv, NEW c \in Centrals, NEW e \in typed, NEW t \in Times, Receive(c, e, t)
  PROVE  CounterNeedsNoClock'
<1> DEFINE w == Incoming(e, t)
<1>1. TypeOK /\ e \in Entry BY DEF BaseInv, TypeOK
<1>2. w \in Write /\ Restates(w, e) /\ w # None
  BY <1>1, IncomingRestates, NoneAssumption DEF Write
<1>3. \A f \in Entry : f.version \in Int BY PaperAssumption DEF Entry, Versions
<1>4. received[c] \subseteq Entry BY <1>1 DEF TypeOK
<1>5. SUFFICES ASSUME NEW d \in Centrals, NEW s \in Stations,
                      \A f \in received'[d] : f.station = s
               PROVE  \A f \in received'[d] : stored'[d] # None /\ stored'[d].version >= f.version
  BY DEF CounterNeedsNoClock
<1>6. CASE d # c BY <1>1, <1>5, <1>6, OthersUntouched DEF BaseInv, CounterNeedsNoClock
<1>7. CASE d = c
  <2>1. e.station = s /\ \A f \in received[c] : f.station = s
    BY <1>1, <1>5, <1>7, OthersUntouched
  <2>2. \A f \in received[c] : stored[c] # None /\ stored[c].version >= f.version
    BY <2>1 DEF BaseInv, CounterNeedsNoClock
  <2>3. CASE stored[c] = None
    <3>1. received[c] = {} BY <2>3 DEF BaseInv, StoredIsReceived
    <3>2. stored'[c] = w BY <1>1, <2>3, ReceiveCases, OthersUntouched
    <3> HIDE DEF w
    <3>3. received'[c] = {e} BY <1>1, <3>1, OthersUntouched
    <3>4. QED BY <1>1, <1>2, <1>3, <1>7, <3>2, <3>3 DEF Restates
  <2>4. CASE stored[c] # None
    <3>1. stored[c].station = s /\ stored[c].version \in Int
      <4>1. PICK f \in received[c] : Restates(stored[c], f)
        BY <2>4 DEF BaseInv, StoredIsReceived
      <4>2. QED BY <1>3, <1>4, <2>1, <4>1 DEF Restates
    <3>2. \/ e.version > stored[c].version /\ stored'[c] = w
          \/ e.version <= stored[c].version /\ stored'[c] = stored[c]
      BY <1>1, <2>1, <2>4, <3>1, ReceiveCases, OthersUntouched
    <3> HIDE DEF w
    <3>3. received'[c] = received[c] \cup {e} BY <1>1, OthersUntouched
    <3>4. QED BY <1>1, <1>2, <1>3, <1>4, <1>7, <2>2, <2>4, <3>1, <3>2, <3>3 DEF Restates
  <2>5. QED BY <2>3, <2>4
<1>8. QED BY <1>6, <1>7

\* The base invariant is inductive, in every regime of clocks and networks.
LEMMA BaseStep == BaseInv /\ [Next]_vars => BaseInv'
<1> SUFFICES ASSUME BaseInv, [Next]_vars PROVE BaseInv' OBVIOUS
<1>1. TypeOK' BY TypingStep DEF BaseInv
<1> SUFFICES (EntriesOrdered /\ StoredIsReceived /\ CounterNeedsNoClock)'
  BY <1>1 DEF BaseInv
<1>2. CASE Tick
  <2>1. \A e \in typed : e.typedAt \in Int BY PaperAssumption DEF BaseInv, TypeOK, Entry, Times
  <2>2. now \in Int /\ now' = now + 1 BY <1>2, PaperAssumption DEF Tick, BaseInv, TypeOK, Times
  <2>3. UNCHANGED <<typed, version, received, stored>>
    BY <1>2 DEF Tick, typingVars, centralVars
  <2>4. EntriesOrdered' BY <2>1, <2>2, <2>3 DEF BaseInv, EntriesOrdered
  <2>5. QED BY <2>3, <2>4 DEF BaseInv, StoredIsReceived, CounterNeedsNoClock
<1>3. ASSUME NEW s \in Stations, FixClock(s)
      PROVE  (EntriesOrdered /\ StoredIsReceived /\ CounterNeedsNoClock)'
  BY <1>3 DEF FixClock, centralVars, BaseInv, EntriesOrdered, StoredIsReceived,
              CounterNeedsNoClock
<1>4. ASSUME NEW s \in Stations, NEW value \in Values, TypeEntry(s, value)
      PROVE  (EntriesOrdered /\ StoredIsReceived /\ CounterNeedsNoClock)'
  <2>1. typed \subseteq typed' /\ UNCHANGED <<received, stored>>
    BY <1>4 DEF TypeEntry, centralVars
  <2>2. StoredIsReceived' /\ CounterNeedsNoClock'
    BY <2>1 DEF BaseInv, StoredIsReceived, CounterNeedsNoClock
  <2>3. QED BY <1>4, <2>2, TypeEntryOrdered
<1>5. ASSUME NEW c \in Centrals, NEW e \in typed, NEW t \in Times, Receive(c, e, t)
      PROVE  (EntriesOrdered /\ StoredIsReceived /\ CounterNeedsNoClock)'
  <2>1. EntriesOrdered'
    BY <1>5 DEF Receive, typingVars, BaseInv, EntriesOrdered
  <2>2. QED BY <1>5, <2>1, ReceiveStored, ReceiveCounter
<1>6. ASSUME NEW c \in Centrals, NEW value \in Values, CentralEdit(c, value)
      PROVE  (EntriesOrdered /\ StoredIsReceived /\ CounterNeedsNoClock)'
  BY <1>6 DEF CentralEdit, typingVars, BaseInv, EntriesOrdered, StoredIsReceived,
              CounterNeedsNoClock
<1>7. CASE UNCHANGED vars
  BY <1>7 DEF vars, typingVars, centralVars, BaseInv, EntriesOrdered, StoredIsReceived,
              CounterNeedsNoClock
<1>8. QED BY <1>2, <1>3, <1>4, <1>5, <1>6, <1>7 DEF Next

\* CounterNeedsNoClock: while one station writes alone, its newest entry
\* received is the one stored, whatever its clock and the network do.
THEOREM OneStationNeedsNoClock == Spec => []CounterNeedsNoClock
<1>1. BaseInv => CounterNeedsNoClock BY DEF BaseInv
<1>2. QED BY <1>1, InitBase, BaseStep, PTL DEF Spec

-----------------------------------------------------------------------------
(* Clocks that nobody touches, and a network that takes no time *)

\* How far a Central still misreads the clock of s after the correction.
Drift(s) == IF s \in TimedStations THEN 0 ELSE clockError[s]

\* Every entry carries its station's one clock error, and so does, corrected,
\* every stored write.
ClocksKept ==
  /\ \A s \in Stations : fixedAt[s] = Never
  /\ \A e \in typed : e.occurredAt = e.typedAt + clockError[e.station]
  /\ \A c \in Centrals : stored[c] # None =>
       stored[c].occurredAt = stored[c].typedAt + Drift(stored[c].station)

\* No entry a Central received is later, on its clock, than the one it stored.
LatestOnCentralsClock ==
  \A c \in Centrals : \A e \in received[c] :
    stored[c] # None /\ e.typedAt + Drift(e.station) <= stored[c].occurredAt

ClockInv == BaseInv /\ ClocksKept /\ LatestOnCentralsClock /\ NoResurrection

\* The initial state satisfies the clock invariant.
LEMMA InitClock == Init => ClockInv
BY InitBase DEF Init, ClockInv, ClocksKept, LatestOnCentralsClock, NoResurrection

\* An untouched clock is ahead by its one error.
LEMMA ClockAhead ==
  ASSUME TypeOK, NEW s \in Stations, fixedAt[s] = Never
  PROVE  Clock(s, now) = now + clockError[s]
BY PaperAssumption DEF Clock, TypeOK, Times, Never

\* Sent and processed at once, an entry is restated as typed, up to Drift.
LEMMA RestatedExactly ==
  ASSUME ClockInv, MaxTransit = 0,
         NEW c \in Centrals, NEW e \in typed, NEW t \in Times, Receive(c, e, t)
  PROVE  Incoming(e, t).occurredAt = e.typedAt + Drift(e.station)
<1>1. TypeOK /\ e \in Entry BY DEF ClockInv, BaseInv, TypeOK
<1>2. now \in Int /\ t \in Int BY <1>1, PaperAssumption DEF TypeOK, Times
<1>3. t = now BY <1>2 DEF Receive
<1>4. e.station \in Stations /\ e.typedAt \in Int BY <1>1, PaperAssumption DEF Entry, Times
<1>5. clockError[e.station] \in Int BY <1>1, <1>4, PaperAssumption DEF TypeOK
<1>6. e.occurredAt = e.typedAt + clockError[e.station] BY DEF ClockInv, ClocksKept
<1>7. Clock(e.station, t) = now + clockError[e.station]
  BY <1>1, <1>3, <1>4, ClockAhead DEF ClockInv, ClocksKept
<1>8. /\ e.station \in TimedStations =>
           Incoming(e, t).occurredAt = e.occurredAt + (now - Clock(e.station, t))
      /\ e.station \notin TimedStations => Incoming(e, t).occurredAt = e.occurredAt
  BY <1>1, IncomingRestates
<1>9. QED BY <1>2, <1>4, <1>5, <1>6, <1>7, <1>8 DEF Drift

\* A decision under kept clocks.
LEMMA ReceiveClock ==
  ASSUME ClockInv, MaxTransit = 0,
         NEW c \in Centrals, NEW e \in typed, NEW t \in Times, Receive(c, e, t)
  PROVE  (ClocksKept /\ LatestOnCentralsClock /\ NoResurrection)'
<1> DEFINE w == Incoming(e, t)
<1>1. TypeOK /\ BaseInv /\ e \in Entry BY DEF ClockInv, BaseInv, TypeOK
<1>2. w \in Write /\ Restates(w, e) /\ w # None
  BY <1>1, IncomingRestates, NoneAssumption DEF Write
<1>3. w.occurredAt = e.typedAt + Drift(e.station) BY RestatedExactly
<1>4. \A f \in Entry : /\ f.version \in Int /\ f.typedAt \in Int
                       /\ f.station \in Stations /\ f.occurredAt \in Int
                       /\ Drift(f.station) \in Int
  <2>1. \A s \in Stations : clockError[s] \in Int BY <1>1, PaperAssumption DEF TypeOK
  <2>2. \A s \in Stations : Drift(s) \in Int BY <2>1 DEF Drift
  <2>3. QED BY <2>2, PaperAssumption DEF Entry, Versions, Times
<1>5. received[c] \subseteq typed /\ typed \subseteq Entry
  BY <1>1 DEF BaseInv, StoredIsReceived, TypeOK
<1>6. /\ received'[c] = received[c] \cup {e}
      /\ \A d \in Centrals \ {c} : received'[d] = received[d] /\ stored'[d] = stored[d]
      /\ Stores(c, w) => stored'[c] = w
      /\ typed' = typed /\ clockError' = clockError /\ fixedAt' = fixedAt
  BY <1>1, OthersUntouched
<1>7. \A s : Drift(s)' = Drift(s) BY <1>6 DEF Drift
<1>8. stored[c] # None => stored[c] \in Entry BY <1>1 DEF TypeOK, Write
<1>9. \/ stored[c] = None /\ stored'[c] = w
      \/ /\ stored[c] # None /\ stored[c].station = e.station
         /\ \/ e.version > stored[c].version /\ stored'[c] = w
            \/ e.version <= stored[c].version /\ stored'[c] = stored[c]
      \/ /\ stored[c] # None /\ stored[c].station # e.station
         /\ \/ w.occurredAt > stored[c].occurredAt /\ stored'[c] = w
            \/ w.occurredAt <= stored[c].occurredAt /\ stored'[c] = stored[c]
  BY <1>1, <1>6, ReceiveCases
<1> HIDE DEF w
<1>10. \A f \in received[c] :
          /\ stored[c] # None
          /\ f.typedAt + Drift(f.station) <= stored[c].occurredAt
          /\ stored[c].station = f.station => stored[c].version >= f.version
  BY DEF ClockInv, LatestOnCentralsClock, NoResurrection
<1>11. \A f, g \in typed : f.station = g.station =>
          /\ f.version < g.version => f.typedAt <= g.typedAt
          /\ f.version = g.version => f = g
  BY <1>1 DEF BaseInv, EntriesOrdered
<1>12. ASSUME stored[c] # None
       PROVE  /\ stored[c].occurredAt = stored[c].typedAt + Drift(stored[c].station)
              /\ \E g \in received[c] : Restates(stored[c], g)
  BY <1>1, <1>12 DEF ClockInv, ClocksKept, BaseInv, StoredIsReceived
<1>13. ASSUME stored[c] # None, stored[c].station = e.station
       PROVE  /\ e.version > stored[c].version => e.typedAt >= stored[c].typedAt
              /\ e.version <= stored[c].version => e.typedAt <= stored[c].typedAt
  <2>1. PICK g \in received[c] : Restates(stored[c], g) BY <1>12, <1>13
  <2>2. g \in typed /\ g.station = e.station /\ g.version = stored[c].version
        /\ g.typedAt = stored[c].typedAt
    BY <1>5, <1>13, <2>1 DEF Restates
  <2>3. g.version \in Int /\ g.typedAt \in Int /\ e.version \in Int /\ e.typedAt \in Int
    BY <1>1, <1>4, <1>5, <2>2
  <2>4. /\ g.version < e.version => g.typedAt <= e.typedAt
        /\ e.version < g.version => e.typedAt <= g.typedAt
        /\ e.version = g.version => e = g
    BY <1>11, <2>2
  <2>5. e.version > stored[c].version => e.typedAt >= stored[c].typedAt
    BY <2>2, <2>3, <2>4
  <2>6. e.version <= stored[c].version => e.typedAt <= stored[c].typedAt
    <3>1. CASE e.version < g.version BY <2>2, <2>3, <2>4, <3>1
    <3>2. CASE e.version = g.version BY <2>2, <2>3, <2>4, <3>2
    <3>3. CASE e.version > g.version BY <2>2, <2>3, <3>3
    <3>4. QED BY <2>3, <3>1, <3>2, <3>3
  <2>7. QED BY <2>5, <2>6
<1>14. ClocksKept'
  <2>1. stored'[c] # None =>
          stored'[c].occurredAt = stored'[c].typedAt + Drift(stored'[c].station)
    BY <1>2, <1>3, <1>9, <1>12 DEF Restates
  <2>2. \A d \in Centrals : stored'[d] # None =>
          stored'[d].occurredAt = stored'[d].typedAt + Drift(stored'[d].station)
    BY <1>6, <2>1 DEF ClockInv, ClocksKept
  <2>3. QED BY <1>6, <2>2 DEF ClockInv, ClocksKept, Drift
<1>15. ASSUME NEW f \in received[c] \cup {e}
       PROVE  /\ stored'[c] # None
              /\ f.typedAt + Drift(f.station) <= stored'[c].occurredAt
              /\ stored'[c].station = f.station => stored'[c].version >= f.version
  <2>1. f \in Entry BY <1>1, <1>5
  <2>2. f.typedAt \in Int /\ Drift(f.station) \in Int /\ f.version \in Int
    BY <1>4, <2>1
  <2>3. e.typedAt \in Int /\ Drift(e.station) \in Int /\ e.version \in Int BY <1>1, <1>4
  <2>4. CASE stored'[c] = w /\ f = e BY <1>2, <1>3, <2>3, <2>4 DEF Restates
  <2>5. CASE stored'[c] = w /\ f \in received[c]
    <3>1. stored[c] # None BY <1>10, <2>5
    <3>2. stored[c] \in Entry BY <1>8, <3>1
    <3>3. /\ stored[c].typedAt \in Int /\ stored[c].occurredAt \in Int
          /\ stored[c].version \in Int
      BY <1>4, <3>2
    <3>4. CASE stored[c].station = e.station /\ e.version > stored[c].version
      <4>1. e.typedAt >= stored[c].typedAt BY <1>13, <3>1, <3>4
      <4>2. stored[c].occurredAt <= e.typedAt + Drift(e.station)
        BY <1>12, <2>3, <3>1, <3>3, <3>4, <4>1
      <4>3. f.typedAt + Drift(f.station) <= w.occurredAt
        BY <1>3, <1>10, <2>2, <2>3, <2>5, <3>3, <4>2
      <4>4. QED BY <1>2, <1>10, <2>2, <2>3, <2>5, <3>3, <3>4, <4>3 DEF Restates
    <3>5. CASE stored[c].station # e.station /\ w.occurredAt > stored[c].occurredAt
      <4>1. f.typedAt + Drift(f.station) < e.typedAt + Drift(e.station)
        BY <1>3, <1>10, <2>2, <2>3, <2>5, <3>3, <3>5
      <4>2. f.station = e.station => f.version <= e.version
        <5>1. f.station = e.station => f.typedAt < e.typedAt BY <2>2, <2>3, <4>1
        <5>2. f \in typed BY <1>5, <2>5
        <5>3. QED BY <1>11, <2>2, <2>3, <5>1, <5>2
      <4>3. QED BY <1>2, <1>3, <2>2, <2>3, <2>5, <4>1, <4>2 DEF Restates
    <3>6. CASE stored[c].station = e.station /\ ~(e.version > stored[c].version)
      \* Then nothing was stored: w is the write that was there already.
      <4>1. stored'[c] = stored[c] BY <1>9, <2>3, <3>1, <3>3, <3>6
      <4>2. QED BY <1>10, <2>5, <4>1
    <3>7. CASE stored[c].station # e.station /\ ~(w.occurredAt > stored[c].occurredAt)
      <4>1. stored'[c] = stored[c] BY <1>9, <3>1, <3>7
      <4>2. QED BY <1>10, <2>5, <4>1
    <3>8. QED BY <3>4, <3>5, <3>6, <3>7
  <2>6. CASE stored[c] # None /\ stored'[c] = stored[c] /\ f \in received[c]
    BY <1>10, <2>6
  <2>7. CASE stored[c] # None /\ stored'[c] = stored[c] /\ f = e /\ stored'[c] # w
    <3>1. stored[c].typedAt \in Int /\ stored[c].version \in Int BY <1>4, <1>8, <2>7
    <3>2. CASE stored[c].station = e.station
      <4>1. e.version <= stored[c].version BY <1>9, <2>7, <3>2
      <4>2. e.typedAt <= stored[c].typedAt BY <1>13, <2>7, <3>2, <4>1
      <4>3. QED BY <1>12, <2>3, <2>7, <3>1, <3>2, <4>1, <4>2
    <3>3. CASE stored[c].station # e.station
      BY <1>3, <1>9, <2>7, <3>3
    <3>4. QED BY <3>2, <3>3
  <2>8. QED BY <1>9, <1>15, <2>4, <2>5, <2>6, <2>7
<1>16. LatestOnCentralsClock'
  <2>1. \A d \in Centrals : \A f \in received'[d] :
          stored'[d] # None /\ f.typedAt + Drift(f.station) <= stored'[d].occurredAt
    BY <1>6, <1>15 DEF ClockInv, LatestOnCentralsClock
  <2>2. QED BY <1>6, <2>1 DEF LatestOnCentralsClock, Drift
<1>17. NoResurrection' BY <1>6, <1>15 DEF ClockInv, NoResurrection
<1>18. QED BY <1>14, <1>16, <1>17

\* The clock invariant is inductive while no clock is fixed and requests take
\* no time.
LEMMA ClockStep ==
  ASSUME MaxTransit = 0, ClocksGetFixed = FALSE, ClockInv, [Next]_vars
  PROVE  ClockInv'
<1>1. BaseInv /\ BaseInv' BY BaseStep DEF ClockInv
<1> SUFFICES (ClocksKept /\ LatestOnCentralsClock /\ NoResurrection)' BY <1>1 DEF ClockInv
<1>2. CASE Tick
  BY <1>2 DEF Tick, typingVars, centralVars, ClockInv, ClocksKept, LatestOnCentralsClock,
              NoResurrection, Drift
<1>3. ASSUME NEW s \in Stations, FixClock(s) PROVE FALSE BY <1>3 DEF FixClock
<1>4. ASSUME NEW s \in Stations, NEW value \in Values, TypeEntry(s, value)
      PROVE  (ClocksKept /\ LatestOnCentralsClock /\ NoResurrection)'
  <2> DEFINE new == [station |-> s, version |-> version[s] + 1, typedAt |-> now,
                     occurredAt |-> Clock(s, now), value |-> value]
  <2>1. typed' = typed \cup {new} /\ UNCHANGED <<clockError, fixedAt, stored, received>>
    BY <1>4 DEF TypeEntry, centralVars
  <2>2. new.occurredAt = new.typedAt + clockError[new.station]
    BY <1>1, ClockAhead DEF ClockInv, ClocksKept, BaseInv
  <2> HIDE DEF new
  <2>3. QED
    BY <2>1, <2>2 DEF ClockInv, ClocksKept, LatestOnCentralsClock, NoResurrection, Drift
<1>5. ASSUME NEW c \in Centrals, NEW e \in typed, NEW t \in Times, Receive(c, e, t)
      PROVE  (ClocksKept /\ LatestOnCentralsClock /\ NoResurrection)'
  BY <1>5, ReceiveClock
<1>6. ASSUME NEW c \in Centrals, NEW value \in Values, CentralEdit(c, value)
      PROVE  (ClocksKept /\ LatestOnCentralsClock /\ NoResurrection)'
  BY <1>6 DEF CentralEdit, typingVars, ClockInv, ClocksKept, LatestOnCentralsClock,
              NoResurrection, Drift
<1>7. CASE UNCHANGED vars
  BY <1>7 DEF vars, typingVars, centralVars, ClockInv, ClocksKept, LatestOnCentralsClock,
              NoResurrection, Drift
<1>8. QED BY <1>2, <1>3, <1>4, <1>5, <1>6, <1>7 DEF Next

\* NoResurrection: with clocks that are wrong but left alone, and requests
\* that take no time, a mark that its own station replaced never comes back,
\* whether or not the stations send their time.
THEOREM ReplacedMarksStayReplaced ==
  ASSUME MaxTransit = 0, ClocksGetFixed = FALSE
  PROVE  Spec => []NoResurrection
<1>1. ClockInv /\ [Next]_vars => ClockInv' BY ClockStep
<1>2. ClockInv => NoResurrection BY DEF ClockInv
<1>3. QED BY <1>1, <1>2, InitClock, PTL DEF Spec

\* With station time sent by all, time on a Central's clock is true time.
LEMMA TrueTime ==
  ASSUME TimedStations = Stations, ClockInv
  PROVE  LatestAuthorshipWins
<1> SUFFICES ASSUME NEW c \in Centrals, NEW e \in received[c]
             PROVE  stored[c] # None /\ stored[c].typedAt >= e.typedAt
  BY DEF LatestAuthorshipWins
<1>1. stored[c] # None /\ e.typedAt + Drift(e.station) <= stored[c].occurredAt
  BY DEF ClockInv, LatestOnCentralsClock
<1>2. stored[c] \in Entry /\ e \in Entry
  BY <1>1 DEF ClockInv, BaseInv, TypeOK, Write
<1>3. e.station \in Stations /\ stored[c].station \in Stations
      /\ e.typedAt \in Int /\ stored[c].typedAt \in Int
  BY <1>2, PaperAssumption DEF Entry, Times
<1>4. Drift(e.station) = 0 /\ Drift(stored[c].station) = 0 BY <1>3 DEF Drift
<1>5. stored[c].occurredAt = stored[c].typedAt + Drift(stored[c].station)
  BY <1>1 DEF ClockInv, ClocksKept
<1>6. QED BY <1>1, <1>3, <1>4, <1>5

\* LatestAuthorshipWins: when moreover every station sends its time, what a
\* Central stores was truly typed last among all it received.
THEOREM LaterAuthorshipStored ==
  ASSUME TimedStations = Stations, MaxTransit = 0, ClocksGetFixed = FALSE
  PROVE  Spec => []LatestAuthorshipWins
<1>1. ClockInv /\ [Next]_vars => ClockInv' BY ClockStep
<1>2. ClockInv => LatestAuthorshipWins BY TrueTime
<1>3. QED BY <1>1, <1>2, InitClock, PTL DEF Spec

\* Two Centrals with the same entries: the stored writes restate entries of one
\* instant, and the same one if they are of one station.
LEMMA SameEntryStored ==
  ASSUME TimedStations = Stations, ClockInv
  PROVE  CentralsAgree
<1> SUFFICES ASSUME NEW c \in Centrals, NEW d \in Centrals,
                    received[c] = received[d], received[c] # {}
             PROVE  /\ stored[c].typedAt = stored[d].typedAt
                    /\ stored[c].station = stored[d].station
                         => stored[c].version = stored[d].version
  BY DEF CentralsAgree
<1>1. LatestAuthorshipWins BY TrueTime
<1>2. stored[c] # None /\ stored[d] # None BY <1>1 DEF LatestAuthorshipWins
<1>3. PICK x \in received[c] : Restates(stored[c], x)
  BY <1>2 DEF ClockInv, BaseInv, StoredIsReceived
<1>4. PICK y \in received[c] : Restates(stored[d], y)
  BY <1>2 DEF ClockInv, BaseInv, StoredIsReceived
<1>5. x \in Entry /\ y \in Entry BY DEF ClockInv, BaseInv, TypeOK
<1>6. x.typedAt \in Int /\ y.typedAt \in Int /\ x.version \in Int /\ y.version \in Int
  BY <1>5, PaperAssumption DEF Entry, Times, Versions
<1>7. x.typedAt >= y.typedAt /\ y.typedAt >= x.typedAt
  BY <1>1, <1>3, <1>4 DEF LatestAuthorshipWins, Restates
<1>8. x.station = y.station => x.version >= y.version /\ y.version >= x.version
  BY <1>3, <1>4 DEF ClockInv, NoResurrection, Restates
<1>9. QED BY <1>3, <1>4, <1>6, <1>7, <1>8 DEF Restates

\* CentralsAgree: two Centrals that received the same entries, in any order and any
\* number of times, store the same one, or two that tied for the last instant.
THEOREM OrderOfArrivalIsIrrelevant ==
  ASSUME TimedStations = Stations, MaxTransit = 0, ClocksGetFixed = FALSE
  PROVE  Spec => []CentralsAgree
<1>1. ClockInv /\ [Next]_vars => ClockInv' BY ClockStep
<1>2. ClockInv => CentralsAgree BY SameEntryStored
<1>3. QED BY <1>1, <1>2, InitClock, PTL DEF Spec

-----------------------------------------------------------------------------
(* Corrections *)

\* A row that was edited holds a mark.
EditedHasMark == \A c \in Centrals : edited[c] # None => row[c] # None

EditInv == TypeOK /\ EditedHasMark

\* The edit invariant is inductive.
LEMMA EditStep == EditInv /\ [Next]_vars => EditInv'
<1> SUFFICES ASSUME EditInv, [Next]_vars PROVE EditedHasMark'
  BY TypingStep DEF EditInv
<1>1. CASE Tick BY <1>1 DEF Tick, centralVars, EditInv, EditedHasMark
<1>2. ASSUME NEW s \in Stations, FixClock(s) PROVE EditedHasMark'
  BY <1>2 DEF FixClock, centralVars, EditInv, EditedHasMark
<1>3. ASSUME NEW s \in Stations, NEW value \in Values, TypeEntry(s, value)
      PROVE  EditedHasMark'
  BY <1>3 DEF TypeEntry, centralVars, EditInv, EditedHasMark
<1>4. ASSUME NEW c \in Centrals, NEW e \in typed, NEW t \in Times, Receive(c, e, t)
      PROVE  EditedHasMark'
  BY <1>4 DEF Receive, Record, EditInv, EditedHasMark, TypeOK
<1>5. ASSUME NEW c \in Centrals, NEW value \in Values, CentralEdit(c, value)
      PROVE  EditedHasMark'
  <2>1. value # None BY PaperAssumption
  <2>2. QED BY <1>5, <2>1 DEF CentralEdit, EditInv, EditedHasMark, TypeOK
<1>6. CASE UNCHANGED vars BY <1>6 DEF vars, centralVars, EditInv, EditedHasMark
<1>7. QED BY <1>1, <1>2, <1>3, <1>4, <1>5, <1>6 DEF Next

\* The step that replaces a correction says so.
CorrectionFlagged(c) ==
  /\ edited[c] # None /\ edited'[c] = None
  /\ row'[c] # row[c]
  /\ stored[c] = None \/ row[c] # stored[c].value
  => flagged'[c]

\* A decision that replaces a correction flags it.
LEMMA ReceiveFlags ==
  ASSUME EditInv, NEW c \in Centrals, NEW e \in typed, NEW t \in Times, Receive(c, e, t),
         NEW d \in Centrals
  PROVE  CorrectionFlagged(d)
<1> DEFINE w == Incoming(e, t)
           decision == Decide(w, stored[c], row[c])
<1>1. TypeOK BY DEF EditInv
<1>2. CASE d # c BY <1>1, <1>2 DEF Receive, Record, CorrectionFlagged, TypeOK
<1>3. CASE d = c
  <2> SUFFICES ASSUME edited[c] # None, edited'[c] = None, row'[c] # row[c],
                      stored[c] = None \/ row[c] # stored[c].value
               PROVE  flagged'[c]
    BY <1>3 DEF CorrectionFlagged
  <2>1. row[c] # None BY DEF EditInv, EditedHasMark
  <2>2. flagged'[c] = decision.foreign BY <1>1 DEF Receive, TypeOK
  <2>3. decision.resolution = "APPLY" /\ row'[c] = w.value
    BY <1>1 DEF Receive, Record, TypeOK
  <2>4. CASE stored[c] = None BY <2>1, <2>2, <2>3, <2>4 DEF Decide, Decision
  <2>5. CASE stored[c] # None
    <3>1. stored[c].value \in Values BY <1>1, <2>5 DEF TypeOK, Write, Entry
    <3>2. stored[c].value # None BY <3>1, PaperAssumption
    <3>3. ForeignChange(stored[c], row[c]) BY <2>1, <2>5, <3>2 DEF ForeignChange
    <3>4. decision.foreign = TRUE BY <2>3, <2>5, <3>3 DEF Decide, Decision
    <3>5. QED BY <2>2, <3>4
  <2>6. QED BY <2>4, <2>5
<1>4. QED BY <1>2, <1>3

\* CorrectionsAreFlagged: no entry ever replaces a correction made outside
\* sync without saying so, whatever the clocks and the network do.
THEOREM NoSilentOverwrite == Spec => CorrectionsAreFlagged
<1>1. Init => EditInv BY InitTyped DEF Init, EditInv, EditedHasMark
<1>2. EditInv /\ [Next]_vars => [\A c \in Centrals : CorrectionFlagged(c)]_vars
  <2> SUFFICES ASSUME EditInv, Next, NEW d \in Centrals PROVE CorrectionFlagged(d)
    OBVIOUS
  <2>1. CASE Tick BY <2>1 DEF Tick, centralVars, CorrectionFlagged
  <2>2. ASSUME NEW s \in Stations, FixClock(s) PROVE CorrectionFlagged(d)
    BY <2>2 DEF FixClock, centralVars, CorrectionFlagged
  <2>3. ASSUME NEW s \in Stations, NEW value \in Values, TypeEntry(s, value)
        PROVE  CorrectionFlagged(d)
    BY <2>3 DEF TypeEntry, centralVars, CorrectionFlagged
  <2>4. ASSUME NEW c \in Centrals, NEW e \in typed, NEW t \in Times, Receive(c, e, t)
        PROVE  CorrectionFlagged(d)
    BY <2>4, ReceiveFlags
  <2>5. ASSUME NEW c \in Centrals, NEW value \in Values, CentralEdit(c, value)
        PROVE  CorrectionFlagged(d)
    <3>1. now # None BY PaperAssumption, NoneAssumption DEF EditInv, TypeOK, Times
    <3>2. QED BY <2>5, <3>1 DEF CentralEdit, CorrectionFlagged, EditInv, TypeOK
  <2>6. QED BY <2>1, <2>2, <2>3, <2>4, <2>5 DEF Next
<1>3. QED BY <1>1, <1>2, EditStep, PTL DEF Spec, CorrectionsAreFlagged, CorrectionFlagged
=============================================================================
