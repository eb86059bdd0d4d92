------------------------------ MODULE Conflict -------------------------------
(***************************************************************************)
(* The write-conflict rules of central/conflict.py: how a Central restates *)
(* a station's timestamp on its own clock, and what it does with an        *)
(* incoming write given the one it stored.  Pure, like the code: instants  *)
(* are integers, a value stands for its hash.                              *)
(***************************************************************************)
EXTENDS Integers

CONSTANT None     \* no stored write, no station_code, no hash, no station time

\* How far a station's clock is behind this Central's; no correction for a
\* station that does not say what time it has.
SkewSeconds(stationTime, serverTime) ==
  IF stationTime = None THEN 0 ELSE serverTime - stationTime

\* Mistake: the skew is taken off instead of added.
NormalizeBackwards(occurredAt, skew) == occurredAt - skew

\* A station-clock instant on Central's clock.
NormalizeOccurredAt(occurredAt, skew) == occurredAt + skew

Decision(resolution, foreign) == [resolution |-> resolution, foreign |-> foreign]

\* Mistake: a station's own entries are ordered by time too.
SameStationNever(incoming, stored) == FALSE

SameStation(incoming, stored) ==
  stored.station # None /\ stored.station = incoming.station

\* Mistake: only what was there before the first synced write is foreign.
ForeignChangeNever(stored, current) == FALSE

\* The row no longer holds what sync last wrote.
ForeignChange(stored, current) ==
  stored.value # None /\ current # None /\ current # stored.value

\* Mistake: whatever arrives last replaces what is stored.
ByVersionLastArrival(incoming, stored) ==
  IF incoming.version = stored.version /\ incoming.value = stored.value THEN "NO_OP" ELSE "APPLY"

\* One station: its counter decides.
ByVersion(incoming, stored) ==
  CASE incoming.version > stored.version -> "APPLY"
    [] incoming.version = stored.version /\ incoming.value = stored.value -> "NO_OP"
    [] OTHER -> "STALE"

\* Two writers: the later authorship wins; at the same instant the stored
\* write stays.
ByTime(incoming, stored) ==
  CASE incoming.occurredAt > stored.occurredAt -> "APPLY"
    [] incoming.occurredAt = stored.occurredAt /\ incoming.value = stored.value -> "NO_OP"
    [] OTHER -> "STALE"

\* decide: resolve one incoming write against what is stored, given the value
\* the row holds right now.
Decide(incoming, stored, current) ==
  IF stored = None
  THEN Decision("APPLY", current # None /\ current # incoming.value)
  ELSE LET resolution == IF SameStation(incoming, stored)
                         THEN ByVersion(incoming, stored)
                         ELSE ByTime(incoming, stored)
       IN Decision(resolution, resolution = "APPLY" /\ ForeignChange(stored, current))
=============================================================================
