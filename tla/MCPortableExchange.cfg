\* A batch for one of two Centrals; an envelope lost, repeated or cut off; the
\* clock of the station behind, right, and ahead.
SPECIFICATION FairSpec
CONSTANTS
  core = core
  sis = sis
  e1 = e1
  e2 = e2
  None = None
  Station = Station
  Centrals = {core, sis}
  Events = {e1, e2}
  Home <- AllForCore
  Errors <- ClockErrors
  Ttl = 2
  MaxSkew = 1
  MaxTime = 3
  MaxFailures = 1
  MaxNonces = 6
INVARIANTS
  ProcessedOnce
  JudgedAtHome
  SettledIsJudged
PROPERTIES
  OpenedFresh
  EverythingSettles
CHECK_DEADLOCK FALSE
