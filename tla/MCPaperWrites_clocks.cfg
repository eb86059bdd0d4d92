SPECIFICATION Spec
CONSTANTS
  Stations = {geita, mwanza}
  TimedStations = {geita}
  Centrals = {c1}
  Values = {v1, v2}
  Errors <- FastClock
  MaxVersion = 2
  MaxTime = 1
  MaxTransit = 1
  MaxEdits = 1
  ClocksGetFixed = TRUE
  Redelivery = TRUE
  None = None
SYMMETRY ValueSymmetry
CHECK_DEADLOCK FALSE
INVARIANTS
  CounterNeedsNoClock
PROPERTIES
  CorrectionsAreFlagged
