SPECIFICATION Spec
CONSTANTS
  Stations = {geita, mwanza}
  TimedStations = {geita, mwanza}
  Centrals = {c1, c2}
  Values = {v1, v2}
  Errors <- TwoErrors
  MaxVersion = 2
  MaxTime = 2
  MaxTransit = 0
  MaxEdits = 0
  ClocksGetFixed = FALSE
  Redelivery = TRUE
  None = None
SYMMETRY Symmetry
CHECK_DEADLOCK FALSE
INVARIANTS
  TypeOK
  LatestAuthorshipWins
  CentralsAgree
  NoResurrection
