SPECIFICATION Spec
CONSTANTS
  Stations = {geita, mwanza}
  TimedStations = {geita, mwanza}
  Centrals = {c1}
  Values = {v1, v2}
  Errors <- NoError
  MaxVersion = 2
  MaxTime = 2
  MaxTransit = 0
  MaxEdits = 1
  ClocksGetFixed = FALSE
  Redelivery = FALSE
  None = None
SYMMETRY Symmetry
CHECK_DEADLOCK FALSE
PROPERTIES
  CorrectionSurvivesOlderEntry
