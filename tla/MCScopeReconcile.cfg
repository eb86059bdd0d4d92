\* Two students, two changes on either side, one reinstallation.
SPECIFICATION Spec
CONSTANTS
  None = None
  Students = {1, 2}
  Entries <- Filled
  Scale = 2
  MaxChanges = 2
  MaxReinstalls = 1
INVARIANTS
  CountsAreOfMarks
PROPERTIES
  VerdictIsTrue
  RestoredMatches
  EventuallyMatched
