\* Two students, marks by total and by item, good and bad configurations.
SPECIFICATION Spec
CONSTANTS
  None = None
  Junk = Junk
  NotANumber = NotANumber
  s1 = s1
  s2 = s2
  Students = {s1, s2}
  Papers <- AllPapers
  Entries <- AllEntries
SYMMETRY Symmetry
INVARIANTS
  StoredMarksAreExplicit
  TotalIsTheBestChoice
  FinalizedIsComplete
PROPERTIES
  MarksNeedTheReport
CHECK_DEADLOCK FALSE
