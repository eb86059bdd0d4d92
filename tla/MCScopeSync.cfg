\* Four events about one candidate, in requests of at most two.
SPECIFICATION FairSyncSpec
CONSTANTS
  None = None
  Junk = Junk
  NotANumber = NotANumber
  Students = {s1}
  Papers <- OnePaper
  Entries <- TotalsOnly
  IncidentSubjects = {None}
  MaxBatch = 2
  MaxEvents = 4
  MaxFailures = 1
  MaxToggles = 1
INVARIANTS
  NothingTypedIsRejected
  CentralIsThePast
  CentralFinalizedIsComplete
PROPERTY EventuallySame
CHECK_DEADLOCK FALSE
