\* The data is corrected and enlarged while it is sent, and a session expires.
SPECIFICATION Spec
CONSTANTS
  None = None
  Versions <- AllVersions
  MaxRows = 4
  MaxInFlight = 2
  MaxExpiries = 1
INVARIANTS
  IngestedIsOneState
  SameDataVerifies
  MismatchNamesAChunk
  ReferencesFirst
PROPERTIES
  EventuallyIngested
CHECK_DEADLOCK FALSE
