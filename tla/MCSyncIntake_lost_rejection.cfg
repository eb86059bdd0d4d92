SPECIFICATION Spec
CONSTANTS
  EventIds = {e1}
  Values = {v1}
  Sessions = {s1}
  LegacyIds = {}
  MaxBatch = 1
  MaxFailures = 1
  MaxReissues = 0
  MaxToggles = 0
  NoHash = NoHash
  NoReceipt = NoReceipt
  None = None
INVARIANT AcceptedMeansLanded
