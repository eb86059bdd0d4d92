SPECIFICATION FairSpec
CONSTANTS
  EventIds = {e1, e2}
  Values = {v1}
  Sessions = {s1, s2}
  LegacyIds = {}
  MaxBatch = 2
  MaxFailures = 1
  MaxReissues = 0
  MaxToggles = 1
  NoHash = NoHash
  NoReceipt = NoReceipt
  None = None
PROPERTY EverythingSettles
