SPECIFICATION Spec
CONSTANTS
  EventIds = {e1, e2}
  Values = {v1, v2}
  Sessions = {s1, s2}
  LegacyIds = {e2}
  MaxBatch = 2
  MaxFailures = 2
  MaxReissues = 1
  MaxToggles = 1
  NoHash = NoHash
  NoReceipt = NoReceipt
  None = None
SYMMETRY RequestSymmetry
INVARIANTS
  TypeOK
  AppliedAtMostOnce
  ReceiptMatchesEffect
  AnswerIsOnRecord
  RefusalLeavesNoTrace
  StationRecordIsTrue
PROPERTY LedgerKept
