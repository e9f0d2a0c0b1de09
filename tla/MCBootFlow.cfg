SPECIFICATION Spec
CONSTANTS
  BootIds = {b1, b2}
  Idents = {i1, i2}
  Unsupported = Unsupported
  None = None
  Empty = Empty
  Corrupt = Corrupt
  Failed = Failed
  Rollbacks = {"NotNeeded", "Restored", "Unsafe", "Failed"}
  MaxCalls = 2
  MaxMeddles = 2
INVARIANTS EvidenceHolds ResidualIsReported
PROPERTIES ForeignNextSurvives MutationNeedsIdentity RecordIsLiveOption
  NoUndoAfterReboot WindowsNeverWrites
