SPECIFICATION MCSpec
CONSTANTS
  Privileges = {"SystemEnvironment", "Shutdown"}
  Ids = {b1, b2}
  None = None
  MaxMeddles <- MCMaxMeddles
  MaxLength = 3
  InitialBuffer = 1
  MaxVariable = 2
  MaxInventory = 5
CHECK_DEADLOCK FALSE
INVARIANTS ScopeRestores RebootEvidence
PROPERTIES ReadsAreGenuine NothingAfterLeak
SYMMETRY Symmetry
