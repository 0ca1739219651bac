SPECIFICATION LiveSpec
CONSTANTS
  Upload = {u}
  Clip = {c}
  Library = TRUE
  Part = {p}
  Content = {x, y}
  Limit = 1
  MaxAttempts = 2
  GcAttempts = 2
  None = None
  MaxOutages = 1
  MaxCrashes = 1
INVARIANTS TypeOK PlayableHasObjects PlayableFromReceipts PartsKept
PROPERTIES ClaimEndedByHolder JobDecided ImplementsLibrary
CHECK_DEADLOCK FALSE
