SPECIFICATION PassSpec
CONSTANTS
  Upload = {u}
  Clip = {}
  Library = FALSE
  Part = {p}
  Content = {x}
  Limit = 1
  MaxAttempts = 1
  GcAttempts = 2
  None = None
  MaxOutages = 2
  MaxCrashes = 0
PROPERTIES AbortedCollected
CHECK_DEADLOCK FALSE
