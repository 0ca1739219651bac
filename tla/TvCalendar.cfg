SPECIFICATION Spec
CONSTANTS
  None = None
  h1 = h1
  h2 = h2
  A = A
  B = B
  r1 = r1
  r2 = r2
  Holder = {h1}
  Schedule = {A, B}
  Loop <- MCLoop
  LoopLen <- MCLoopLen
  Period <- MCPeriod
  Release = {r1, r2}
  Horizon <- MCHorizon
  Occurrences <- MCOccurrences
  LeaseTicks = 5
  Ahead = 2
  CatchUp = 1
  MaxAppend = 2
  MaxSegment = 2
  Retention = 0
  Skew = 0
  MaxCommands = 1
  MaxLag = 0
  MaxTime = 4
  LastCrash = 4
  MaxFence = 1
  MaxIndex = 4
INVARIANTS WindowServable SwitchMarked CalendarHonoured
CHECK_DEADLOCK FALSE
