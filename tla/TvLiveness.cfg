SPECIFICATION LiveSpec
CONSTANTS
  None = None
  h1 = h1
  h2 = h2
  A = A
  B = B
  r1 = r1
  r2 = r2
  Holder = {h1, h2}
  Schedule = {A}
  Loop <- MCLoop
  LoopLen <- MCLoopLen
  Period <- MCPeriod
  Release = {}
  Horizon <- NoHorizon
  Occurrences <- NoOccurrences
  LeaseTicks = 1
  Ahead = 1
  CatchUp = 0
  MaxAppend = 2
  MaxSegment = 2
  Retention = 2
  Skew = 0
  MaxCommands = 0
  MaxLag = 0
  MaxTime = 2
  LastCrash = 1
  MaxFence = 5
  MaxIndex = 4
INVARIANTS HandedOver
PROPERTIES StaysOnAir
CHECK_DEADLOCK FALSE
