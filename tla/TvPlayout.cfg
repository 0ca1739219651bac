SPECIFICATION Spec
CONSTANTS
  None = None
  h1 = h1
  h2 = h2
  A = A
  B = B
  r1 = r1
  r2 = r2
  Holder = {h1, h2}
  Schedule = {A}
  Loop <- MCLoop
  LoopLen <- MCLoopLen
  Period <- MCPeriod
  Release = {}
  Horizon <- NoHorizon
  Occurrences <- NoOccurrences
  LeaseTicks = 1
  Ahead = 1
  CatchUp = 1
  MaxAppend = 2
  MaxSegment = 2
  Retention = 0
  Skew = 1
  MaxCommands = 1
  MaxLag = 0
  MaxTime = 2
  LastCrash = 2
  MaxFence = 2
  MaxIndex = 4
SYMMETRY Symmetry
INVARIANTS TypeOK WindowServable FencesOrdered FenceUnique
PROPERTIES NeverReissued ImplementsLog
CHECK_DEADLOCK FALSE
