SPECIFICATION Spec
CONSTANTS
  ScheduleId = {s1, s2, s3}
  Periods = {2, 3}
  Video = {v1, v2}
  Prepared = {v1}
  Jobs = {}
  Calendar = TRUE
  None = None
  MaxTime = 6
  MaxVersion = 3
INVARIANTS TypeOK OnAirHasLoop QueuedAtBoundary PausedPosition UpToDate QueuedHasInstant
PROPERTIES LoopPreserved PositionKept BoundaryKept ImplementsLoopOnAir
CHECK_DEADLOCK FALSE
