SPECIFICATION LiveSpec
CONSTANTS
  ScheduleId = {s1, s2, s3, s4, s5}
  Periods = {2}
  Video = {v1, v2}
  Prepared = {v2}
  Jobs = {v1}
  Calendar = FALSE
  None = None
  MaxTime = 3
  MaxVersion = 2
INVARIANTS OnAirHasLoop
PROPERTIES LoopPreserved QueuedGoesOnAir
CHECK_DEADLOCK FALSE
