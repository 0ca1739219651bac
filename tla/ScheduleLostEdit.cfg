SPECIFICATION Spec
CONSTANTS
  ScheduleId = {s1, s2, s3, s4, s5}
  Periods = {2}
  Video = {v1}
  Prepared = {}
  Jobs = {v1}
  Calendar = FALSE
  None = None
  MaxTime = 3
  MaxVersion = 2
INVARIANTS UpToDate
CHECK_DEADLOCK FALSE
