SPECIFICATION Spec
CONSTANTS
  None = None
  c1 = c1
  c2 = c2
  Calendar = {c1, c2}
  ProfileOf <- MCProfileOf
  Baseline = "baseline"
  PublishWeeks = 2
  EnsureWeeks = 3
  BackfillWeeks = 4
  Horizon = 2
  Early = 1
  MaxClock = 2
  MaxWeek = 2
  MaxFailures = 1
INVARIANTS TypeOK StaticOnAir Covered CalendarCoherent
SYMMETRY Symmetry
CHECK_DEADLOCK FALSE
