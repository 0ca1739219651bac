SPECIFICATION LivePlayout
CONSTANTS
  None = None
  h1 = h1
  h2 = h2
  Holder = {h1, h2}
  SessionId = {1, 2}
  MaxFaults = 1
  MaxFence = 3
  Calendar = {}
  ProfileOf <- NoProfile
  Baseline = "baseline"
  PublishWeeks = 2
  EnsureWeeks = 3
  BackfillWeeks = 4
  Horizon = 2
  Early = 1
  MaxClock = 1
  MaxWeek = 0
  MaxFailures = 0
PROPERTIES GoesLive
CHECK_DEADLOCK FALSE
