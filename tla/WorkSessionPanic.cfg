CONSTANTS
  Patterns <- ShorterOrLonger
  Requests = {r1}
  r1 = r1
  MaxSessions = 1
  MaxEdits = 1
  NoRow = NoRow
SPECIFICATION Spec
INVARIANT TrackerNeverPanics
CHECK_DEADLOCK FALSE
