SPECIFICATION Spec
CONSTANTS
  r1 = r1
  r2 = r2
  Nobody = Nobody
  Runs <- Two
  Milestones = 1
  Deps <- Single
  Filters <- All
  MaxTotal = 3
  MaxCost = 0
  Attempts = 1
  Breaker = "observe"
  Ceilings = FALSE
  Faults <- SignalOnly
  Overlap = TRUE
INVARIANT FinishedOnce
CHECK_DEADLOCK FALSE
