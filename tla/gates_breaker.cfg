SPECIFICATION Spec
CONSTANTS
  NoMilestone = NoMilestone
  NoCopy = NoCopy
  Duration <- Ticks
  Ceiling <- DayOnly
  CeilingMode <- Blocking
  BreakerMode = "enforce"
  DiversityWindow = 5
  DiversityThreshold = 3
  Milestones = 3
  Attempts = 1
  MaxTotal = 9
  Estimate = 0
  Costs <- CostsOne
  Signals <- Evidence
  Bypasses <- Either
  UpTo <- AllThree
  Reasons <- ErrorReason
  TriageFails <- Either
  MaxResets = 1
  MaxRuns = 2
  Horizon = 1
INVARIANTS TripIsEvidenced RepeatsStopTheRun TripMeansRepeats
CHECK_DEADLOCK FALSE
