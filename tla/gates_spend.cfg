SPECIFICATION Spec
CONSTANTS
  NoMilestone = NoMilestone
  NoCopy = NoCopy
  Duration <- Ticks
  Ceiling <- DayWeek
  CeilingMode <- Blocking
  BreakerMode = "off"
  DiversityWindow = 5
  DiversityThreshold = 3
  Milestones = 2
  Attempts = 2
  MaxTotal = 3
  Estimate = 1
  Costs <- CostsOne
  Signals <- NoSignals
  Bypasses <- Either
  UpTo <- OneOrTwo
  Reasons <- NoReason
  TriageFails <- Neither
  MaxResets = 1
  MaxRuns = 3
  Horizon = 3
INVARIANT ReportedSpendIsCounted
PROPERTY AttemptsBelowCeiling
CHECK_DEADLOCK FALSE
