SPECIFICATION Spec
CONSTANTS
  NoMilestone = NoMilestone
  NoCopy = NoCopy
  Duration <- Ticks
  Ceiling <- DayOnly
  CeilingMode <- Blocking
  BreakerMode = "off"
  DiversityWindow = 5
  DiversityThreshold = 3
  Milestones = 1
  Attempts = 1
  MaxTotal = 3
  Estimate = 0
  Costs <- CostsOne
  Signals <- NoSignals
  Bypasses <- Neither
  UpTo <- OnlyOne
  Reasons <- NoReason
  TriageFails <- Neither
  MaxResets = 1
  MaxRuns = 2
  Horizon = 2
INVARIANT ResetReopensGates
CHECK_DEADLOCK FALSE
