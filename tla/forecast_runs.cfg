SPECIFICATION Spec
CONSTANTS
  None = None
  Floor = 15
  SampleCap = 200
  WarmFrom = 5
  EmitInfo = FALSE
  Phases <- ThreePhases
  Configs <- Edited
  Deps <- Chain
  Models <- Opus
  Overrides <- OrSonnet
  Pasts <- Histories
  Readings <- SteadyOrNot
  Wasted <- OneDollar
  MaxTotal = 20
  Attempts = 2
  MaxRuns = 2
INVARIANTS
  PricedOnce
  AlertsAreRare
  WarmHoldsBelowEight
  CalibratedWhenDone
CHECK_DEADLOCK FALSE
