SPECIFICATION FairSpec
CONSTANTS
  r1 = r1
  r2 = r2
  Nobody = Nobody
  Runs <- Two
  Milestones = 5
  Deps <- ChainAndTwo
  Filters <- AllOrLast
  MaxTotal = 1
  MaxCost = 1
  Attempts = 2
  Breaker = "off"
  Ceilings = TRUE
  Faults <- AllFaults
  Overlap = FALSE
INVARIANTS DependenciesFirst FinishedOnce AnnouncedFromRecord ThreeStrikes
PROPERTIES EveryRunEnds KeepsLedger
ACTION_CONSTRAINT InOrder
CHECK_DEADLOCK FALSE
