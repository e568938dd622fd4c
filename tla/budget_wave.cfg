SPECIFICATION Spec
CONSTANTS
  w1 = w1
  w2 = w2
  Workers = {w1, w2}
  Nobody = Nobody
  MaxTotal = 3
  MaxCost = 2
  Attempts = 2
  BatchMax = 2
  Discards = TRUE
  SaveFails = TRUE
  LateSaves = TRUE
  MaxCrashes = 1
  MaxSpend = 5
SYMMETRY Interchangeable
INVARIANTS CostsConserved GateCountsBothCounters NoAlertMissed AlertsOnceBarRollback
