SPECIFICATION Spec
CONSTANTS
  r1 = r1
  r2 = r2
  a = a
  b = b
  c = c
  Runs = {r1, r2}
  Nobody = Nobody
  Names = {a, b, c}
  Deps <- DepsOf
  Filters <- AllOrLater
  Workers = 2
  Conflicts = TRUE
  Slips = 1
  Faults <- AllFaults
SYMMETRY Interchangeable
CHECK_DEADLOCK FALSE
INVARIANTS NoFailedOrPendingDependency BuiltOnDependencies LostOnlyToConflict TreeOutlivesWorker NothingLeftBehind FinishedOnce

