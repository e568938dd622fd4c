SPECIFICATION Spec
CONSTANTS
  r1 = r1
  r2 = r2
  a = a
  b = b
  c = c
  Runs = {r1}
  Nobody = Nobody
  Names = {a, b, c}
  Deps <- DepsOf
  Filters <- Everything
  Workers = 2
  Conflicts = TRUE
  Slips = 0
  Faults <- NoFaults
CHECK_DEADLOCK FALSE
INVARIANT CompletedIsMerged
