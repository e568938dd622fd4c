SPECIFICATION Spec
CONSTANTS
  p1 = p1
  p2 = p2
  c1 = c1
  ghost = ghost
  stranger = stranger
  Procs = {p1, p2}
  Cleaners = {c1}
  Ghosts = {ghost, stranger}
  NoClaim = NoClaim
  Nobody = Nobody
  HostOf <- Hosts
  Ageing = TRUE
  SlowJoin = TRUE
  Signals = TRUE
SYMMETRY Interchangeable
CHECK_DEADLOCK FALSE
INVARIANTS ExclusionBarHazards ClaimBarHazards ReleasedClaimIsGone SomebodyGetsIn
