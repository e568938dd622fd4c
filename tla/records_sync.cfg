SPECIFICATION Spec
CONSTANTS
  MaxRuns = 2
  Commands = {c1, c2}
  Setups <- Projects
  Refusable = {"phase_started"}
  MaxQueue = 2
  MaxEvents = 2
SYMMETRY Interchangeable
INVARIANTS AuditVerifies NoOrphanRows OneRowPerRun SyncCompletes
CHECK_DEADLOCK FALSE
