SPECIFICATION Spec
CONSTANTS
  Caller = {c1}
  MaxTasks = 1
  MaxAttempts = 2
  None = None
INVARIANT NoOrphanRuns
CHECK_DEADLOCK FALSE
