SPECIFICATION Spec
CONSTANTS
  Caller = {c1, c2, c3}
  MaxTasks = 3
  MaxAttempts = 2
  None = None
INVARIANTS KeyIsOneTask SpawnFindsTaskIfPartitioned
CHECK_DEADLOCK FALSE
