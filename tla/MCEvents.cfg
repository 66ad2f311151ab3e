SPECIFICATION Spec
CONSTANTS
  Null = Null
  Infinity = Infinity
  Task = {t1, t2}
  Step = {s1, s2}
  Event = {e1}
  Value = {v1}
  Key = {}
  Policy <- TwoAttempts
  MaxRuns = 2
  MaxTime = 2
  Qty = {1}
  Lease = {1}
  Delay = {1}
  Timeout = {Null, 1}
  MaxAttempts = {}
  Ttl = {0}
  CleanupLimit = 2
INVARIANTS TypeOK NoLostWakeup
PROPERTIES CheckpointsNeverRegress
SYMMETRY Symmetry
CHECK_DEADLOCK FALSE
