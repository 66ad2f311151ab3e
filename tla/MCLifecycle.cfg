SPECIFICATION Spec
CONSTANTS
  Null = Null
  Infinity = Infinity
  Task = {t1, t2}
  Step = {s1}
  Event = {}
  Value = {v1}
  Key = {}
  Policy <- Retrying
  MaxRuns = 3
  MaxTime = 2
  Qty = {2}
  Lease = {1}
  Delay = {1}
  Timeout = {}
  MaxAttempts = {Null, 1, 2}
  Ttl = {0}
  CleanupLimit = 1
SYMMETRY Symmetry
INVARIANTS SingleActiveRun TaskMirrorsLastRun AttemptAccounting NoOrphans
PROPERTIES NoStartPastDeadline ImplementsLifecycle TerminalIsFinal CancelledIsFrozen
CHECK_DEADLOCK FALSE
