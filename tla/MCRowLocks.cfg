SPECIFICATION Spec
CONSTANTS
  Session = {x1, x2, x3}
  Tasks = 2
  MaxRuns = 2
  FirstRun <- OneRunsOneSleeps
SYMMETRY Symmetry
INVARIANTS LockOrder
CHECK_DEADLOCK FALSE
