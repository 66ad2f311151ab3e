SPECIFICATION Spec
CONSTANTS
  NSteps = 3
  MaxAttempts = 3
  None = None
INVARIANTS OverrunBounded ExtendedCallIsCurrent
CHECK_DEADLOCK FALSE
