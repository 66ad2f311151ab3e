SPECIFICATION SpecWithCleanup
CONSTANTS
  Run = {r1, r2}
  Timed = {}
  Emitter = {e1}
  Payload = {p1}
  None = None
INVARIANT WakeupNotLost
