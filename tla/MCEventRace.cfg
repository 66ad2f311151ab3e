SPECIFICATION Spec
CONSTANTS
  Run = {r1, r2, r3}
  Timed = {r1, r2}
  Emitter = {e1, e2}
  Payload = {p1, p2}
  None = None
PROPERTY KeepsPromise
