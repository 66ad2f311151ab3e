SPECIFICATION Spec
CONSTANTS
  Task = {"t1", "t3", "t4"}
  Registered <- Registry
  Concurrency = 2
  BatchSize = 2
  MaxAttempts <- Attempts
  Failures = 1
  Floating = {"t1"}
  c1 = c1
  c2 = c2
  q1 = q1
  q2 = q2
  n1 = n1
  undefined = undefined
  Caller = {c1, c2}
  Name = {n1}
  Queue = {q1, q2}
  Home = q1
  DefaultMaxAttempts = 5
  Registrations <- SomeRegistrations
  Creations <- SomeCreations
  Spawnings <- SomeSpawnings
  DefaultPolicy <- NewQueuePolicy
  Hooks = {"none", "headers", "redirects", "replaces"}
  MaxCalls = 3
  MaxFailures = 1
  Timeouts = {0, 3, 7, 45, 1000}
  ClaimTimeouts = {20, 60, 100}
  Worked = {0, 5, 25, 50}
  QueryTime = 2
  Infinity = 1000
INVARIANTS SdkTypeOK CapacityRespected NoClaimDropped CloseIsClean
INVARIANTS SpawnedAsRegistered KeyedOnce TimeoutHonoured LeaseKept
PROPERTIES DueIsClaimed CloseResolves CreatedAsAsked
CHECK_DEADLOCK FALSE
