SPECIFICATION Spec
CONSTANTS
  Handler <- Handlers
  QueueOf <- Queues
  MaxAttempts <- Attempts
  Slots <- Concurrency
  Workflow <- CaughtTimeout
  Event = {"activated", "user-activated", "go"}
  Outage <- Outages
  MostAttempts = 5
  MaxTasks = 1
  MaxTurns = 1
  None = "none"
INVARIANT TimeoutsNotRetriggered
CHECK_DEADLOCK FALSE
