SPECIFICATION Spec
CONSTANTS
  Handler <- Handlers
  QueueOf <- Queues
  MaxAttempts <- Attempts
  Slots <- Concurrency
  Workflow <- Workflows
  Event = {"activated", "user-activated", "go"}
  Outage <- Outages
  MostAttempts = 5
  MaxTasks = 5
  MaxTurns = 3
  None = "none"
INVARIANTS TypeOK ReturnedIsOwn  CompletedNeverRerun
PROPERTY Settles
CHECK_DEADLOCK FALSE
