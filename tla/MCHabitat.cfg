SPECIFICATION Spec
CONSTANTS
  PresetLength <- Presets
  RadiusOptions = {2, 4}
  DefaultRadius = 2
  TypedTimes <- Times
  undefined = undefined
  blank = blank
  invalid = invalid
  Runs <- SomeRuns
  Searches = {"s1"}
  EventNames = {"e1"}
  Queues = {"q1"}
  Statuses = {"failed"}
  TaskNames = {"n1"}
  StartEntries <- SomeUrls
  PageSize = 1
  MaxClock = 1
  MaxMoves = 3
  A = A
  B = B
  TaskIds = {A, B}
  StartTask = A
  StartAttempts <- FailedTasks
  RunsPageSize = 1
  MaxVisits = 2
  MaxRetries = 2
  MaxAttempts = 3
  none = none
INVARIANTS HabitatTypeOK ShowsWhatUrlAsks LinkShowsWindow
INVARIANTS AllRunsOfThisTask DetailsOrError RetriesMatchPage RetriedRunIsShown
CHECK_DEADLOCK FALSE
