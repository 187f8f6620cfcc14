\* Two workers, three blocking requests, one place, Close at any moment.
CONSTANTS
  a1 = a1  s1 = s1  s2 = s2  s3 = s3  w1 = w1  w2 = w2  NoTask = NoTask
  Task <- BlockingTasks
  Async <- NonePolled
  Worker <- TwoWorkers
  QueueSize = 1
  AllowClose = TRUE
SPECIFICATION Spec
INVARIANTS TypeOK OnePlace Placement RefusedNeverRuns ReplyIsTrue StatsLedger
PROPERTIES WaiterIsTold ImplementsService
SYMMETRY Interchangeable
CHECK_DEADLOCK FALSE
