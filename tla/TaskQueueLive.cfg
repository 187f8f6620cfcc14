\* A polled and a blocking request with cancellation, the collector and Close.
CONSTANTS
  a1 = a1  s1 = s1  s2 = s2  s3 = s3  w1 = w1  w2 = w2  NoTask = NoTask
  Task <- SmallTasks
  Async <- OnePolled
  Worker <- OneWorker
  QueueSize = 1
  AllowClose = TRUE
SPECIFICATION FairSpec
INVARIANTS AcceptedNotLost
PROPERTIES SettledIsFinal CollectedIsSettled AcceptedIsServed RequestIsAnswered CloseReturns SettledIsCollected
CHECK_DEADLOCK FALSE
