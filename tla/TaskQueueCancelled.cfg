\* A cancelled task does not stay cancelled.
CONSTANTS
  a1 = a1  s1 = s1  s2 = s2  s3 = s3  w1 = w1  w2 = w2  NoTask = NoTask
  Task <- SmallTasks
  Async <- OnePolled
  Worker <- OneWorker
  QueueSize = 1
  AllowClose = FALSE
SPECIFICATION Spec
INVARIANTS CancelledStaysFailed
