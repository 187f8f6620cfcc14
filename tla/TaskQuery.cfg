\* One polled task of two chunks, its client, the administrator, the collector.
CONSTANTS
  a1 = a1  w1 = w1  NoTask = NoTask
  Task <- OneTask
  Async <- OneTask
  Worker <- OneWorker
  QueueSize = 1
  AllowClose = FALSE
  NumChunks = 2
SPECIFICATION FairQuerySpec
INVARIANTS QueryTypeOK CompletedIsWhole
PROPERTIES PollsMoveForward PollingEnds
