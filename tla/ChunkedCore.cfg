\* Three chunks, two goroutines, a deadline, another user of the mutex.
CONSTANTS
  w1 = w1  w2 = w2  x = x
  NoText = NoText  Failed = Failed  Undecoded = Undecoded
  Other = Other  NoOne = NoOne
  Worker <- TwoWorkers
  Text <- OneText
  NumChunks = 3
SPECIFICATION FairSpec
INVARIANTS TypeOK ChunkLedger OnlyFailuresAreMissing NobodyIsLeft SilenceIsReal
PROPERTIES CallReturns
