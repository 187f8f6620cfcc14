\* One chunk fails, the other is silence.
CONSTANTS
  w1 = w1  w2 = w2  x = x
  NoText = NoText  Failed = Failed  Undecoded = Undecoded
  Other = Other  NoOne = NoOne
  Worker <- TwoWorkers
  Text <- OneText
  NumChunks = 2
SPECIFICATION Spec
INVARIANTS AllFailedMeansAll
