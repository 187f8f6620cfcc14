\* Every way to ask, every file, every length and rate, every diarization.
CONSTANTS
  TargetRate = 4
  DiarRate = 4
  TicksPerSecond = 4
  Gap = 2
  HandlerChunkSec = 1
  PoolChunkSec = 2
  QueueSec = 4
  Request <- AllRequests
  Config <- AllConfigs
  Found <- MCFound
SPECIFICATION RequestSpec
INVARIANTS OfflineTypeOK ReadsStayInside LengthIsTrue EverySampleOnce SlicesStayInside SegmentsExplained LongestSpeakersStay
