\* Recordings of every length around the chunk length, at every rate.
CONSTANTS
  TargetRate = 4
  DiarRate = 4
  TicksPerSecond = 4
  Gap = 2
  HandlerChunkSec = 1
  PoolChunkSec = 2
  QueueSec = 4
  Request <- AnyLength
  Config <- AllConfigs
  Found <- MCFound
SPECIFICATION RequestSpec
INVARIANT ChunksOverlap
