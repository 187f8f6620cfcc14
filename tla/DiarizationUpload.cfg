\* A file uploaded to the diarization route with enable_diarization = true.
CONSTANTS
  TargetRate = 4
  DiarRate = 4
  TicksPerSecond = 4
  Gap = 2
  HandlerChunkSec = 1
  PoolChunkSec = 2
  QueueSec = 4
  Request <- PageUploads
  Config <- AllConfigs
  Found <- MCFound
SPECIFICATION RequestSpec
INVARIANT DiarizationIsHonoured
