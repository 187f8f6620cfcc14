\* Three speakers who interrupt each other, two of whom are told apart.
CONSTANTS
  TargetRate = 4
  DiarRate = 4
  TicksPerSecond = 4
  Gap = 2
  HandlerChunkSec = 1
  PoolChunkSec = 2
  QueueSec = 4
  Request <- AnySpeech
  Config <- AllConfigs
  Found <- OwnVoices
SPECIFICATION RequestSpec
INVARIANT SpeechIsKept
