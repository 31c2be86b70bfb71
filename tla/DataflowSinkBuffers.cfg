CONSTANTS
  InputGraphs <- SinkBuffers
  Configs <- Optimized
  NoBuffer = NoBuffer
  Silence = Silence
  Foreign = Foreign
  MaxRepetition = 6
  MaxPeriod = 2
  DebugLimit = 2
  MaxPause = 1
SPECIFICATION Spec
INVARIANT InputIntact
CHECK_DEADLOCK FALSE
