CONSTANTS
  InputGraphs <- AllGraphs
  Configs <- AllConfigs
  NoBuffer = NoBuffer
  Silence = Silence
  Foreign = Foreign
  MaxRepetition = 6
  MaxPeriod = 2
  DebugLimit = 2
  MaxPause = 1
SPECIFICATION Spec
INVARIANTS ScheduleIsPeriodic DeadlockIsReal FIFOBounds InputIntact
CHECK_DEADLOCK FALSE
