\* Two priorities of two slots, pushed to by the stream thread and by event
\* handlers, on the posix queue and on the Zephyr queue.
CONSTANTS
  StreamProducers = {stream}
  ExternalProducers = {}
  EventThread = evt
  NbPriorities = 2
  QueueMax = 2
  Kinds <- KindsMixed
  FailingDest = {"local", "distant"}
  Platforms = {"posix", "Zephyr"}
  MaxPush = 3
  MaxHandlerPush = 1
  MaxPause = 1
  MaxResume = 1
  NoMessage = NoMessage
SPECIFICATION FairSpec
INVARIANTS RingConsistent NoSilentPark EmptyWhilePaused
  ReportIsWhole
PROPERTIES ImplementsPriorityQueue EventsLeave PauseParks
  EndTerminates
CHECK_DEADLOCK FALSE
