SPECIFICATION Spec
CONSTANTS
  Nodes <- FewNodes
  HostEvents <- MostHostEvents
  GraphEvents <- MostGraphEvents
  Clients = 2
  MaxHostMsgs = 2
  Room = 20
  Chunks <- FewChunks
INVARIANT GraphHearsHost
INVARIANT HostHearsGraph
PROPERTY EventsArrive
CHECK_DEADLOCK FALSE
