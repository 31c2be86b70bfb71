\* An application pauses while an event handler fails.
CONSTANTS
  Graphs <- AllGraphs
  NoGraph = NoGraph
  app = app
  Applications = {app}
  Starter = app
  Uses <- PauseOnError
SPECIFICATION FairSpec
PROPERTY CallsReturn
CHECK_DEADLOCK FALSE
