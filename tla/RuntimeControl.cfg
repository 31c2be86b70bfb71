\* Every way to use the runtime that MCRuntimeControl lists.
CONSTANTS
  Graphs <- AllGraphs
  NoGraph = NoGraph
  app = app
  Applications = {app}
  Starter = app
  Uses <- AllUses
SPECIFICATION FairSpec
INVARIANTS PauseQuiesces RunsCurrentGraph ContextAlive ResumeSucceeds QuietReport
PROPERTIES CallsReturnWithoutErrors StopTerminates ErrorReported
CHECK_DEADLOCK FALSE
