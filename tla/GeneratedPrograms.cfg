SPECIFICATION FairSpec
CONSTANT Programs <- AllAndAsyncCallback
INVARIANTS
  FIFOBounds
  ReadsIntact
  ResumedIsTold
PROPERTIES EveryNodeRuns
