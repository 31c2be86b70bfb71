SPECIFICATION FairSpec
CONSTANTS
  Platforms <- SomePlatforms
  Subscribers <- SomeSubscribers
  OutputsOf <- SomeOutputs
  StreamOutputs <- OutputsOfStream
  ListOutputs <- SomeListOutputs
  Capacity = 2
  MaxDepth = 3
INVARIANTS
  BlocksAccounted
  ReachesAPrefix
PROPERTIES SendsSettle
