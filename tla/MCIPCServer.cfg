SPECIFICATION FairSpec
CONSTANTS
  i1 = i1
  i2 = i2
  Instances = {i1, i2}
  Versions = {"same"}
  MaxConcurrentConnections = 1
INVARIANTS OverlappedOwned
PROPERTIES StaleNeverRefuses StopReturns DeadlinesKept
