SPECIFICATION FairLifecycle
CONSTANTS
  PoseThreads = {t1}
  Requesters = {r1, r2}
  Versions = {v005, v006}
  Requested = v006
  Nobody = nobody
  MaxInits = 2
INVARIANTS
  RingMappedUnderPublish
  OutMeansUnhooked
  NoDoubleTransform
PROPERTY
  TeardownReturns
CHECK_DEADLOCK FALSE
