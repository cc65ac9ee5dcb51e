SPECIFICATION FairSpec
CONSTANTS
  d1 = d1
  Devices = {d1}
  Posing = {d1}
  Attempts = 2
  MaxTransactions = 2
INVARIANTS CoherentSnapshot FrameRecordExclusive
PROPERTIES EventuallyCurrent
CHECK_DEADLOCK FALSE
