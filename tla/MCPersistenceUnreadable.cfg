SPECIFICATION Spec
CONSTANTS
  QuietPeriod = 1
  MaxDirtyAge = 2
  MaxUniverses = 2
  MaxRevision = 2
  MaxFaults = 0
  MaxUnreadable = 1
INVARIANT NoOlderRoom
