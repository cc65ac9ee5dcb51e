SPECIFICATION FairSpec
CONSTANTS
  good = good
  bad = bad
  off = off
  Profiles = {good, bad}
  Refused = {bad}
  Off = off
  MaxSessions = 1
  MaxFlakes = 1
  MaxChoices = 1
  MaxSequence = 1
INVARIANTS NeutralWhileMeasured VerdictMeansApplied
PROPERTIES RefusalHolds MeasurementProceeds RetriesUntilApplied
