SPECIFICATION FairSpec
CONSTANTS
  good = good
  bad = bad
  off = off
  Profiles = {good}
  Refused = {}
  Off = off
  MaxSessions = 2
  MaxFlakes = 0
  MaxChoices = 0
  MaxSequence = 1
PROPERTIES ReachesDriver
