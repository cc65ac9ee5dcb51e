SPECIFICATION FairSpec
CONSTANTS
  Producers = {p1, p2}
  Capacity = 2
  MaxPublishes = 3
  MaxSessions = 2
  MaxLeaks = 1
INVARIANTS
  NoSlotRace
  DeliveredIntact
  NothingUncounted
PROPERTIES
  GapBeforeSample
  TerminalGapInPlace
  PublishReturns
  EventuallyAllAccounted
CHECK_DEADLOCK FALSE
