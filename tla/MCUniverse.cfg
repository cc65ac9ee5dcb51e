SPECIFICATION FairSpec
CONSTANTS
  Worlds = {0, 1, 2}
  Kinds = {"good", "drop", "bad"}
  MaxEvents = 3
  Returns = FALSE
  Hasty = FALSE
INVARIANTS CalibrationFollows RoomFollows FollowedNotLatched
PROPERTY MismatchSettles
