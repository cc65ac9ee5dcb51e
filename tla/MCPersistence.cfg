SPECIFICATION FairSpec
CONSTANTS
  QuietPeriod = 1
  MaxDirtyAge = 2
  MaxUniverses = 2
  MaxRevision = 3
  MaxFaults = 3
  MaxUnreadable = 1
INVARIANTS RoomMatchesCalibration CleanMeansSaved
PROPERTIES StaleRoomStaysMarked UsersSettingsKept ChangesReachDisk
