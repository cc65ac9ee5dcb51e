SPECIFICATION FairSpec
CONSTANTS
  Writers = {w1, w2}
  Overlay = overlay
  NoOne = noone
  MaxWriterStarts = 2
  MaxOverlayStarts = 2
INVARIANTS
  ResetExcludesReaders
  OwnerIsNamed
PROPERTIES
  SessionsSeparated
  Reconnects
CHECK_DEADLOCK FALSE
