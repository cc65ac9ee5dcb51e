SPECIFICATION Spec
CONSTANTS
  Consumers = {c1, c2}
  Capacity = 3
  CopyChunk = 1
  MaxEntries = 5
  MaxLosses = 2
PROPERTY ChannelKept
SYMMETRY Symmetry
CHECK_DEADLOCK FALSE
