SPECIFICATION Spec
CONSTANTS
  target = target
  other = other
  near = near
  far = far
  Trackers = {target, other}
  Stations = {near, far}
  Scale = 2
  Target = target
  Headset = other
  Deltas <- TurnAndShift
  MaxSamples = 3
  MaxMoves = 2
  MaxChanges = 2
SYMMETRY SameStations
CHECK_DEADLOCK FALSE
INVARIANTS TrackersReadRight
PROPERTIES MeasuredRight StopsForCause
