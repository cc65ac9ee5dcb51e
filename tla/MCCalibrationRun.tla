--------------------------- MODULE MCCalibrationRun -------------------------
(* A bounded instance of CalibrationRun: a turn and a shift, which do not   *)
(* commute.                                                                 *)
EXTENDS CalibrationRun, TLC

CONSTANTS target, other, near, far

TurnAndShift == {[r |-> -1, t |-> 0], [r |-> 1, t |-> 1]}

SameStations == Permutations(Stations)

=============================================================================
