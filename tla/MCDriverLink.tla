---------------------------- MODULE MCDriverLink ---------------------------
(* Bounded instances of DriverLink.                                         *)
EXTENDS DriverLink

CONSTANTS good, bad, off

=============================================================================
