-------------------------- MODULE MCPoseRingSession --------------------------
(* Model-checking instance of PoseRingSession: process ids are             *)
(* interchangeable.                                                        *)
EXTENDS PoseRingSession, TLC

Symmetry == Permutations(Writers)

=============================================================================
