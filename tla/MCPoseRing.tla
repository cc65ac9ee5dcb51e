----------------------------- MODULE MCPoseRing -----------------------------
(* Bounded instance of PoseRing.  No symmetry: the liveness properties are  *)
(* checked in the same run.                                               *)
EXTENDS PoseRing

=============================================================================
