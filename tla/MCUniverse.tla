----------------------------- MODULE MCUniverse -----------------------------
(* Bounded instance of Universe: three worlds visited in order, and samples *)
(* that are adjacent, follow a short loss, or do not track.                 *)
EXTENDS Universe
=============================================================================
