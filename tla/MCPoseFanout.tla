---------------------------- MODULE MCPoseFanout ----------------------------
(* Bounded instance of PoseFanout: the consumers are interchangeable.       *)
EXTENDS PoseFanout, TLC

Symmetry == Permutations(Consumers)

=============================================================================
