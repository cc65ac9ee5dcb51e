------------------------ MODULE MCRuntimeSnapshot ------------------------
(* Bounded instances of RuntimeSnapshot: one slot that poses, which shares *)
(* the field with every batch that enables or disables it.                 *)
EXTENDS RuntimeSnapshot

CONSTANT d1

=============================================================================
