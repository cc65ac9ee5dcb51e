---------------------------- MODULE MCPersistence ----------------------------
(* Bounded instances of Persistence.                                        *)
EXTENDS Persistence

=============================================================================
