---------------------------- MODULE MCIPCServer ----------------------------
(* Bounded instance of IPCServer.                                         *)
EXTENDS IPCServer

CONSTANTS i1, i2

=============================================================================
