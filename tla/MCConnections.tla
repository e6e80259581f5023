---------------------------- MODULE MCConnections ----------------------------
(* Connections for TLC: handles are alike.                                 *)
EXTENDS Connections, TLC

Handles == Permutations(Handle)

=============================================================================
