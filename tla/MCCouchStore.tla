---------------------------- MODULE MCCouchStore ----------------------------
(***************************************************************************)
(* CouchStore for TLC.                                                     *)
(***************************************************************************)
EXTENDS CouchStore, TLC

\* Threads are alike.
Threads == Permutations(Client)

=============================================================================
