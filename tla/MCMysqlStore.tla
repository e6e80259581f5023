---------------------------- MODULE MCMysqlStore ----------------------------
(***************************************************************************)
(* MysqlStore for TLC.                                                     *)
(***************************************************************************)
EXTENDS MysqlStore, TLC

\* Threads are alike.
Threads == Permutations(Client)

=============================================================================
