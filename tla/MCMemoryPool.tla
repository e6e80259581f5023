---------------------------- MODULE MCMemoryPool ----------------------------
(* MemoryPool for TLC: threads are alike.                                  *)
EXTENDS MemoryPool, TLC

Threads == Permutations(Client)

=============================================================================
