---------------------------- MODULE MCSqliteStore ----------------------------
(***************************************************************************)
(* SqliteStore for TLC: a connection of its own for each thread, or one    *)
(* connection for all of them.                                             *)
(***************************************************************************)
EXTENDS SqliteStore, TLC

CONSTANT Shared    \* do the threads share one connection?

OneConnection == CHOOSE n \in Connection : TRUE
MCConnOf == [c \in Client |-> IF Shared THEN OneConnection ELSE c]

\* Threads are alike, and each takes its connection with it.
Threads == Permutations(Client)

=============================================================================
