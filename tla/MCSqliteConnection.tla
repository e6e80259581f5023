------------------------- MODULE MCSqliteConnection -------------------------
(* SqliteConnection for TLC: handles are alike.                            *)
EXTENDS SqliteConnection, TLC

Handles == Permutations(Handle)

=============================================================================
