---------------------------- MODULE MCSqliteBusy ----------------------------
(***************************************************************************)
(* SqliteBusy for TLC: a thread with a connection of its own and others    *)
(* that share one.                                                         *)
(***************************************************************************)
EXTENDS SqliteBusy, TLC

CONSTANTS
  Sharing,     \* the threads that share a connection
  Many, Few    \* calls of a thread on its own connection, and of the others

MCConnOf == [t \in Client |-> IF t \in Sharing THEN "shared" ELSE "own"]
MCCalls == [t \in Client |-> IF t \in Sharing THEN Few ELSE Many]

=============================================================================
