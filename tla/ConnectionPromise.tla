-------------------------- MODULE ConnectionPromise --------------------------
(***************************************************************************)
(* What a program may conclude from the answers of a connection: it is     *)
(* open from a connect that returned OK to a disconnect that returned OK,  *)
(* a call that failed has changed nothing, and only an open connection is  *)
(* read from.                                                              *)
(***************************************************************************)
EXTENDS Naturals

CONSTANT Handle

VARIABLES
  open,          \* the handles that are connected
  answer         \* the last call on each handle and what it returned

vars == <<open, answer>>

Answers(h, call, ok) ==
  answer' = [answer EXCEPT ![h] = [call |-> call, ok |-> ok]]

Init ==
  /\ open = {}
  /\ answer = [h \in Handle |-> [call |-> "none", ok |-> TRUE]]

Connect(h) ==
  /\ h \notin open
  /\ open' = open \cup {h}
  /\ Answers(h, "connect", TRUE)

Disconnect(h) ==
  /\ open' = open \ {h}
  /\ Answers(h, "disconnect", TRUE)

Read(h) ==
  /\ h \in open
  /\ Answers(h, "read", TRUE)
  /\ UNCHANGED open

\* A call that fails, or one that is not about the connection.
Other(h) ==
  /\ \/ \E call \in {"setup", "connect", "read", "begin", "commit", "rollback",
                     "disconnect"} : Answers(h, call, FALSE)
     \/ \E call \in {"setup", "begin", "commit", "rollback"} :
          Answers(h, call, TRUE)
  /\ UNCHANGED open

\* The handle is freed.
Free(h) ==
  /\ open' = open \ {h}
  /\ UNCHANGED answer

Next ==
  \E h \in Handle :
    Connect(h) \/ Disconnect(h) \/ Read(h) \/ Other(h) \/ Free(h)

Spec == Init /\ [][Next]_vars

=============================================================================
