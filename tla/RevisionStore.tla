---------------------------- MODULE RevisionStore ----------------------------
(***************************************************************************)
(* What the layer promises about object revisions, whatever the backend:   *)
(*                                                                         *)
(*   "when updating/deleting it will use the revision to verify that the   *)
(*   object has not been updated by anyone else.  If it has then the       *)
(*   operation will fail with an error"      (README.md, Object Revisions) *)
(*                                                                         *)
(* A version is a state an object has been in, so it is the identity the   *)
(* revision stands for and not the number a backend happens to store.      *)
(***************************************************************************)
EXTENDS Naturals

CONSTANTS
  Client,     \* the tasks that work on objects
  Object,     \* the objects' identities, never given to another object
  MayLose     \* can the answer of a call be lost that has changed something?

VARIABLES
  version,    \* how often the object has been changed, its creation included
  live,       \* is the object in the database?
  held,       \* the object a client has read, with the version it then had
  outcome     \* what the client's last call has returned, or is bound to

vars == <<version, live, held, outcome>>

Nothing == [object |-> "nothing"]
Held == [object : Object, version : Nat]

TypeOK ==
  /\ version \in [Object -> Nat]
  /\ live \in [Object -> BOOLEAN]
  /\ held \in [Client -> Held \cup {Nothing}]
  /\ outcome \in [Client -> {"none", "ok", "error"}]

Init ==
  /\ version = [o \in Object |-> 0]
  /\ live = [o \in Object |-> FALSE]
  /\ held = [c \in Client |-> Nothing]
  /\ outcome = [c \in Client |-> "none"]

Start(c) ==
  /\ outcome' = [outcome EXCEPT ![c] = "none"]
  /\ UNCHANGED <<version, live, held>>

Made(o) ==
  /\ version[o] = 0
  /\ version' = [version EXCEPT ![o] = 1]
  /\ live' = [live EXCEPT ![o] = TRUE]
  /\ UNCHANGED held

Create(c, o) == Made(o) /\ outcome' = [outcome EXCEPT ![c] = "ok"]

Fetch(c, o) ==
  /\ live[o]
  /\ held' = [held EXCEPT ![c] = [object |-> o, version |-> version[o]]]
  /\ outcome' = [outcome EXCEPT ![c] = "ok"]
  /\ UNCHANGED <<version, live>>

(***************************************************************************)
(* An update (stays) or a delete of the object the client holds: only of   *)
(* the very version it has read.                                           *)
(***************************************************************************)
Changed(c, stays) ==
  /\ held[c] # Nothing
  /\ live[held[c].object]
  /\ version[held[c].object] = held[c].version
  /\ version' = [version EXCEPT ![held[c].object] = @ + 1]
  /\ live' = [live EXCEPT ![held[c].object] = stays]
  /\ UNCHANGED held

Change(c, stays) ==
  Changed(c, stays) /\ outcome' = [outcome EXCEPT ![c] = "ok"]

(***************************************************************************)
(* A call may fail, and a failed call has changed nothing, unless it is    *)
(* the answer that got lost.                                               *)
(***************************************************************************)
Fail(c) ==
  /\ outcome' = [outcome EXCEPT ![c] = "error"]
  /\ UNCHANGED <<version, live, held>>

Lose(c) ==
  /\ MayLose
  /\ \/ \E o \in Object : Made(o)
     \/ \E stays \in BOOLEAN : Changed(c, stays)
  /\ outcome' = [outcome EXCEPT ![c] = "error"]

Next ==
  \E c \in Client :
    \/ Start(c)
    \/ Fail(c) \/ Lose(c)
    \/ \E o \in Object : Create(c, o) \/ Fetch(c, o)
    \/ \E stays \in BOOLEAN : Change(c, stays)

Spec == Init /\ [][Next]_vars

=============================================================================
