------------------------------ MODULE MysqlStore ------------------------------
(***************************************************************************)
(* Create, read, update and delete of objects with a revision field        *)
(* through libdbo_backend_mysql.c, by threads with a connection each.      *)
(*                                                                         *)
(* A bind of a prepared statement points at the value it sends: the value  *)
(* is read when the statement is executed, not when it is bound.  The      *)
(* revision is bound from an automatic variable of the handler, so that    *)
(* variable is part of the state.  A statement is atomic at the server,    *)
(* its answer can be lost with the connection, and the affected rows are   *)
(* kept with the statement.                                                *)
(***************************************************************************)
EXTENDS Naturals, FiniteSets

CONSTANTS
  Client,       \* threads, each with a connection and the object it works on
  Value,        \* what the fields other than key and revision can hold
  MaxKey,       \* bound: how many objects are ever created
  MaxVersion    \* bound: no update is begun of a row changed that often

ASSUME BoundsType == MaxKey \in Nat /\ MaxVersion \in Nat
ASSUME ValueType == Value # {}

VARIABLES
  rows,       \* the table
  lastKey,    \* the AUTO_INCREMENT counter of the table
  up,         \* is the connection of a thread usable?
  obj,        \* the key and the revision each thread has read
  value,      \* the field value its next create or update writes
  call,       \* the call a thread is in, or made last
  pc,         \* how far that call is
  revision,   \* the handler's libdbo_value_t the statement's bind points at
  affected,   \* mysql_stmt_affected_rows() of the statement
  list,       \* the result list a thread has open, if any
  result,     \* what the last call returned
  version,    \* history: how often each row was changed
  seen,       \* history: the version obj was read at
  applied     \* history: has this call's statement changed a row?

table == <<rows, lastKey, version>>
call_vars == <<call, pc, revision, affected, result, applied>>
vars == <<table, up, obj, value, call_vars, list, seen>>

----------------------------------------------------------------------------
(* Types                                                                   *)

Key == 1 .. MaxKey
Row == [live : BOOLEAN, rev : Nat, value : Value]
SomeValue == CHOOSE v \in Value : TRUE
NoRow == [live |-> FALSE, rev |-> 0, value |-> SomeValue]

Nil == [key |-> 0, rev |-> 0]
Obj == [key : Key, rev : Nat]

\* A SELECT by primary key has been executed when the result list is made.  Its
\* row waits in the connection ("sent"), and until the end of the rows has
\* been fetched as well ("fetched") the connection takes no other command.
Closed == [state |-> "closed", obj |-> Nil, version |-> 0]
List == [state : {"sent", "fetched", "drained"}, obj : Obj \cup {Nil},
         version : Nat]

TypeOK ==
  /\ rows \in [Key -> Row]
  /\ lastKey \in 0 .. MaxKey
  /\ up \in [Client -> BOOLEAN]
  /\ obj \in [Client -> Obj \cup {Nil}]
  /\ value \in [Client -> Value]
  /\ call \in [Client -> {"none", "create", "read", "update", "delete"}]
  /\ pc \in [Client -> {"idle", "bound", "ready", "executed", "failed"}]
  /\ revision \in [Client -> Nat]
  /\ affected \in [Client -> Nat]
  /\ list \in [Client -> List \cup {Closed}]
  /\ result \in [Client -> {"none", "ok", "error"}]
  /\ version \in [Key -> Nat]
  /\ seen \in [Client -> Nat]
  /\ applied \in [Client -> BOOLEAN]

Init ==
  /\ rows = [k \in Key |-> NoRow]
  /\ lastKey = 0
  /\ up = [c \in Client |-> TRUE]
  /\ obj = [c \in Client |-> Nil]
  /\ value = [c \in Client |-> SomeValue]
  /\ call = [c \in Client |-> "none"]
  /\ pc = [c \in Client |-> "idle"]
  /\ revision = [c \in Client |-> 0]
  /\ affected = [c \in Client |-> 0]
  /\ list = [c \in Client |-> Closed]
  /\ result = [c \in Client |-> "none"]
  /\ version = [k \in Key |-> 0]
  /\ seen = [c \in Client |-> 0]
  /\ applied = [c \in Client |-> FALSE]

----------------------------------------------------------------------------
(* The handlers, up to the bound statement                                 *)

\* mysql_stmt_prepare succeeds: "Commands out of sync" is an error.
InSync(c) == up[c] /\ list[c].state \in {"closed", "drained"}

Prepare(c, op, bound, next) ==
  /\ pc[c] = "idle"
  /\ call' = [call EXCEPT ![c] = op]
  /\ applied' = [applied EXCEPT ![c] = FALSE]
  /\ \/ /\ InSync(c)
        /\ revision' = [revision EXCEPT ![c] = bound]
        /\ pc' = [pc EXCEPT ![c] = next]
        /\ result' = [result EXCEPT ![c] = "none"]
     \/ /\ ~InSync(c)
        /\ result' = [result EXCEPT ![c] = "error"]
        /\ UNCHANGED <<pc, revision>>
  /\ UNCHANGED <<table, up, obj, affected, list, seen>>

\* libdbo_value_from_int64 and the bind of the revision.
BeginCreate(c, v) ==
  /\ value' = [value EXCEPT ![c] = v]
  /\ Prepare(c, "create", 1, "bound")

BeginUpdate(c, v) ==
  /\ obj[c] # Nil
  /\ version[obj[c].key] < MaxVersion
  /\ value' = [value EXCEPT ![c] = v]
  /\ Prepare(c, "update", obj[c].rev + 1, "bound")

\* A delete binds nothing but the clauses, which outlive the call.
BeginDelete(c) ==
  /\ obj[c] # Nil
  /\ Prepare(c, "delete", 0, "ready")
  /\ UNCHANGED value

\* libdbo_value_reset(&revision), right after the bind: the int64 the bind
\* points at is 0 from here on.
Reset(c) ==
  /\ pc[c] = "bound"
  /\ revision' = [revision EXCEPT ![c] = 0]
  /\ pc' = [pc EXCEPT ![c] = "ready"]
  /\ UNCHANGED <<table, up, obj, value, call, affected, list, result, seen,
                 applied>>
----------------------------------------------------------------------------
(* mysql_stmt_execute of a statement that writes                           *)

\* The row the WHERE clause of an update or a delete selects.
Selected(c) ==
  {k \in Key : rows[k].live /\ k = obj[c].key /\ rows[k].rev = obj[c].rev}

\* What an update makes of a row: the revision is whatever the bind points at.
Updated(c, row) == [row EXCEPT !.rev = revision[c], !.value = value[c]]

\* The server has changed n rows.  Either the client library gets to know, or
\* the connection is lost with the answer.
Executed(c, n) ==
  /\ pc[c] = "ready"
  /\ up[c]
  /\ \/ /\ pc' = [pc EXCEPT ![c] = "executed"]
        /\ affected' = [affected EXCEPT ![c] = n]
        /\ UNCHANGED up
     \/ /\ pc' = [pc EXCEPT ![c] = "failed"]
        /\ up' = [up EXCEPT ![c] = FALSE]
        /\ UNCHANGED affected
  /\ applied' = [applied EXCEPT ![c] = n > 0]
  /\ UNCHANGED <<obj, value, call, revision, list, result, seen>>

ExecuteInsert(c) ==
  /\ call[c] = "create"
  /\ lastKey < MaxKey
  /\ Executed(c, 1)
  /\ lastKey' = lastKey + 1
  /\ rows' = [rows EXCEPT ![lastKey'] =
                 [live |-> TRUE, rev |-> revision[c], value |-> value[c]]]
  /\ version' = [version EXCEPT ![lastKey'] = @ + 1]

ExecuteUpdate(c) ==
  /\ call[c] = "update"
  /\ \E k \in Selected(c) :
       /\ Updated(c, rows[k]) # rows[k]
       /\ Executed(c, 1)
       /\ rows' = [rows EXCEPT ![k] = Updated(c, @)]
       /\ version' = [version EXCEPT ![k] = @ + 1]
  /\ UNCHANGED lastKey

ExecuteDelete(c) ==
  /\ call[c] = "delete"
  /\ \E k \in Selected(c) :
       /\ Executed(c, 1)
       /\ rows' = [rows EXCEPT ![k] = NoRow]
       /\ version' = [version EXCEPT ![k] = @ + 1]
  /\ UNCHANGED lastKey

\* No row is selected, or an update leaves the row as it is: rows that have
\* been found but not changed do not count as affected.
ExecuteMiss(c) ==
  /\ \/ call[c] \in {"update", "delete"} /\ Selected(c) = {}
     \/ call[c] = "update" /\ \E k \in Selected(c) : Updated(c, rows[k]) = rows[k]
  /\ Executed(c, 0)
  /\ UNCHANGED table

\* The connection is gone, or the server refuses: a UNIQUE index, a lock that
\* is waited for too long.
ExecuteFail(c) ==
  /\ pc[c] = "ready"
  /\ pc' = [pc EXCEPT ![c] = "failed"]
  /\ UNCHANGED <<table, up, obj, value, call, revision, affected, list, result,
                 seen, applied>>

\* The server or the network takes a connection away.
Disconnect(c) ==
  /\ up[c]
  /\ up' = [up EXCEPT ![c] = FALSE]
  /\ UNCHANGED <<table, obj, value, call_vars, list, seen>>

----------------------------------------------------------------------------
(* What a handler does after the execution                                 *)

\* The statement is closed and the automatic variables are gone.
Finish(c, ok) ==
  /\ pc' = [pc EXCEPT ![c] = "idle"]
  /\ revision' = [revision EXCEPT ![c] = 0]
  /\ affected' = [affected EXCEPT ![c] = 0]
  /\ result' = [result EXCEPT ![c] = IF ok THEN "ok" ELSE "error"]
  /\ UNCHANGED <<table, up, obj, value, call, list, seen, applied>>

\* Mutant: the affected rows are not looked at.
ReturnOk(c) == pc[c] \in {"executed", "failed"} /\ Finish(c, pc[c] = "executed")

\* Mutant: what mysql_stmt_execute has returned is not looked at.
ReturnAlways(c) == pc[c] \in {"executed", "failed"} /\ Finish(c, TRUE)

Return(c) ==
  \/ pc[c] = "failed" /\ Finish(c, FALSE)
  \/ pc[c] = "executed" /\ call[c] = "create" /\ Finish(c, affected[c] = 1)
  \/ pc[c] = "executed" /\ call[c] # "create" /\ Finish(c, affected[c] >= 1)

----------------------------------------------------------------------------
(* Reading: a result list that fetches from the statement                  *)

\* libdbo_backend_mysql_read executes the SELECT, which fixes what is read.
Read(c, k) ==
  /\ pc[c] = "idle"
  /\ k <= lastKey
  /\ list[c] = Closed
  /\ InSync(c)
  /\ list' = [list EXCEPT ![c] =
       [state |-> "sent",
        obj |-> IF rows[k].live THEN [key |-> k, rev |-> rows[k].rev] ELSE Nil,
        version |-> version[k]]]
  /\ UNCHANGED <<table, up, obj, value, call_vars, seen>>

\* libdbo_backend_mysql_next with a row.
NextRow(c) ==
  /\ pc[c] = "idle"
  /\ up[c]
  /\ list[c].state = "sent" /\ list[c].obj # Nil
  /\ list' = [list EXCEPT ![c].state = "fetched"]
  /\ obj' = [obj EXCEPT ![c] = list[c].obj]
  /\ seen' = [seen EXCEPT ![c] = list[c].version]
  /\ call' = [call EXCEPT ![c] = "read"]
  /\ result' = [result EXCEPT ![c] = "ok"]
  /\ applied' = [applied EXCEPT ![c] = FALSE]
  /\ UNCHANGED <<table, up, value, pc, revision, affected>>

\* It is NULL at the end of the rows and for a lost connection alike.
NextNull(c) ==
  /\ pc[c] = "idle"
  /\ list[c] # Closed
  /\ \/ ~up[c]
     \/ list[c].state = "sent" /\ list[c].obj = Nil
     \/ list[c].state \in {"fetched", "drained"}
  /\ list' = [list EXCEPT ![c].state = IF up[c] THEN "drained" ELSE @]
  /\ call' = [call EXCEPT ![c] = "read"]
  /\ result' = [result EXCEPT ![c] = "error"]
  /\ applied' = [applied EXCEPT ![c] = FALSE]
  /\ UNCHANGED <<table, up, obj, value, pc, revision, affected, seen>>

\* Mutant: a list that is freed is not forgotten.
FreeListPartly(c) ==
  /\ pc[c] = "idle"
  /\ list[c] # Closed
  /\ list' = [list EXCEPT ![c].state = "closed"]
  /\ UNCHANGED <<table, up, obj, value, call_vars, seen>>

\* libdbo_result_list_free: mysql_stmt_close throws away what is left to fetch.
FreeList(c) ==
  /\ pc[c] = "idle"
  /\ list[c] # Closed
  /\ list' = [list EXCEPT ![c] = Closed]
  /\ UNCHANGED <<table, up, obj, value, call_vars, seen>>

----------------------------------------------------------------------------

Write(c) ==
  \/ \E v \in Value : BeginCreate(c, v) \/ BeginUpdate(c, v)
  \/ BeginDelete(c) \/ Reset(c)
  \/ ExecuteInsert(c) \/ ExecuteUpdate(c) \/ ExecuteDelete(c)
  \/ ExecuteMiss(c) \/ ExecuteFail(c)
  \/ Return(c)

Fetch(c) ==
  \/ \E k \in Key : Read(c, k)
  \/ NextRow(c) \/ NextNull(c) \/ FreeList(c)

Next == \E c \in Client : Write(c) \/ Fetch(c) \/ Disconnect(c)

Spec == Init /\ [][Next]_vars

----------------------------------------------------------------------------
(* Properties                                                              *)

Won(c) ==
  /\ pc[c] = "idle"
  /\ call[c] \in {"update", "delete"}
  /\ result[c] = "ok"

(***************************************************************************)
(* README.md, "Object Revisions": of all threads that have read the same   *)
(* version of an object, at most one has its update or delete succeed.     *)
(***************************************************************************)
AtMostOneWinner ==
  \A c, d \in Client :
    (c # d /\ Won(c) /\ Won(d)) =>
      <<obj[c].key, seen[c]>> # <<obj[d].key, seen[d]>>

(***************************************************************************)
(* An object is deleted once: of all threads that hold it, at whatever     *)
(* version, at most one has its delete succeed.                            *)
(***************************************************************************)
DeletedOnce ==
  \A c, d \in Client :
    (c # d /\ Won(c) /\ Won(d) /\ obj[c].key = obj[d].key) =>
      call[c] # "delete" \/ call[d] # "delete"

(***************************************************************************)
(* OK is only returned for a statement that has changed the table, and an  *)
(* error for one that has not, unless the answer was lost.                 *)
(***************************************************************************)
OutcomeIsTrue ==
  \A c \in Client :
    (pc[c] = "idle" /\ call[c] \in {"create", "update", "delete"}) =>
      /\ result[c] = "ok" => applied[c]
      /\ (result[c] = "error" /\ up[c]) => ~applied[c]

=============================================================================
