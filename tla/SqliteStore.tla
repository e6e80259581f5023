----------------------------- MODULE SqliteStore -----------------------------
(***************************************************************************)
(* Create, read, update and delete of objects with a revision field        *)
(* through libdbo_backend_sqlite.c, by threads that run at the same time.  *)
(*                                                                         *)
(* A call is the sequence of sqlite3 calls the handler makes.  Each of     *)
(* them is one step, for SQLite serializes them (SQLITE_OPEN_FULLMUTEX on  *)
(* a connection, the database lock between connections), and the steps of  *)
(* different threads interleave:                                           *)
(*                                                                         *)
(*   Begin...      checks, SQL text, sqlite3_prepare_v2, binds             *)
(*   Step...       sqlite3_step                                            *)
(*   Finalize      sqlite3_finalize and the broadcast                      *)
(*   CheckChanges  sqlite3_changes and the handler's return value          *)
(*                                                                         *)
(* An object stands for what a generated object keeps of a row: its        *)
(* primary key and its revision.  The other fields play no part.           *)
(***************************************************************************)
EXTENDS Naturals, FiniteSets

CONSTANTS
  Client,        \* threads, each with the object it works on
  Connection,    \* sqlite3 database connections
  ConnOf,        \* the connection a thread uses
  MaxKey,        \* bound: how many objects are ever created
  MaxRevision    \* bound: no update is begun from this revision

ASSUME ConnOfType == ConnOf \in [Client -> Connection]
ASSUME BoundsType == MaxKey \in Nat /\ MaxRevision \in Nat

VARIABLES
  rows,      \* the table
  lastKey,   \* the AUTOINCREMENT sequence of the table
  changes,   \* sqlite3_changes() of each connection
  obj,       \* the object each thread has read
  call,      \* the call a thread is in, or made last
  pc,        \* how far that call is
  cursor,    \* the result list a thread has open, if any
  result,    \* what the last call returned
  version,   \* history: how often each row was changed
  seen,      \* history: the version obj was read at
  applied    \* history: has this call's statement changed a row?

dbVars == <<rows, lastKey, changes, version>>
vars == <<rows, lastKey, changes, obj, call, pc, cursor, result, version,
          seen, applied>>

----------------------------------------------------------------------------
(* Types                                                                   *)

Key == 1 .. MaxKey
Row == [live : BOOLEAN, rev : Nat]
NoRow == [live |-> FALSE, rev |-> 0]

\* A generated object: what from_result copies out of a row.
Nil == [key |-> 0, rev |-> 0]
Obj == [key : Key, rev : Nat]

\* A result list over one SELECT by primary key.  An "active" statement is on
\* a row and holds the SHARED lock of its connection.
Closed == [state |-> "closed", key |-> 0]
Cursor == [state : {"open", "active"}, key : Key]

TypeOK ==
  /\ rows \in [Key -> Row]
  /\ lastKey \in 0 .. MaxKey
  /\ changes \in [Connection -> Nat]
  /\ obj \in [Client -> Obj \cup {Nil}]
  /\ call \in [Client -> {"none", "create", "read", "update", "delete"}]
  /\ pc \in [Client -> {"idle", "prepared", "stepped", "failed", "finalized"}]
  /\ cursor \in [Client -> Cursor \cup {Closed}]
  /\ result \in [Client -> {"none", "ok", "error"}]
  /\ version \in [Key -> Nat]
  /\ seen \in [Client -> Nat]
  /\ applied \in [Client -> BOOLEAN]

Init ==
  /\ rows = [k \in Key |-> NoRow]
  /\ lastKey = 0
  /\ changes = [n \in Connection |-> 0]
  /\ obj = [c \in Client |-> Nil]
  /\ call = [c \in Client |-> "none"]
  /\ pc = [c \in Client |-> "idle"]
  /\ cursor = [c \in Client |-> Closed]
  /\ result = [c \in Client |-> "none"]
  /\ version = [k \in Key |-> 0]
  /\ seen = [c \in Client |-> 0]
  /\ applied = [c \in Client |-> FALSE]

----------------------------------------------------------------------------
(* SQLite, as the backend uses it                                          *)

\* Another connection is at work on the database, so a statement of c may see
\* SQLITE_BUSY for longer than the busy handler is willing to wait.
Contended(c) ==
  \E d \in Client :
    /\ ConnOf[d] # ConnOf[c]
    /\ cursor[d].state = "active" \/ pc[d] = "prepared"

\* A change can be committed when no other connection reads.
Writable(c) ==
  \A d \in Client : ConnOf[d] # ConnOf[c] => cursor[d].state # "active"

\* Values are abstracted: any other object in the table may hold the value a
\* UNIQUE index refuses.
MayClash(c) == \E k \in Key : rows[k].live /\ k # obj[c].key

----------------------------------------------------------------------------
(* The handlers, up to the bound statement                                 *)

InitialRevision == 1

\* Mutant: the revision is read from the set of values but not raised.
SameRevision(revision_number) == revision_number

NewRevision(revision_number) == revision_number + 1

\* Mutant: the revision clause is not looked for.
SelectedByKey(c) == {k \in Key : rows[k].live /\ k = obj[c].key}

\* The row the WHERE clause of an update or a delete selects: the generated
\* object adds an equality on the primary key and one on the revision.
Selected(c) ==
  {k \in Key : rows[k].live /\ k = obj[c].key /\ rows[k].rev = obj[c].rev}

\* The statement is prepared and bound, or the prepare fails.
Prepare(c, op) ==
  /\ pc[c] = "idle"
  /\ call' = [call EXCEPT ![c] = op]
  /\ applied' = [applied EXCEPT ![c] = FALSE]
  /\ \/ /\ pc' = [pc EXCEPT ![c] = "prepared"]
        /\ result' = [result EXCEPT ![c] = "none"]
     \/ /\ Contended(c)
        /\ result' = [result EXCEPT ![c] = "error"]
        /\ pc' = pc
  /\ UNCHANGED <<dbVars, obj, cursor, seen>>

BeginCreate(c) == Prepare(c, "create")

BeginUpdate(c) ==
  /\ obj[c] # Nil
  /\ obj[c].rev < MaxRevision
  /\ Prepare(c, "update")

BeginDelete(c) == obj[c] # Nil /\ Prepare(c, "delete")

----------------------------------------------------------------------------
(* sqlite3_step of a statement that writes                                 *)

Stepped(c) ==
  /\ pc[c] = "prepared"
  /\ pc' = [pc EXCEPT ![c] = "stepped"]
  /\ UNCHANGED <<obj, call, cursor, result, seen>>

StepInsert(c) ==
  /\ call[c] = "create"
  /\ lastKey < MaxKey
  /\ Stepped(c)
  /\ Writable(c)
  /\ lastKey' = lastKey + 1
  /\ rows' = [rows EXCEPT ![lastKey'] = [live |-> TRUE, rev |-> InitialRevision]]
  /\ version' = [version EXCEPT ![lastKey'] = @ + 1]
  /\ changes' = [changes EXCEPT ![ConnOf[c]] = 1]
  /\ applied' = [applied EXCEPT ![c] = TRUE]

StepUpdate(c) ==
  /\ call[c] = "update"
  /\ Stepped(c)
  /\ Writable(c)
  /\ \E k \in Selected(c) :
       /\ rows' = [rows EXCEPT ![k].rev = NewRevision(obj[c].rev)]
       /\ version' = [version EXCEPT ![k] = @ + 1]
  /\ changes' = [changes EXCEPT ![ConnOf[c]] = 1]
  /\ applied' = [applied EXCEPT ![c] = TRUE]
  /\ UNCHANGED lastKey

StepDelete(c) ==
  /\ call[c] = "delete"
  /\ Stepped(c)
  /\ Writable(c)
  /\ \E k \in Selected(c) :
       /\ rows' = [rows EXCEPT ![k] = NoRow]
       /\ version' = [version EXCEPT ![k] = @ + 1]
  /\ changes' = [changes EXCEPT ![ConnOf[c]] = 1]
  /\ applied' = [applied EXCEPT ![c] = TRUE]
  /\ UNCHANGED lastKey

\* No row has the key and the revision: the statement is done all the same.
StepMiss(c) ==
  /\ call[c] \in {"update", "delete"}
  /\ Stepped(c)
  /\ Selected(c) = {}
  /\ changes' = [changes EXCEPT ![ConnOf[c]] = 0]
  /\ UNCHANGED <<rows, lastKey, version, applied>>

\* Anything but SQLITE_DONE: busy until the timeout, a UNIQUE index, or an
\* AUTOINCREMENT sequence at its end.  SQLite has undone what the statement did.
StepFail(c) ==
  /\ pc[c] = "prepared"
  /\ \/ Contended(c)
     \/ call[c] # "delete" /\ MayClash(c)
     \/ call[c] = "create" /\ lastKey = MaxKey
  /\ pc' = [pc EXCEPT ![c] = "failed"]
  /\ changes' \in {changes, [changes EXCEPT ![ConnOf[c]] = 0]}
  /\ UNCHANGED <<rows, lastKey, version, obj, call, cursor, result, seen,
                 applied>>

----------------------------------------------------------------------------
(* What a handler does after the step                                      *)

\* Mutant: what sqlite3_step has returned is not looked at.
FinalizeOnly(c) ==
  /\ pc[c] \in {"failed", "stepped"}
  /\ pc' = [pc EXCEPT ![c] = IF call[c] = "create" THEN "idle" ELSE "finalized"]
  /\ result' = [result EXCEPT ![c] = IF call[c] = "create" THEN "ok" ELSE @]
  /\ UNCHANGED <<dbVars, obj, call, cursor, seen, applied>>

\* A failed step and a create return once the statement is finalized.
Finalize(c) ==
  /\ \/ /\ pc[c] = "failed"
        /\ pc' = [pc EXCEPT ![c] = "idle"]
        /\ result' = [result EXCEPT ![c] = "error"]
     \/ /\ pc[c] = "stepped" /\ call[c] = "create"
        /\ pc' = [pc EXCEPT ![c] = "idle"]
        /\ result' = [result EXCEPT ![c] = "ok"]
     \/ /\ pc[c] = "stepped" /\ call[c] # "create"
        /\ pc' = [pc EXCEPT ![c] = "finalized"]
        /\ UNCHANGED result
  /\ UNCHANGED <<dbVars, obj, call, cursor, seen, applied>>

\* Mutant: no changes are as good as one.
CheckNoError(c) ==
  /\ pc[c] = "finalized"
  /\ pc' = [pc EXCEPT ![c] = "idle"]
  /\ result' = [result EXCEPT
                  ![c] = IF changes[ConnOf[c]] < 0 THEN "error" ELSE "ok"]
  /\ UNCHANGED <<dbVars, obj, call, cursor, seen, applied>>

\* "If we are using revision we have to have a positive number of changes
\* otherwise its a failure."
CheckChanges(c) ==
  /\ pc[c] = "finalized"
  /\ pc' = [pc EXCEPT ![c] = "idle"]
  /\ result' = [result EXCEPT
                  ![c] = IF changes[ConnOf[c]] < 1 THEN "error" ELSE "ok"]
  /\ UNCHANGED <<dbVars, obj, call, cursor, seen, applied>>

----------------------------------------------------------------------------
(* Reading: a result list that fetches from the statement                  *)

\* libdbo_backend_sqlite_read: the statement is prepared and bound, and its
\* first step is left to the list's next function.  A primary key comes from
\* the database, so it has been in use.
Read(c, k) ==
  /\ pc[c] = "idle"
  /\ k <= lastKey
  /\ cursor[c] = Closed
  /\ cursor' = [cursor EXCEPT ![c] = [state |-> "open", key |-> k]]
  /\ UNCHANGED <<dbVars, obj, call, pc, result, seen, applied>>

\* The next function.  NULL is the answer for no row, for the end of the rows
\* and for an error alike; SQLite starts a statement that is done afresh.
NextRow(c) ==
  /\ pc[c] = "idle"
  /\ cursor[c].state = "open"
  /\ rows[cursor[c].key].live
  /\ cursor' = [cursor EXCEPT ![c].state = "active"]
  /\ obj' = [obj EXCEPT
               ![c] = [key |-> cursor[c].key, rev |-> rows[cursor[c].key].rev]]
  /\ seen' = [seen EXCEPT ![c] = version[cursor[c].key]]
  /\ call' = [call EXCEPT ![c] = "read"]
  /\ result' = [result EXCEPT ![c] = "ok"]
  /\ applied' = [applied EXCEPT ![c] = FALSE]
  /\ UNCHANGED <<dbVars, pc>>

NextNull(c) ==
  /\ pc[c] = "idle"
  /\ \/ cursor[c].state = "active"
     \/ cursor[c].state = "open" /\ ~rows[cursor[c].key].live
     \/ cursor[c].state = "open" /\ Contended(c)
  /\ cursor' = [cursor EXCEPT ![c].state = "open"]
  /\ call' = [call EXCEPT ![c] = "read"]
  /\ result' = [result EXCEPT ![c] = "error"]
  /\ applied' = [applied EXCEPT ![c] = FALSE]
  /\ UNCHANGED <<dbVars, obj, pc, seen>>

\* Mutant: a list that is freed is not forgotten.
FreeListPartly(c) ==
  /\ pc[c] = "idle"
  /\ cursor[c] # Closed
  /\ cursor' = [cursor EXCEPT ![c].state = "closed"]
  /\ UNCHANGED <<dbVars, obj, call, pc, result, seen, applied>>

\* libdbo_result_list_free calls the next function with finish set.
FreeList(c) ==
  /\ pc[c] = "idle"
  /\ cursor[c] # Closed
  /\ cursor' = [cursor EXCEPT ![c] = Closed]
  /\ UNCHANGED <<dbVars, obj, call, pc, result, seen, applied>>

----------------------------------------------------------------------------

Write(c) ==
  \/ BeginCreate(c) \/ BeginUpdate(c) \/ BeginDelete(c)
  \/ StepInsert(c) \/ StepUpdate(c) \/ StepDelete(c)
  \/ StepMiss(c) \/ StepFail(c)
  \/ Finalize(c) \/ CheckChanges(c)

Fetch(c) ==
  \/ \E k \in Key : Read(c, k)
  \/ NextRow(c) \/ NextNull(c) \/ FreeList(c)

Next == \E c \in Client : Write(c) \/ Fetch(c)

Spec == Init /\ [][Next]_vars

----------------------------------------------------------------------------
(* Properties                                                              *)

Writes == {"create", "update", "delete"}

\* The call has come back with success as the winner of its version.
Won(c) ==
  /\ pc[c] = "idle"
  /\ call[c] \in {"update", "delete"}
  /\ result[c] = "ok"

(***************************************************************************)
(* Of all threads that have read the same version of an object, at most    *)
(* one has its update or delete succeed: the promise of README.md, "Object *)
(* Revisions", as the callers of libdbo_object_update and _delete see it.  *)
(***************************************************************************)
AtMostOneWinner ==
  \A c, d \in Client :
    (c # d /\ Won(c) /\ Won(d)) =>
      <<obj[c].key, seen[c]>> # <<obj[d].key, seen[d]>>

(***************************************************************************)
(* What a create, an update or a delete returns is what happened: OK when  *)
(* and only when its own statement changed the table.  The return value    *)
(* comes from sqlite3_changes, which the step no longer protects.          *)
(***************************************************************************)
OutcomeIsTrue ==
  \A c \in Client :
    (pc[c] = "idle" /\ call[c] \in Writes /\ result[c] # "none") =>
      (result[c] = "ok" <=> applied[c])

(***************************************************************************)
(* A statement of an update or a delete changes the table exactly when     *)
(* nobody has changed the object since the thread read it, deleted and     *)
(* created objects included: the stored revision identifies the version.   *)
(***************************************************************************)
AppliedIffCurrent ==
  [][\A c \in Client :
       (pc[c] = "prepared" /\ pc'[c] = "stepped" /\ call[c] # "create") =>
         (applied'[c] <=> version[obj[c].key] = seen[c])]_vars

(***************************************************************************)
(* No two threads share a connection.                                      *)
(***************************************************************************)
PrivateConnections ==
  \A c, d \in Client : ConnOf[c] = ConnOf[d] => c = d

(***************************************************************************)
(* The refinement: a call takes effect in the step of its statement, where *)
(* its return value is decided though not yet computed.                    *)
(***************************************************************************)
Outcome(c) ==
  CASE pc[c] = "idle" -> result[c]
    [] pc[c] = "prepared" -> "none"
    [] pc[c] = "failed" -> "error"
    [] OTHER -> IF changes[ConnOf[c]] < 1 THEN "error" ELSE "ok"

Promise == INSTANCE RevisionStore WITH
  Object <- Key,
  MayLose <- FALSE,
  live <- [k \in Key |-> rows[k].live],
  held <- [c \in Client |->
             IF obj[c] = Nil THEN [object |-> "nothing"]
             ELSE [object |-> obj[c].key, version |-> seen[c]]],
  outcome <- [c \in Client |-> Outcome(c)]

KeepsPromise == Promise!Spec

=============================================================================
