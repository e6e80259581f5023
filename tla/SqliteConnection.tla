-------------------------- MODULE SqliteConnection --------------------------
(***************************************************************************)
(* The life of connections to SQLite: set up, connect, transactions, the   *)
(* result lists read from them, disconnect, free, and the shutdown of the  *)
(* library.  Every call of libdbo_connection.c and libdbo_backend.c passes *)
(* through to the handler of libdbo_backend_sqlite.c modelled here.        *)
(*                                                                         *)
(* A handle is a libdbo_connection_t with its backend, backend handle and  *)
(* libdbo_backend_sqlite_t, which live and die together.                   *)
(***************************************************************************)
EXTENDS Naturals

CONSTANTS
  Handle,        \* connections the program makes, each of them once
  PointerSize,   \* sizeof(const char*)
  MaxLists       \* bound: result lists open on a connection at a time

ASSUME PointerSizeType == PointerSize \in {4, 8}
ASSUME MaxListsType == MaxLists \in Nat

VARIABLES
  initialized,   \* __sqlite3_initialized, shared by all handles
  stage,         \* has the program set the connection up, has it freed it?
  db,            \* the handle's sqlite3*, which a failed open leaves set
  transaction,   \* the handle's transaction flag
  opened,        \* sqlite3 connections of the handle not closed by SQLite
  pending,       \* has SQLite a transaction open on the handle's connection?
  lists,         \* result lists, each with its prepared statement
  result,        \* the last call on the handle and what it returned
  careless       \* history: has the program ended things in the wrong order?

sqlite == <<opened, pending>>
vars == <<initialized, stage, db, transaction, sqlite, lists, result, careless>>

----------------------------------------------------------------------------

Calls == {"none", "setup", "connect", "read", "begin", "commit", "rollback",
          "disconnect"}

TypeOK ==
  /\ initialized \in BOOLEAN
  /\ stage \in [Handle -> {"new", "live", "freed"}]
  /\ db \in [Handle -> {"none", "broken", "open"}]
  /\ transaction \in [Handle -> BOOLEAN]
  /\ opened \in [Handle -> Nat]
  /\ pending \in [Handle -> BOOLEAN]
  /\ lists \in [Handle -> 0 .. MaxLists]
  /\ result \in [Handle -> [call : Calls, ok : BOOLEAN]]
  /\ careless \in [Handle -> BOOLEAN]

Init ==
  /\ initialized = FALSE
  /\ stage = [h \in Handle |-> "new"]
  /\ db = [h \in Handle |-> "none"]
  /\ transaction = [h \in Handle |-> FALSE]
  /\ opened = [h \in Handle |-> 0]
  /\ pending = [h \in Handle |-> FALSE]
  /\ lists = [h \in Handle |-> 0]
  /\ result = [h \in Handle |-> [call |-> "none", ok |-> TRUE]]
  /\ careless = [h \in Handle |-> FALSE]

Returns(h, call, ok) ==
  result' = [result EXCEPT ![h] = [call |-> call, ok |-> ok]]

----------------------------------------------------------------------------
(* Setting up and connecting                                               *)

\* libdbo_connection_setup: the backend is made and initialized, or freed
\* again when sqlite3_initialize fails.  A handle that has a backend is left as
\* it is, so that after a shutdown it does not initialize the library again.
Setup(h) ==
  /\ \/ /\ stage[h] = "new"
        /\ initialized' = TRUE
        /\ stage' = [stage EXCEPT ![h] = "live"]
        /\ Returns(h, "setup", TRUE)
     \/ /\ stage[h] = "new" /\ ~initialized
        /\ Returns(h, "setup", FALSE)
        /\ UNCHANGED <<initialized, stage>>
     \/ /\ stage[h] = "live"
        /\ Returns(h, "setup", TRUE)
        /\ UNCHANGED <<initialized, stage>>
  /\ UNCHANGED <<db, transaction, sqlite, lists, careless>>

\* Mutant: a connection may be connected again.
ReconnectAllowed(h) == initialized

MayConnect(h) == initialized /\ db[h] = "none"

\* sqlite3_open_v2 makes a connection object even when it fails, and the
\* failure leaves the handle with it.  When the busy handler cannot be set the
\* connection is closed again.
Connect(h) ==
  /\ stage[h] = "live"
  /\ \/ /\ MayConnect(h)
        /\ \E d \in {"open", "broken"} :
             /\ db' = [db EXCEPT ![h] = d]
             /\ Returns(h, "connect", d = "open")
        /\ opened' = [opened EXCEPT ![h] = @ + 1]
     \/ /\ Returns(h, "connect", FALSE)
        /\ UNCHANGED <<db, opened>>
  /\ UNCHANGED <<initialized, stage, transaction, pending, lists, careless>>

----------------------------------------------------------------------------
(* Result lists                                                            *)

\* libdbo_backend_sqlite_read: fails without a working connection, and may
\* fail with one (SQLITE_BUSY).
Read(h) ==
  /\ stage[h] = "live"
  /\ \/ /\ initialized /\ db[h] = "open"
        /\ lists[h] < MaxLists
        /\ lists' = [lists EXCEPT ![h] = @ + 1]
        /\ Returns(h, "read", TRUE)
     \/ /\ Returns(h, "read", FALSE)
        /\ UNCHANGED lists
  /\ UNCHANGED <<initialized, stage, db, transaction, sqlite, careless>>

\* Mutant: the last list is freed twice.
FreeListTwice(h) ==
  /\ stage[h] # "new"
  /\ lists' = [lists EXCEPT ![h] = @ - 1]
  /\ UNCHANGED <<initialized, stage, db, transaction, sqlite, result, careless>>

\* libdbo_result_list_free finalizes the statement, whatever has become of the
\* handle.
FreeList(h) ==
  /\ lists[h] > 0
  /\ lists' = [lists EXCEPT ![h] = @ - 1]
  /\ UNCHANGED <<initialized, stage, db, transaction, sqlite, result, careless>>

----------------------------------------------------------------------------
(* Transactions                                                            *)

\* Mutant: the whole statement is given to sqlite3_prepare_v2.
WholeStatement(call) == TRUE

\* sqlite3_prepare_v2 is told that the SQL is sizeof(sql) bytes long, which is
\* the size of the pointer: it sees "BEGIN TR", "COMMIT T" and "ROLLBACK", or
\* "BEGI", "COMM" and "ROLL".  These are the lengths that end after a word the
\* grammar allows a statement to end with.
Complete ==
  [begin    |-> {5, 6, 17},      \* BEGIN TRANSACTION
   commit   |-> {6, 7, 18},      \* COMMIT TRANSACTION
   rollback |-> {8, 9, 20}]      \* ROLLBACK TRANSACTION

Accepted(call) == PointerSize \in Complete[call]

\* The statement can be prepared and stepped.
Executable(h, call) == initialized /\ db[h] = "open" /\ Accepted(call)

TransactionBegin(h) ==
  /\ stage[h] = "live"
  /\ LET ok == ~transaction[h] /\ ~pending[h] /\ Executable(h, "begin") IN
     /\ Returns(h, "begin", ok)
     /\ transaction' = [transaction EXCEPT ![h] = @ \/ ok]
     /\ pending' = [pending EXCEPT ![h] = @ \/ ok]
  /\ UNCHANGED <<initialized, stage, db, opened, lists, careless>>

\* A commit or a rollback: SQLite may refuse it (SQLITE_BUSY), and then both the
\* flag and the transaction stay.
TransactionEnd(h, call) ==
  /\ stage[h] = "live"
  /\ \E willing \in BOOLEAN :
       LET ok == transaction[h] /\ Executable(h, call) /\ willing IN
       /\ Returns(h, call, ok)
       /\ transaction' = [transaction EXCEPT ![h] = @ /\ ~ok]
       /\ pending' = [pending EXCEPT ![h] = @ /\ ~ok]
  /\ UNCHANGED <<initialized, stage, db, opened, lists, careless>>

TransactionCommit(h) == TransactionEnd(h, "commit")

TransactionRollback(h) == TransactionEnd(h, "rollback")

----------------------------------------------------------------------------
(* Disconnecting, freeing and shutting down                                *)

\* sqlite3_close refuses to close a connection with prepared statements.
Closable(h) == initialized /\ db[h] # "none" /\ lists[h] = 0

\* What libdbo_backend_sqlite_disconnect does to the handle: the rollback's
\* outcome is ignored, for a close rolls back as well.  A rollback that
\* succeeds stays done when the close is refused.
Close(h) ==
  /\ db' = [db EXCEPT ![h] = IF Closable(h) THEN "none" ELSE @]
  /\ opened' = [opened EXCEPT ![h] = IF Closable(h) THEN @ - 1 ELSE @]
  /\ \E willing \in BOOLEAN :
       LET ok == transaction[h] /\ Executable(h, "rollback") /\ willing IN
       /\ transaction' = [transaction EXCEPT ![h] = @ /\ ~ok]
       /\ pending' = [pending EXCEPT ![h] = @ /\ ~ok /\ ~Closable(h)]

\* Mutant: the handle forgets the connection before it is closed.
ForgetAndClose(h) ==
  /\ stage[h] = "live"
  /\ Returns(h, "disconnect", Closable(h))
  /\ db' = [db EXCEPT ![h] = "none"]
  /\ opened' = [opened EXCEPT ![h] = IF Closable(h) THEN @ - 1 ELSE @]
  /\ UNCHANGED <<initialized, stage, transaction, pending, lists, careless>>

\* Mutant: a disconnect that SQLite refuses returns OK.
DisconnectAnyway(h) ==
  /\ stage[h] = "live"
  /\ Returns(h, "disconnect", initialized /\ db[h] # "none")
  /\ Close(h)
  /\ UNCHANGED <<initialized, stage, lists, careless>>

Disconnect(h) ==
  /\ stage[h] = "live"
  /\ Returns(h, "disconnect", Closable(h))
  /\ Close(h)
  /\ UNCHANGED <<initialized, stage, lists, careless>>

\* libdbo_connection_free: the handle is disconnected, which is tried twice,
\* and its memory is gone, whether SQLite has closed the connection or not.
Free(h) ==
  /\ stage[h] = "live"
  /\ stage' = [stage EXCEPT ![h] = "freed"]
  /\ Close(h)
  /\ careless' = [careless EXCEPT ![h] = @ \/ lists[h] > 0]
  /\ UNCHANGED <<initialized, lists, result>>

\* libdbo_backend_factory_shutdown, through a backend made for the purpose.  It
\* asks nothing about the handles there are.
Shutdown ==
  /\ \/ initialized /\ initialized' = FALSE
     \/ UNCHANGED initialized
  /\ careless' = [h \in Handle |->
                    careless[h] \/ (stage[h] = "live" /\ db[h] # "none")]
  /\ UNCHANGED <<stage, db, transaction, sqlite, lists, result>>

----------------------------------------------------------------------------

Use(h) ==
  \/ Setup(h) \/ Connect(h)
  \/ Read(h) \/ FreeList(h)
  \/ TransactionBegin(h) \/ TransactionCommit(h) \/ TransactionRollback(h)
  \/ Disconnect(h) \/ Free(h)

Next == (\E h \in Handle : Use(h)) \/ Shutdown

Spec == Init /\ [][Next]_vars

----------------------------------------------------------------------------
(* Properties                                                              *)

(***************************************************************************)
(* A live handle refers to every SQLite connection it has opened and not   *)
(* closed, and a freed handle has left none behind, unless the program     *)
(* freed it before its result lists or shut the library down before it:    *)
(* failed connects, refused disconnects and shutdowns at other times leak  *)
(* nothing.                                                                *)
(***************************************************************************)
NothingLeaks ==
  \A h \in Handle :
    opened[h] = (IF stage[h] = "live" /\ db[h] # "none" THEN 1 ELSE 0)
      \/ (stage[h] = "freed" /\ careless[h] /\ opened[h] <= 1)

(***************************************************************************)
(* A result list never outlives the connection it reads from: while there  *)
(* is one a live handle keeps its connection, however often it is told to  *)
(* disconnect.                                                             *)
(***************************************************************************)
ListsKeepConnection ==
  \A h \in Handle :
    lists[h] > 0 => opened[h] > 0 /\ (stage[h] = "live" => db[h] = "open")

(***************************************************************************)
(* No statement is ever part of a transaction: what SqliteStore does step  *)
(* by step is committed step by step.                                      *)
(***************************************************************************)
AutocommitAlways == \A h \in Handle : ~transaction[h] /\ ~pending[h]

(***************************************************************************)
(* backend.h: transaction_begin is to "begin a transaction for a database  *)
(* connection".  It does on a connected handle that is in none.            *)
(***************************************************************************)
BeginBegins ==
  [][\A h \in Handle :
       (TransactionBegin(h) /\ initialized /\ db[h] = "open" /\ ~transaction[h])
         => transaction'[h]]_vars

=============================================================================
