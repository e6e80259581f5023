--------------------------- MODULE MysqlConnection ---------------------------
(***************************************************************************)
(* The life of connections to MySQL: the handlers of                       *)
(* libdbo_backend_mysql.c for set up, connect, transactions, disconnect,   *)
(* free and shutdown, and the result lists read from a connection.         *)
(*                                                                         *)
(* mysql_close closes a connection whatever is left on it, and a statement *)
(* of a closed connection can still be closed: its result list has no more *)
(* rows.                                                                   *)
(***************************************************************************)
EXTENDS Naturals

CONSTANTS
  Handle,        \* connections the program makes, each of them once
  MaxLists       \* bound: result lists open on a connection at a time

VARIABLES
  initialized,   \* __mysql_initialized, shared by all handles
  stage,         \* has the program set the connection up, has it freed it?
  db,            \* the handle's MYSQL*
  transaction,   \* the handle's transaction flag
  opened,        \* MYSQL objects of the handle that are not closed
  lists,         \* result lists of the handle's open connection
  cut,           \* result lists of connections that have been closed
  result,        \* the last call on the handle and what it returned
  careless       \* history: was the library shut down before the connection?

vars ==
  <<initialized, stage, db, transaction, opened, lists, cut, result, careless>>

Calls == {"none", "setup", "connect", "read", "begin", "commit", "rollback",
          "disconnect"}

TypeOK ==
  /\ initialized \in BOOLEAN
  /\ stage \in [Handle -> {"new", "live", "freed"}]
  /\ db \in [Handle -> {"none", "open"}]
  /\ transaction \in [Handle -> BOOLEAN]
  /\ opened \in [Handle -> Nat]
  /\ lists \in [Handle -> 0 .. MaxLists]
  /\ cut \in [Handle -> 0 .. MaxLists]
  /\ result \in [Handle -> [call : Calls, ok : BOOLEAN]]
  /\ careless \in [Handle -> BOOLEAN]

Init ==
  /\ initialized = FALSE
  /\ stage = [h \in Handle |-> "new"]
  /\ db = [h \in Handle |-> "none"]
  /\ transaction = [h \in Handle |-> FALSE]
  /\ opened = [h \in Handle |-> 0]
  /\ lists = [h \in Handle |-> 0]
  /\ cut = [h \in Handle |-> 0]
  /\ result = [h \in Handle |-> [call |-> "none", ok |-> TRUE]]
  /\ careless = [h \in Handle |-> FALSE]

Returns(h, call, ok) ==
  result' = [result EXCEPT ![h] = [call |-> call, ok |-> ok]]

----------------------------------------------------------------------------

\* The first handle after the start or a shutdown initializes the library.
Setup(h) ==
  /\ stage[h] = "new"
  /\ \/ /\ initialized' = TRUE
        /\ stage' = [stage EXCEPT ![h] = "live"]
        /\ Returns(h, "setup", TRUE)
     \/ /\ ~initialized
        /\ Returns(h, "setup", FALSE)
        /\ UNCHANGED <<initialized, stage>>
  /\ UNCHANGED <<db, transaction, opened, lists, cut, careless>>

\* When any of mysql_options, mysql_real_connect and mysql_autocommit fails the
\* MYSQL object is closed again.
Connect(h) ==
  /\ stage[h] = "live"
  /\ \/ /\ initialized /\ db[h] = "none"
        /\ db' = [db EXCEPT ![h] = "open"]
        /\ opened' = [opened EXCEPT ![h] = @ + 1]
        /\ Returns(h, "connect", TRUE)
     \/ /\ Returns(h, "connect", FALSE)
        /\ UNCHANGED <<db, opened>>
  /\ UNCHANGED <<initialized, stage, transaction, lists, cut, careless>>

\* A read fails without a connection and may fail with one.
Read(h) ==
  /\ stage[h] = "live"
  /\ \/ /\ initialized /\ db[h] = "open"
        /\ lists[h] + cut[h] < MaxLists
        /\ lists' = [lists EXCEPT ![h] = @ + 1]
        /\ Returns(h, "read", TRUE)
     \/ /\ Returns(h, "read", FALSE)
        /\ UNCHANGED lists
  /\ UNCHANGED <<initialized, stage, db, transaction, opened, cut, careless>>

\* libdbo_result_list_free closes the statement.
FreeList(h) ==
  /\ \/ /\ lists[h] > 0
        /\ lists' = [lists EXCEPT ![h] = @ - 1]
        /\ UNCHANGED cut
     \/ /\ cut[h] > 0
        /\ cut' = [cut EXCEPT ![h] = @ - 1]
        /\ UNCHANGED lists
  /\ UNCHANGED <<initialized, stage, db, transaction, opened, result, careless>>

----------------------------------------------------------------------------
(* Transactions                                                            *)

\* What MySQL allows after BEGIN, COMMIT and ROLLBACK, and what the statements
\* have there.
Suffixes == {"", "WORK"}
Suffix == "TRANSACTION"

\* The statement can be prepared and executed.
Executable(h) == initialized /\ db[h] = "open" /\ Suffix \in Suffixes

TransactionBegin(h) ==
  /\ stage[h] = "live"
  /\ LET ok == ~transaction[h] /\ Executable(h) IN
     /\ Returns(h, "begin", ok)
     /\ transaction' = [transaction EXCEPT ![h] = @ \/ ok]
  /\ UNCHANGED <<initialized, stage, db, opened, lists, cut, careless>>

TransactionEnd(h, call) ==
  /\ stage[h] = "live"
  /\ LET ok == transaction[h] /\ Executable(h) IN
     /\ Returns(h, call, ok)
     /\ transaction' = [transaction EXCEPT ![h] = @ /\ ~ok]
  /\ UNCHANGED <<initialized, stage, db, opened, lists, cut, careless>>

TransactionCommit(h) == TransactionEnd(h, "commit")

TransactionRollback(h) == TransactionEnd(h, "rollback")

----------------------------------------------------------------------------
(* Disconnecting, freeing and shutting down                                *)

Closable(h) == initialized /\ db[h] = "open"

\* What libdbo_backend_mysql_disconnect does to the handle.  The flag of a
\* transaction that cannot be rolled back stays set.
Close(h) ==
  IF Closable(h)
  THEN /\ db' = [db EXCEPT ![h] = "none"]
       /\ opened' = [opened EXCEPT ![h] = @ - 1]
       /\ transaction' = [transaction EXCEPT ![h] = @ /\ ~Executable(h)]
       /\ lists' = [lists EXCEPT ![h] = 0]
       /\ cut' = [cut EXCEPT ![h] = @ + lists[h]]
  ELSE UNCHANGED <<db, opened, transaction, lists, cut>>

Disconnect(h) ==
  /\ stage[h] = "live"
  /\ Returns(h, "disconnect", Closable(h))
  /\ Close(h)
  /\ UNCHANGED <<initialized, stage, careless>>

\* libdbo_connection_free.
Free(h) ==
  /\ stage[h] = "live"
  /\ stage' = [stage EXCEPT ![h] = "freed"]
  /\ Close(h)
  /\ UNCHANGED <<initialized, result, careless>>

\* mysql_library_end is called whatever handles there are.
Shutdown ==
  /\ initialized' = FALSE
  /\ careless' = [h \in Handle |->
                    careless[h] \/ (stage[h] = "live" /\ db[h] # "none")]
  /\ UNCHANGED <<stage, db, transaction, opened, lists, cut, result>>

----------------------------------------------------------------------------

Use(h) ==
  \/ Setup(h) \/ Connect(h)
  \/ Read(h) \/ FreeList(h)
  \/ TransactionBegin(h) \/ TransactionCommit(h) \/ TransactionRollback(h)
  \/ Disconnect(h) \/ Free(h)

Next == (\E h \in Handle : Use(h)) \/ Shutdown

Spec == Init /\ [][Next]_vars

=============================================================================
