----------------------------- MODULE Connections -----------------------------
(***************************************************************************)
(* The connections of a program, over any of the backends: each call of    *)
(* libdbo_connection.c goes through libdbo_backend.c to the handler of the *)
(* handle's backend.  A handle has the variables of its backend's module,  *)
(* whose names the modules share; the shutdown of the library shuts all    *)
(* the backends down.                                                      *)
(***************************************************************************)
EXTENDS SqliteConnection

VARIABLES
  backend,           \* the backend that each handle's configuration names
  mysqlInitialized,  \* __mysql_initialized
  couchInitialized,  \* __couchdb_initialized
  cut,               \* MySQL: lists of connections that have been closed
  url                \* CouchDB: does the handle have a URL?

others == <<mysqlInitialized, couchInitialized, cut, url>>
allVars == <<vars, backend, others>>

My == INSTANCE MysqlConnection WITH initialized <- mysqlInitialized

Couch == INSTANCE CouchConnection WITH initialized <- couchInitialized

Configured == {"sqlite", "mysql", "couchdb", "unknown"}

ConnectionsInit ==
  /\ Init
  /\ backend \in [Handle -> Configured]
  /\ mysqlInitialized = FALSE /\ couchInitialized = FALSE
  /\ cut = [h \in Handle |-> 0]
  /\ url = [h \in Handle |-> FALSE]

----------------------------------------------------------------------------

\* libdbo_backend_factory_get_backend knows no backend of that name.
UnknownBackend(h) ==
  /\ stage[h] = "new" /\ backend[h] = "unknown"
  /\ Returns(h, "setup", FALSE)
  /\ UNCHANGED <<initialized, stage, db, transaction, sqlite, lists, careless>>

\* Every call but set up and free needs the backend that set up has made.
NoBackend(h) ==
  /\ stage[h] = "new"
  /\ \E call \in Calls \ {"none", "setup"} : Returns(h, call, FALSE)
  /\ UNCHANGED <<initialized, stage, db, transaction, sqlite, lists, careless>>

\* Set up leaves a handle that has a backend as it is, which Setup has for
\* SQLite.
SetupAgain(h) ==
  /\ stage[h] = "live" /\ backend[h] # "sqlite"
  /\ Returns(h, "setup", TRUE)
  /\ UNCHANGED <<initialized, stage, db, transaction, sqlite, lists, careless>>

UseAny(h) ==
  /\ \/ /\ UnknownBackend(h) \/ NoBackend(h) \/ SetupAgain(h)
        /\ UNCHANGED others
     \/ /\ backend[h] = "sqlite" /\ Use(h)
        /\ UNCHANGED others
     \/ /\ backend[h] = "mysql" /\ My!Use(h)
        /\ UNCHANGED <<initialized, pending, couchInitialized, url>>
     \/ /\ backend[h] = "couchdb" /\ Couch!Use(h)
        /\ UNCHANGED <<initialized, transaction, pending, lists,
                       mysqlInitialized, cut>>
  /\ UNCHANGED backend

\* libdbo_backend_factory_shutdown goes on when SQLite's fails.
ShutdownAll ==
  /\ Shutdown
  /\ My!Shutdown
  /\ Couch!Shutdown
  /\ UNCHANGED backend

ConnectionsNext == (\E h \in Handle : UseAny(h)) \/ ShutdownAll

ConnectionsSpec == ConnectionsInit /\ [][ConnectionsNext]_allVars

----------------------------------------------------------------------------
(* Properties, besides those of SqliteConnection                           *)

SeenAs(h) == backend[h] # "couchdb"

Promise ==
  INSTANCE ConnectionPromise WITH
    open <- {h \in Handle : SeenAs(h) /\ stage[h] = "live" /\ db[h] = "open"},
    answer <- [h \in Handle |->
                 IF SeenAs(h) THEN result[h] ELSE [call |-> "none", ok |-> TRUE]]

(***************************************************************************)
(* A program can tell from the answers which of its SQL connections are    *)
(* open: through failed connects and refused disconnects, over shutdowns   *)
(* and the set up of other handles, and however many lists are left.       *)
(* CouchDB's can be read from after a disconnect, and are not covered.     *)
(***************************************************************************)
AnswersTellState == Promise!Init /\ [][Promise!Next]_(Promise!vars)

=============================================================================
