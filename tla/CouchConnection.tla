--------------------------- MODULE CouchConnection ---------------------------
(***************************************************************************)
(* The life of connections to CouchDB: the handlers of                     *)
(* libdbo_backend_couchdb.c for set up, connect, requests, transactions,   *)
(* disconnect, free and shutdown.                                          *)
(*                                                                         *)
(* To connect is to remember the URL.  Every request makes a CURL handle   *)
(* in the place of the one before it, which is cleaned up first, and a     *)
(* disconnect gives it up.                                                 *)
(***************************************************************************)
EXTENDS Naturals

CONSTANTS
  Handle         \* connections the program makes, each of them once

VARIABLES
  initialized,   \* __couchdb_initialized, shared by all handles
  stage,         \* has the program set the connection up, has it freed it?
  url,           \* does the handle have a URL?
  db,            \* the handle's CURL*
  opened,        \* CURL handles of the handle that are not cleaned up
  result,        \* the last call on the handle and what it returned
  careless       \* history: was the library shut down before the connection?

vars == <<initialized, stage, url, db, opened, result, careless>>

Returns(h, call, ok) ==
  result' = [result EXCEPT ![h] = [call |-> call, ok |-> ok]]

----------------------------------------------------------------------------

Setup(h) ==
  /\ stage[h] = "new"
  /\ \/ /\ initialized' = TRUE
        /\ stage' = [stage EXCEPT ![h] = "live"]
        /\ Returns(h, "setup", TRUE)
     \/ /\ ~initialized
        /\ Returns(h, "setup", FALSE)
        /\ UNCHANGED <<initialized, stage>>
  /\ UNCHANGED <<url, db, opened, careless>>

\* Refused once a request was made; no request is made here.  The configuration
\* may have no URL.
Connect(h) ==
  /\ stage[h] = "live"
  /\ \/ /\ initialized /\ db[h] = "none"
        /\ url' = [url EXCEPT ![h] = TRUE]
        /\ Returns(h, "connect", TRUE)
     \/ /\ Returns(h, "connect", FALSE)
        /\ UNCHANGED url
  /\ UNCHANGED <<initialized, stage, db, opened, careless>>

\* A read, as far as the connection is concerned.  It is enough to have a URL,
\* and a disconnect leaves it.
Request(h) ==
  /\ stage[h] = "live"
  /\ \/ /\ initialized /\ url[h]
        /\ \E made, ok \in BOOLEAN :
             /\ ok => made
             /\ db' = [db EXCEPT ![h] = IF made THEN "open" ELSE "none"]
             /\ opened' = [opened EXCEPT ![h] =
                             (@ - (IF db[h] = "open" THEN 1 ELSE 0))
                               + (IF made THEN 1 ELSE 0)]
             /\ Returns(h, "read", ok)
     \/ /\ Returns(h, "read", FALSE)
        /\ UNCHANGED <<db, opened>>
  /\ UNCHANGED <<initialized, stage, url, careless>>

\* Nothing is begun and nothing rolled back, which is no error.
Transaction(h, call) ==
  /\ stage[h] = "live"
  /\ Returns(h, call, initialized)
  /\ UNCHANGED <<initialized, stage, url, db, opened, careless>>

\* The CURL handle is cleaned up, if there is one.
Close(h) ==
  /\ db' = [db EXCEPT ![h] = IF initialized THEN "none" ELSE @]
  /\ opened' = [opened EXCEPT ![h] =
                  IF initialized /\ db[h] = "open" THEN @ - 1 ELSE @]

Disconnect(h) ==
  /\ stage[h] = "live"
  /\ Returns(h, "disconnect", initialized)
  /\ Close(h)
  /\ UNCHANGED <<initialized, stage, url, careless>>

\* libdbo_connection_free.
Free(h) ==
  /\ stage[h] = "live"
  /\ stage' = [stage EXCEPT ![h] = "freed"]
  /\ url' = [url EXCEPT ![h] = FALSE]
  /\ Close(h)
  /\ UNCHANGED <<initialized, result, careless>>

\* curl_global_cleanup is called whatever handles there are.
Shutdown ==
  /\ initialized' = FALSE
  /\ careless' = [h \in Handle |->
                    careless[h] \/ (stage[h] = "live" /\ db[h] # "none")]
  /\ UNCHANGED <<stage, url, db, opened, result>>

Use(h) ==
  \/ Setup(h) \/ Connect(h) \/ Request(h)
  \/ \E call \in {"begin", "commit", "rollback"} : Transaction(h, call)
  \/ Disconnect(h) \/ Free(h)

=============================================================================
