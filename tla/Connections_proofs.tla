------------------------- MODULE Connections_proofs -------------------------
(***************************************************************************)
(* The properties of connections for any number of handles and result      *)
(* lists, and for both sizes of a pointer: first of handles over SQLite    *)
(* alone, by the specification of SqliteConnection, then of handles each   *)
(* over a backend of its own choice.                                       *)
(***************************************************************************)
EXTENDS Connections, TLAPS

----------------------------------------------------------------------------
(* Handles over SQLite                                                     *)

\* A connection is only open, or left broken, while the library is initialized:
\* a shutdown that takes it from under a live handle was careless.
Attached(h) ==
  (stage[h] = "live" /\ db[h] # "none") => initialized \/ careless[h]

\* What a handle refers to is what SQLite has open for it, and a freed handle
\* still refers to something only when the program was careless.
Accounted(h) ==
  /\ opened[h] = (IF db[h] = "none" THEN 0 ELSE 1)
  /\ stage[h] = "new" => db[h] = "none" /\ lists[h] = 0
  /\ (stage[h] = "freed" /\ db[h] # "none") => careless[h]

\* Result lists are read from, and hold on to, an open connection.
Held(h) == lists[h] > 0 => db[h] = "open"

Idle(h) == ~transaction[h] /\ ~pending[h]

\* What handles of all backends have in common.
Base ==
  /\ TypeOK
  /\ \A h \in Handle : Accounted(h) /\ Held(h) /\ Idle(h)

Inv == Base /\ \A h \in Handle : Attached(h)

----------------------------------------------------------------------------

\* Neither size of a pointer makes a statement of the first characters of
\* BEGIN TRANSACTION or of COMMIT TRANSACTION.
LEMMA NoBegin == ~Accepted("begin")
  BY PointerSizeType DEF Accepted, Complete

\* The invariant holds initially.
LEMMA InvInit == Init => Inv
<1> SUFFICES ASSUME Init PROVE Inv
  OBVIOUS
<1>1. [call |-> "none", ok |-> TRUE] \in [call : Calls, ok : BOOLEAN]
  BY DEF Calls
<1>2. opened \in [Handle -> Nat] /\ lists \in [Handle -> 0 .. MaxLists]
  <2>1. opened = [h \in Handle |-> 0] /\ lists = [h \in Handle |-> 0]
    BY DEF Init
  <2>2. QED
    BY <2>1, MaxListsType
<1>3. TypeOK
  BY <1>1, <1>2 DEF Init, TypeOK
<1>4. \A h \in Handle : opened[h] = 0 /\ ~(lists[h] > 0) /\ lists[h] = 0
  <2>1. opened = [h \in Handle |-> 0] /\ lists = [h \in Handle |-> 0]
    BY DEF Init
  <2>2. \A h \in Handle : opened[h] = 0
    BY <2>1, Zenon
  <2>3. \A h \in Handle : lists[h] = 0
    BY <2>1, Zenon
  <2>4. ~(0 > 0)
    OBVIOUS
  <2>5. QED
    BY <2>2, <2>3, <2>4, Zenon
<1>5. \A h \in Handle : Attached(h) /\ Accounted(h) /\ Held(h) /\ Idle(h)
  BY <1>4 DEF Init, Attached, Accounted, Held, Idle
<1>6. QED
  BY <1>3, <1>5 DEF Inv, Base

\* What a call returns is well typed.
LEMMA ReturnsType ==
  ASSUME TypeOK, NEW h \in Handle, NEW call \in Calls, NEW ok \in BOOLEAN,
         Returns(h, call, ok)
  PROVE  result' \in [Handle -> [call : Calls, ok : BOOLEAN]]
  BY DEF TypeOK, Returns

\* What disconnecting does: the connection is closed, or everything stays.
LEMMA CloseEffect ==
  ASSUME Base, NEW h \in Handle, Close(h)
  PROVE  /\ db' = [db EXCEPT ![h] = IF Closable(h) THEN "none" ELSE @]
         /\ opened' = [opened EXCEPT ![h] = IF Closable(h) THEN @ - 1 ELSE @]
         /\ transaction' = transaction
         /\ pending' = pending
<1>1. \A g \in Handle : ~transaction[g] /\ ~pending[g]
  BY DEF Base, Idle
<1>2. /\ transaction' = [transaction EXCEPT ![h] = FALSE]
      /\ pending' = [pending EXCEPT ![h] = FALSE]
  BY <1>1 DEF Close
<1>3. transaction' = transaction /\ pending' = pending
  BY <1>1, <1>2 DEF Base, TypeOK
<1>4. QED
  BY <1>3 DEF Close

\* The use of a handle keeps the types.
LEMMA TypeUse ==
  ASSUME Base, NEW u \in Handle, Use(u)
  PROVE  TypeOK'
<1> USE DEF TypeOK, sqlite
<1>0. TypeOK /\ {"none", "setup", "connect", "read", "begin", "commit",
                 "rollback", "disconnect"} = Calls
  BY DEF Base, Calls
<1>2. ASSUME NEW h \in Handle, Setup(h) PROVE TypeOK'
  <2>1. result' \in [Handle -> [call : Calls, ok : BOOLEAN]]
    BY <1>0, <1>2, ReturnsType DEF Setup
  <2>2. QED
    BY <1>0, <1>2, <2>1 DEF Setup
<1>3. ASSUME NEW h \in Handle, Connect(h) PROVE TypeOK'
  <2>1. result' \in [Handle -> [call : Calls, ok : BOOLEAN]]
    BY <1>0, <1>3, ReturnsType DEF Connect
  <2>2. db' \in [Handle -> {"none", "broken", "open"}]
    BY <1>0, <1>3 DEF Connect
  <2>3. opened' \in [Handle -> Nat]
    <3>1. opened' = opened \/ opened' = [opened EXCEPT ![h] = @ + 1]
      BY <1>3 DEF Connect
    <3>2. QED
      BY <1>0, <3>1
  <2>4. QED
    BY <1>0, <1>3, <2>1, <2>2, <2>3 DEF Connect
<1>4. ASSUME NEW h \in Handle, Read(h) PROVE TypeOK'
  <2>1. result' \in [Handle -> [call : Calls, ok : BOOLEAN]]
    BY <1>0, <1>4, ReturnsType DEF Read
  <2>2. lists' \in [Handle -> 0 .. MaxLists]
    <3>1. \/ lists' = lists
          \/ lists[h] < MaxLists /\ lists' = [lists EXCEPT ![h] = @ + 1]
      BY <1>4 DEF Read
    <3>2. QED
      BY <1>0, <3>1, MaxListsType
  <2>3. QED
    BY <1>0, <1>4, <2>1, <2>2 DEF Read
<1>5. ASSUME NEW h \in Handle, FreeList(h) PROVE TypeOK'
  <2>1. lists' \in [Handle -> 0 .. MaxLists]
    BY <1>0, <1>5, MaxListsType DEF FreeList
  <2>2. QED
    BY <1>0, <1>5, <2>1 DEF FreeList
<1>6. ASSUME NEW h \in Handle, TransactionBegin(h) PROVE TypeOK'
  <2>1. PICK ok : /\ ok = (~transaction[h] /\ ~pending[h] /\ Executable(h, "begin"))
                  /\ Returns(h, "begin", ok)
    BY <1>6 DEF TransactionBegin
  <2>2. ok \in BOOLEAN
    BY <2>1
  <2>3. result' \in [Handle -> [call : Calls, ok : BOOLEAN]]
    BY <1>0, <2>1, <2>2, ReturnsType
  <2>4. QED
    BY <1>0, <1>6, <2>3 DEF TransactionBegin
<1>7. ASSUME NEW h \in Handle, NEW call \in {"commit", "rollback"},
             TransactionEnd(h, call)
      PROVE  TypeOK'
  <2>1. PICK willing \in BOOLEAN :
          Returns(h, call, transaction[h] /\ Executable(h, call) /\ willing)
    BY <1>7 DEF TransactionEnd
  <2>2. result' \in [Handle -> [call : Calls, ok : BOOLEAN]]
    BY <1>0, <2>1, ReturnsType
  <2>3. QED
    BY <1>0, <1>7, <2>2 DEF TransactionEnd
<1>8. ASSUME NEW h \in Handle, Disconnect(h) PROVE TypeOK'
  <2>1. Closable(h) \in BOOLEAN /\ Returns(h, "disconnect", Closable(h))
    BY <1>8 DEF Disconnect, Closable
  <2>2. result' \in [Handle -> [call : Calls, ok : BOOLEAN]]
    BY <1>0, <2>1, ReturnsType
  <2>3. opened' \in [Handle -> Nat]
    BY <1>8, CloseEffect DEF Disconnect, Closable, Base, Accounted
  <2>4. QED
    BY <1>0, <1>8, <2>2, <2>3, CloseEffect DEF Disconnect
<1>9. ASSUME NEW h \in Handle, Free(h) PROVE TypeOK'
  <2>1. opened' \in [Handle -> Nat]
    BY <1>9, CloseEffect DEF Free, Closable, Base, Accounted
  <2>2. QED
    BY <1>0, <1>9, <2>1, CloseEffect DEF Free
<1>10. QED
  BY <1>2, <1>3, <1>4, <1>5, <1>6, <1>7, <1>8, <1>9
     DEF Use, TransactionCommit, TransactionRollback

\* The use of a handle keeps what is said of each of them, and leaves the
\* others alone.
LEMMA HandleUse ==
  ASSUME Base, NEW u \in Handle, Use(u), NEW g \in Handle, Attached(g)
  PROVE  (Attached(g) /\ Accounted(g) /\ Held(g) /\ Idle(g))'
<1> DEFINE Kept == (Attached(g) /\ Accounted(g) /\ Held(g) /\ Idle(g))'
<1> USE DEF Base, TypeOK, Attached, Accounted, Held, Idle, sqlite
<1>2. ASSUME NEW h \in Handle, Setup(h) PROVE Kept
  BY <1>2 DEF Setup
<1>3. ASSUME NEW h \in Handle, Connect(h) PROVE Kept
  <2>1. CASE UNCHANGED <<db, opened>>
    BY <1>3, <2>1 DEF Connect
  <2>2. CASE MayConnect(h) /\ \E d \in {"open", "broken"} :
                                db' = [db EXCEPT ![h] = d]
    <3>1. /\ db[h] = "none" /\ db'[h] # "none" /\ initialized'
          /\ stage' = stage /\ lists' = lists
          /\ transaction' = transaction /\ pending' = pending
          /\ stage[h] = "live"
          /\ \A i \in Handle : i # h => db'[i] = db[i]
      BY <1>3, <2>2 DEF Connect, MayConnect
    <3>2. opened' = [opened EXCEPT ![h] = @ + 1]
      BY <1>3, <3>1 DEF Connect
    <3>3. opened[h] = 0 /\ ~(lists[h] > 0)
      BY <3>1
    <3>4. opened'[h] = 1 /\ \A i \in Handle : i # h => opened'[i] = opened[i]
      BY <3>2, <3>3
    <3>5. QED
      BY <1>3, <3>1, <3>3, <3>4 DEF Connect
  <2>3. QED
    BY <1>3, <2>1, <2>2 DEF Connect
<1>4. ASSUME NEW h \in Handle, Read(h) PROVE Kept
  BY <1>4 DEF Read
<1>5. ASSUME NEW h \in Handle, FreeList(h) PROVE Kept
  BY <1>5 DEF FreeList
<1>6. ASSUME NEW h \in Handle, TransactionBegin(h) PROVE Kept
  BY <1>6, NoBegin DEF TransactionBegin, Executable
<1>7. ASSUME NEW h \in Handle, NEW call \in {"commit", "rollback"},
             TransactionEnd(h, call)
      PROVE  Kept
  BY <1>7 DEF TransactionEnd
<1>8. ASSUME NEW h \in Handle, Disconnect(h) PROVE Kept
  BY <1>8, CloseEffect DEF Disconnect, Closable
<1>9. ASSUME NEW h \in Handle, Free(h) PROVE Kept
  BY <1>9, CloseEffect DEF Free, Closable
<1>10. QED
  BY <1>2, <1>3, <1>4, <1>5, <1>6, <1>7, <1>8, <1>9
     DEF Use, TransactionCommit, TransactionRollback

\* The invariant of a handle's life, from which the theorems follow.
LEMMA Invariant == Spec => []Inv
<1>1. Inv /\ [Next]_vars => Inv'
  <2> SUFFICES ASSUME Inv, [Next]_vars PROVE Inv'
    OBVIOUS
  <2>1. CASE UNCHANGED vars
    BY <2>1 DEF Inv, Base, TypeOK, Attached, Accounted, Held, Idle, vars, sqlite
  <2>2. CASE Shutdown
    BY <2>2 DEF Inv, Base, TypeOK, Attached, Accounted, Held, Idle, Shutdown, sqlite
  <2>3. ASSUME NEW h \in Handle, Use(h) PROVE Inv'
    BY <2>3, TypeUse, HandleUse DEF Inv, Base
  <2>4. QED
    BY <2>1, <2>2, <2>3 DEF Next
<1>2. QED
  BY InvInit, <1>1, PTL DEF Spec

\* The state of the handles is well typed.
THEOREM TypeCorrect == Spec => []TypeOK
<1>1. Inv => TypeOK
  BY DEF Inv, Base
<1>2. QED
  BY Invariant, <1>1, PTL

\* libdbo_backend_sqlite_connect, _disconnect and _free lose no SQLite
\* connection when the program ends things in order.
THEOREM NoLeak == Spec => []NothingLeaks
<1>1. Inv => NothingLeaks
  <2> SUFFICES ASSUME Inv, NEW h \in Handle
               PROVE  \/ opened[h] = (IF stage[h] = "live" /\ db[h] # "none"
                                      THEN 1 ELSE 0)
                      \/ stage[h] = "freed" /\ careless[h] /\ opened[h] <= 1
    BY DEF NothingLeaks
  <2>1. stage[h] \in {"new", "live", "freed"} /\ Accounted(h)
    BY DEF Inv, Base, TypeOK
  <2>2. opened[h] <= 1
    BY <2>1 DEF Accounted
  <2>3. QED
    BY <2>1, <2>2, Zenon DEF Accounted
<1>2. QED
  BY Invariant, <1>1, PTL

\* A connection stays open as long as a result list reads from it.
THEOREM ListsAreSafe == Spec => []ListsKeepConnection
<1>1. Inv => ListsKeepConnection
  BY DEF Inv, Base, TypeOK, Accounted, Held, ListsKeepConnection
<1>2. QED
  BY Invariant, <1>1, PTL

\* libdbo_backend_sqlite_transaction_begin never begins a transaction, with
\* pointers of 4 and of 8 bytes.
THEOREM NoTransactions == Spec => []AutocommitAlways
<1>1. Inv => AutocommitAlways
  BY DEF Inv, Base, Idle, AutocommitAlways
<1>2. QED
  BY Invariant, <1>1, PTL

----------------------------------------------------------------------------
(* Handles over any backend                                                *)

\* The handle's backend is initialized.
Running(h) ==
  \/ backend[h] = "sqlite" /\ initialized
  \/ backend[h] = "mysql" /\ mysqlInitialized
  \/ backend[h] = "couchdb" /\ couchInitialized

\* A connection is only there while its backend runs, or after a shutdown that
\* was careless.
Grounded(h) == stage[h] = "live" /\ db[h] # "none" => Running(h) \/ careless[h]

\* What each backend never does.
Kind(h) ==
  /\ backend[h] # "sqlite" => db[h] # "broken"
  /\ backend[h] = "couchdb" => lists[h] = 0
  /\ backend[h] = "unknown" => stage[h] = "new"

AllInv ==
  /\ Base
  /\ backend \in [Handle -> Configured] /\ cut \in [Handle -> Nat]
  /\ mysqlInitialized \in BOOLEAN /\ couchInitialized \in BOOLEAN
  /\ \A h \in Handle : Grounded(h) /\ Kind(h)

----------------------------------------------------------------------------

LEMMA AllInvInit == ConnectionsInit => AllInv
<1> SUFFICES ASSUME ConnectionsInit PROVE AllInv
  OBVIOUS
<1>1. Base
  BY InvInit DEF ConnectionsInit, Inv
<1>2. cut \in [Handle -> Nat]
  BY DEF ConnectionsInit
<1>3. \A h \in Handle : db[h] = "none" /\ lists[h] = 0 /\ stage[h] = "new"
  <2>1. lists = [h \in Handle |-> 0]
    BY DEF ConnectionsInit, Init
  <2>2. \A h \in Handle : lists[h] = 0
    BY <2>1, Zenon
  <2> QED
    BY <2>2 DEF ConnectionsInit, Init
<1> QED
  BY <1>1, <1>2, <1>3 DEF AllInv, ConnectionsInit, Grounded, Kind

----------------------------------------------------------------------------
(* A step of one handle                                                    *)

\* The other handles are what they were.
Alone(u) ==
  \A g \in Handle : g # u =>
    /\ stage'[g] = stage[g] /\ db'[g] = db[g] /\ opened'[g] = opened[g]
    /\ transaction'[g] = transaction[g] /\ pending'[g] = pending[g]
    /\ lists'[g] = lists[g] /\ careless'[g] = careless[g]

\* A handle that was initialized stays so.
StillRunning ==
  /\ initialized => initialized'
  /\ mysqlInitialized => mysqlInitialized'
  /\ couchInitialized => couchInitialized'

\* It is enough to look at the handle that is used.
LEMMA OneHandle ==
  ASSUME AllInv, NEW u \in Handle, Alone(u), StillRunning, TypeOK',
         backend' = backend, cut' \in [Handle -> Nat],
         mysqlInitialized' \in BOOLEAN, couchInitialized' \in BOOLEAN,
         (Accounted(u) /\ Held(u) /\ Idle(u) /\ Grounded(u) /\ Kind(u))'
  PROVE  AllInv'
<1>1. ASSUME NEW g \in Handle
      PROVE  (Accounted(g) /\ Held(g) /\ Idle(g) /\ Grounded(g) /\ Kind(g))'
  <2>1. CASE g = u
    BY <2>1
  <2>2. CASE g # u
    <3>1. Accounted(g) /\ Held(g) /\ Idle(g) /\ Grounded(g) /\ Kind(g)
      BY DEF AllInv, Base
    <3>2. (Accounted(g) /\ Held(g))'
      BY <2>2, <3>1 DEF Alone, Accounted, Held
    <3>3. (Idle(g) /\ Grounded(g) /\ Kind(g))'
      BY <2>2, <3>1 DEF Alone, StillRunning, Idle, Grounded, Running, Kind
    <3> QED
      BY <3>2, <3>3
  <2> QED
    BY <2>1, <2>2
<1> QED
  BY <1>1 DEF AllInv, Base

----------------------------------------------------------------------------
(* SQLite                                                                  *)

LEMMA SqliteAlone ==
  ASSUME Base, NEW u \in Handle, Use(u)
  PROVE  Alone(u) /\ (initialized => initialized')
<1> USE DEF Base, TypeOK, Alone, sqlite
<1>1. CASE Setup(u) \/ Connect(u) \/ Read(u) \/ FreeList(u)
  BY <1>1 DEF Setup, Connect, Read, FreeList
<1>2. CASE TransactionBegin(u)
  BY <1>2 DEF TransactionBegin
<1>3. CASE TransactionCommit(u) \/ TransactionRollback(u)
  BY <1>3 DEF TransactionCommit, TransactionRollback, TransactionEnd
<1>4. CASE Disconnect(u)
  BY <1>4, CloseEffect DEF Disconnect
<1>5. CASE Free(u)
  BY <1>5, CloseEffect DEF Free
<1> QED
  BY <1>1, <1>2, <1>3, <1>4, <1>5 DEF Use

LEMMA SqliteKeeps ==
  ASSUME AllInv, NEW u \in Handle, backend[u] = "sqlite", Use(u),
         UNCHANGED others, UNCHANGED backend
  PROVE  AllInv'
<1>1. Base /\ Attached(u)
  BY DEF AllInv, Grounded, Running, Attached
<1>2. TypeOK' /\ (Attached(u) /\ Accounted(u) /\ Held(u) /\ Idle(u))'
  BY <1>1, TypeUse, HandleUse
<1>3. Alone(u) /\ StillRunning
  BY <1>1, SqliteAlone DEF StillRunning, others
<1>4. (Grounded(u) /\ Kind(u))'
  BY <1>2 DEF Attached, Grounded, Running, Kind
<1>5. /\ cut' \in [Handle -> Nat]
      /\ mysqlInitialized' \in BOOLEAN /\ couchInitialized' \in BOOLEAN
  BY DEF AllInv, others
<1> QED
  BY <1>2, <1>3, <1>4, <1>5, OneHandle

----------------------------------------------------------------------------
(* MySQL                                                                   *)

\* What a call returns is well typed.
LEMMA MyReturnsType ==
  ASSUME TypeOK, NEW h \in Handle, NEW call \in Calls, NEW ok \in BOOLEAN,
         My!Returns(h, call, ok)
  PROVE  result' \in [Handle -> [call : Calls, ok : BOOLEAN]]
  BY DEF TypeOK, My!Returns

LEMMA CallsAre ==
  Calls = {"none", "setup", "connect", "read", "begin", "commit", "rollback",
           "disconnect"}
  BY DEF Calls

\* What is known of a handle of MySQL before its step.
LEMMA MyBefore ==
  ASSUME AllInv, NEW u \in Handle, backend[u] = "mysql"
  PROVE  /\ TypeOK /\ Accounted(u) /\ Held(u) /\ Idle(u)
         /\ db[u] \in {"none", "open"} /\ cut[u] \in Nat
         /\ lists[u] \in 0 .. MaxLists /\ opened[u] \in Nat
         /\ stage[u] = "live" /\ db[u] # "none" => mysqlInitialized \/ careless[u]
  BY DEF AllInv, Base, Kind, Grounded, Running, TypeOK

\* A step that leaves the connection and its lists alone.
LEMMA MyQuiet ==
  ASSUME AllInv, NEW u \in Handle, backend[u] = "mysql",
         result' \in [Handle -> [call : Calls, ok : BOOLEAN]],
         stage[u] # "freed", mysqlInitialized => mysqlInitialized',
         mysqlInitialized' \in BOOLEAN,
         stage' = stage \/ stage' = [stage EXCEPT ![u] = "live"],
         UNCHANGED <<db, transaction, opened, lists, cut, careless, initialized,
                     pending, couchInitialized, backend>>
  PROVE  AllInv'
<1>1. TypeOK /\ TypeOK'
  BY DEF AllInv, Base, TypeOK
<1>2. Alone(u) /\ StillRunning
  BY <1>1 DEF Alone, StillRunning, TypeOK
<1>3. (Accounted(u) /\ Held(u))'
  BY <1>1, MyBefore DEF Accounted, Held, TypeOK
<1>4. (Idle(u) /\ Kind(u))'
  BY <1>1, MyBefore DEF AllInv, Idle, Kind, TypeOK
<1>5. Grounded(u)'
  <2>1. CASE stage' = stage
    BY <2>1, MyBefore DEF Grounded, Running
  <2>2. CASE stage[u] = "new"
    BY <2>2, MyBefore DEF Accounted, Grounded
  <2>3. stage[u] \in {"new", "live"}
    BY <1>1 DEF TypeOK
  <2>4. stage[u] = "live" => stage' = stage
    BY <1>1 DEF TypeOK
  <2> QED
    BY <2>1, <2>2, <2>3, <2>4
<1>6. cut' \in [Handle -> Nat] /\ couchInitialized' \in BOOLEAN
  BY DEF AllInv
<1> QED
  BY <1>1, <1>2, <1>3, <1>4, <1>5, <1>6, OneHandle

\* A transaction call leaves everything as it is: no statement that begins one
\* is prepared, and none is open.
LEMMA MyTransaction ==
  ASSUME AllInv, NEW u \in Handle, backend[u] = "mysql",
         \/ My!TransactionBegin(u) \/ My!TransactionCommit(u)
         \/ My!TransactionRollback(u)
  PROVE  /\ transaction' = transaction
         /\ result' \in [Handle -> [call : Calls, ok : BOOLEAN]]
<1>1. TypeOK /\ ~transaction[u] /\ ~My!Executable(u)
  BY MyBefore DEF Idle, My!Executable, My!Suffix, My!Suffixes
<1>2. CASE My!TransactionBegin(u)
  <2>1. transaction' = transaction
    BY <1>1, <1>2 DEF My!TransactionBegin, TypeOK
  <2>2. My!Returns(u, "begin", FALSE)
    BY <1>1, <1>2 DEF My!TransactionBegin
  <2> QED
    BY <1>1, <2>1, <2>2, MyReturnsType, CallsAre
<1>3. ASSUME NEW call \in {"commit", "rollback"}, My!TransactionEnd(u, call)
      PROVE  /\ transaction' = transaction
             /\ result' \in [Handle -> [call : Calls, ok : BOOLEAN]]
  <2>1. transaction' = transaction
    BY <1>1, <1>3 DEF My!TransactionEnd, TypeOK
  <2>2. My!Returns(u, call, FALSE)
    BY <1>1, <1>3 DEF My!TransactionEnd
  <2> QED
    BY <1>1, <2>1, <2>2, MyReturnsType, CallsAre
<1> QED
  BY <1>2, <1>3 DEF My!TransactionCommit, My!TransactionRollback

\* A disconnect or a free: the connection and its lists go, or nothing does.
LEMMA MyCloseKeeps ==
  ASSUME AllInv, NEW u \in Handle, backend[u] = "mysql", stage[u] = "live",
         My!Close(u),
         stage' = stage \/ stage' = [stage EXCEPT ![u] = "freed"],
         result' \in [Handle -> [call : Calls, ok : BOOLEAN]],
         UNCHANGED <<mysqlInitialized, careless, initialized, pending,
                     couchInitialized, backend>>
  PROVE  AllInv'
<1>1. /\ TypeOK /\ Accounted(u) /\ Held(u) /\ ~transaction[u] /\ ~pending[u]
      /\ cut \in [Handle -> Nat] /\ db[u] \in {"none", "open"}
      /\ db[u] # "none" => mysqlInitialized \/ careless[u]
  BY MyBefore DEF Idle, AllInv
<1>2. /\ transaction' = transaction
      /\ IF mysqlInitialized /\ db[u] = "open"
         THEN /\ db' = [db EXCEPT ![u] = "none"]
              /\ opened' = [opened EXCEPT ![u] = @ - 1]
              /\ lists' = [lists EXCEPT ![u] = 0]
              /\ cut' = [cut EXCEPT ![u] = @ + lists[u]]
         ELSE UNCHANGED <<db, opened, lists, cut>>
  BY <1>1 DEF My!Close, My!Closable, TypeOK
<1>3. opened' \in [Handle -> Nat]
  BY <1>1, <1>2 DEF TypeOK, Accounted
<1>4. lists' \in [Handle -> 0 .. MaxLists] /\ cut' \in [Handle -> Nat]
  <2>1. /\ lists \in [Handle -> 0 .. MaxLists] /\ lists[u] \in Nat
        /\ 0 \in 0 .. MaxLists
    BY <1>1, MaxListsType DEF TypeOK
  <2>2. lists' = lists \/ lists' = [lists EXCEPT ![u] = 0]
    BY <1>2
  <2>3. cut' = cut \/ cut' = [cut EXCEPT ![u] = cut[u] + lists[u]]
    BY <1>2
  <2>4. lists' \in [Handle -> 0 .. MaxLists]
    BY <2>1, <2>2
  <2>5. cut' \in [Handle -> Nat]
    BY <1>1, <2>1, <2>3
  <2> QED
    BY <2>4, <2>5
<1>5. TypeOK'
  BY <1>1, <1>2, <1>3, <1>4, ZenonT(40) DEF TypeOK
<1>6. Alone(u) /\ StillRunning
  BY <1>1, <1>2 DEF Alone, StillRunning, TypeOK
<1>7. CASE mysqlInitialized /\ db[u] = "open"
  <2>1. db'[u] = "none" /\ opened'[u] = 0 /\ lists'[u] = 0
    BY <1>1, <1>2, <1>7 DEF TypeOK, Accounted
  <2>2. stage'[u] # "new"
    BY <1>1 DEF TypeOK
  <2>3. (Accounted(u) /\ Held(u))'
    BY <2>1, <2>2 DEF Accounted, Held
  <2>4. (Idle(u) /\ Grounded(u) /\ Kind(u))'
    BY <1>1, <1>2, <2>1 DEF Idle, Grounded, Kind
  <2> QED
    BY <1>4, <1>5, <1>6, <2>3, <2>4, OneHandle DEF AllInv
<1>8. CASE ~(mysqlInitialized /\ db[u] = "open")
  <2>1. UNCHANGED <<db, opened, lists, cut>> /\ (db[u] # "none" => careless[u])
    BY <1>1, <1>2, <1>8
  <2>2. stage'[u] # "new"
    BY <1>1 DEF TypeOK
  <2>3. (Accounted(u) /\ Held(u))'
    BY <1>1, <2>1, <2>2 DEF Accounted, Held
  <2>4. (Idle(u) /\ Grounded(u) /\ Kind(u))'
    BY <1>1, <1>2, <2>1 DEF Idle, Grounded, Kind
  <2> QED
    BY <1>4, <1>5, <1>6, <2>3, <2>4, OneHandle DEF AllInv
<1> QED
  BY <1>7, <1>8

LEMMA MyKeeps ==
  ASSUME AllInv, NEW u \in Handle, backend[u] = "mysql", My!Use(u),
         UNCHANGED <<initialized, pending, couchInitialized, url>>,
         UNCHANGED backend
  PROVE  AllInv'
<1>0. /\ TypeOK /\ Accounted(u) /\ Held(u) /\ Idle(u)
      /\ db[u] \in {"none", "open"} /\ cut[u] \in Nat
      /\ cut \in [Handle -> Nat] /\ mysqlInitialized \in BOOLEAN
      /\ stage[u] = "live" /\ db[u] # "none" => mysqlInitialized \/ careless[u]
  BY MyBefore DEF AllInv
<1>1. CASE My!Setup(u)
  <2>1. result' \in [Handle -> [call : Calls, ok : BOOLEAN]]
    BY <1>0, <1>1, MyReturnsType, CallsAre DEF My!Setup
  <2> QED
    BY <1>0, <1>1, <2>1, MyQuiet DEF My!Setup
<1>2. CASE My!Connect(u)
  <2>1. result' \in [Handle -> [call : Calls, ok : BOOLEAN]]
    BY <1>0, <1>2, MyReturnsType, CallsAre DEF My!Connect
  <2>2. CASE UNCHANGED <<db, opened>>
    BY <1>0, <1>2, <2>1, <2>2, MyQuiet DEF My!Connect
  <2>3. CASE /\ mysqlInitialized /\ db[u] = "none"
             /\ db' = [db EXCEPT ![u] = "open"]
             /\ opened' = [opened EXCEPT ![u] = @ + 1]
    <3>1. opened' \in [Handle -> Nat]
      BY <1>0, <2>3 DEF TypeOK
    <3>2. /\ TypeOK' /\ stage[u] = "live"
          /\ UNCHANGED <<mysqlInitialized, stage, transaction, lists, cut, careless>>
      BY <1>0, <1>2, <2>1, <2>3, <3>1 DEF My!Connect, TypeOK
    <3>3. Alone(u) /\ StillRunning
      BY <1>0, <2>3, <3>2 DEF Alone, StillRunning, TypeOK
    <3>4. db'[u] = "open" /\ opened'[u] = 1
      BY <1>0, <2>3 DEF TypeOK, Accounted
    <3>5. (Accounted(u) /\ Held(u))'
      BY <1>0, <3>2, <3>4 DEF Accounted, Held
    <3>6. (Idle(u) /\ Grounded(u) /\ Kind(u))'
      BY <1>0, <2>3, <3>2, <3>4 DEF Idle, Grounded, Running, Kind
    <3> QED
      BY <1>0, <3>2, <3>3, <3>5, <3>6, OneHandle DEF AllInv
  <2> QED
    BY <1>2, <2>2, <2>3 DEF My!Connect
<1>3. CASE My!Read(u)
  <2>1. result' \in [Handle -> [call : Calls, ok : BOOLEAN]]
    BY <1>0, <1>3, MyReturnsType, CallsAre DEF My!Read
  <2>2. CASE UNCHANGED lists
    BY <1>0, <1>3, <2>1, <2>2, MyQuiet DEF My!Read
  <2>3. CASE /\ mysqlInitialized /\ db[u] = "open"
             /\ lists[u] + cut[u] < MaxLists
             /\ lists' = [lists EXCEPT ![u] = @ + 1]
    <3>1. lists' \in [Handle -> 0 .. MaxLists]
      BY <1>0, <2>3, MaxListsType DEF TypeOK
    <3>2. /\ TypeOK' /\ stage[u] = "live"
          /\ UNCHANGED <<mysqlInitialized, stage, db, transaction, opened, cut,
                         careless>>
      BY <1>0, <1>3, <2>1, <3>1 DEF My!Read, TypeOK
    <3>3. Alone(u) /\ StillRunning
      BY <1>0, <2>3, <3>2 DEF Alone, StillRunning, TypeOK
    <3>4. (Accounted(u) /\ Held(u))'
      BY <1>0, <2>3, <3>2 DEF Accounted, Held
    <3>5. (Idle(u) /\ Grounded(u) /\ Kind(u))'
      BY <1>0, <2>3, <3>2 DEF Idle, Grounded, Running, Kind
    <3> QED
      BY <1>0, <3>2, <3>3, <3>4, <3>5, OneHandle DEF AllInv
  <2> QED
    BY <1>3, <2>2, <2>3 DEF My!Read
<1>4. CASE My!FreeList(u)
  <2>1. /\ lists' \in [Handle -> 0 .. MaxLists] /\ cut' \in [Handle -> Nat]
        /\ lists'[u] <= lists[u]
        /\ \A g \in Handle : g # u => lists'[g] = lists[g]
    BY <1>0, <1>4, MaxListsType DEF My!FreeList, TypeOK
  <2>2. /\ TypeOK'
        /\ UNCHANGED <<mysqlInitialized, stage, db, transaction, opened, careless>>
    BY <1>0, <1>4, <2>1 DEF My!FreeList, TypeOK
  <2>3. Alone(u) /\ StillRunning
    BY <1>0, <2>1, <2>2 DEF Alone, StillRunning, TypeOK
  <2>4. (Accounted(u) /\ Held(u))'
    BY <1>0, <2>1, <2>2 DEF Accounted, Held, TypeOK
  <2>5. (Idle(u) /\ Grounded(u) /\ Kind(u))'
    BY <1>0, <2>2 DEF Idle, Grounded, Running, Kind
  <2> QED
    BY <1>0, <2>1, <2>2, <2>3, <2>4, <2>5, OneHandle DEF AllInv
<1>5. CASE \/ My!TransactionBegin(u) \/ My!TransactionCommit(u)
           \/ My!TransactionRollback(u)
  <2>1. /\ transaction' = transaction
        /\ result' \in [Handle -> [call : Calls, ok : BOOLEAN]]
    BY <1>5, MyTransaction
  <2>2. /\ stage[u] = "live"
        /\ UNCHANGED <<mysqlInitialized, stage, db, opened, lists, cut, careless>>
    BY <1>5 DEF My!TransactionBegin, My!TransactionCommit,
                My!TransactionRollback, My!TransactionEnd
  <2> QED
    BY <1>0, <2>1, <2>2, MyQuiet
<1>6. CASE My!Disconnect(u)
  <2>1. My!Closable(u) \in BOOLEAN
    BY <1>0 DEF My!Closable
  <2>2. result' \in [Handle -> [call : Calls, ok : BOOLEAN]]
    BY <1>0, <1>6, <2>1, MyReturnsType, CallsAre DEF My!Disconnect
  <2> QED
    BY <1>6, <2>2, MyCloseKeeps DEF My!Disconnect
<1>7. CASE My!Free(u)
  <2>1. result' \in [Handle -> [call : Calls, ok : BOOLEAN]]
    BY <1>0, <1>7 DEF My!Free, TypeOK
  <2> QED
    BY <1>7, <2>1, MyCloseKeeps DEF My!Free
<1> QED
  BY <1>1, <1>2, <1>3, <1>4, <1>5, <1>6, <1>7 DEF My!Use

----------------------------------------------------------------------------
(* CouchDB                                                                 *)

LEMMA CouchReturnsType ==
  ASSUME TypeOK, NEW h \in Handle, NEW call \in Calls, NEW ok \in BOOLEAN,
         Couch!Returns(h, call, ok)
  PROVE  result' \in [Handle -> [call : Calls, ok : BOOLEAN]]
  BY DEF TypeOK, Couch!Returns

\* What is known of a handle of CouchDB before its step.
LEMMA CouchBefore ==
  ASSUME AllInv, NEW u \in Handle, backend[u] = "couchdb"
  PROVE  /\ TypeOK /\ Accounted(u) /\ Idle(u) /\ lists[u] = 0
         /\ db[u] \in {"none", "open"}
         /\ opened[u] = (IF db[u] = "open" THEN 1 ELSE 0)
         /\ stage[u] = "live" /\ db[u] # "none" => couchInitialized \/ careless[u]
  BY DEF AllInv, Base, Accounted, Kind, Grounded, Running, TypeOK

\* Whatever a step does to the handle, it refers to all it has opened.
LEMMA CouchKeepsWhen ==
  ASSUME AllInv, NEW u \in Handle, backend[u] = "couchdb",
         NEW d \in {"none", "open"}, NEW n, NEW st \in {"new", "live", "freed"},
         n = (IF d = "open" THEN 1 ELSE 0),
         d = "open" => st # "new" /\ (couchInitialized' \/ careless[u]),
         st = "freed" /\ d = "open" => careless[u],
         db' = [db EXCEPT ![u] = d], opened' = [opened EXCEPT ![u] = n],
         stage' = [stage EXCEPT ![u] = st],
         result' \in [Handle -> [call : Calls, ok : BOOLEAN]],
         couchInitialized => couchInitialized', couchInitialized' \in BOOLEAN,
         UNCHANGED <<initialized, transaction, pending, lists, mysqlInitialized,
                     cut, careless, backend>>
  PROVE  AllInv'
<1>0. /\ TypeOK /\ lists[u] = 0 /\ Idle(u)
  BY CouchBefore
<1>1. n \in Nat
  OBVIOUS
<1>2. opened' \in [Handle -> Nat]
  BY <1>0, <1>1 DEF TypeOK
<1>3. TypeOK'
  BY <1>0, <1>2 DEF TypeOK
<1>4. Alone(u) /\ StillRunning
  BY <1>0 DEF Alone, StillRunning, TypeOK
<1>5. db'[u] = d /\ opened'[u] = n /\ stage'[u] = st
  BY <1>0 DEF TypeOK
<1>6. (Accounted(u) /\ Held(u))'
  BY <1>0, <1>5 DEF Accounted, Held
<1>7. (Idle(u) /\ Grounded(u) /\ Kind(u))'
  BY <1>0, <1>5 DEF Idle, Grounded, Running, Kind
<1> QED
  BY <1>3, <1>4, <1>6, <1>7, OneHandle DEF AllInv

\* A step that leaves the CURL handle of the connection alone.
LEMMA CouchQuiet ==
  ASSUME AllInv, NEW u \in Handle, backend[u] = "couchdb",
         result' \in [Handle -> [call : Calls, ok : BOOLEAN]],
         stage[u] # "freed", couchInitialized => couchInitialized',
         couchInitialized' \in BOOLEAN,
         stage' = stage \/ stage' = [stage EXCEPT ![u] = "live"],
         UNCHANGED <<db, opened, initialized, transaction, pending, lists,
                     mysqlInitialized, cut, careless, backend>>
  PROVE  AllInv'
<1>0. /\ TypeOK /\ Accounted(u) /\ db[u] \in {"none", "open"}
      /\ opened[u] = (IF db[u] = "open" THEN 1 ELSE 0)
      /\ stage[u] = "live" /\ db[u] # "none" => couchInitialized \/ careless[u]
  BY CouchBefore
<1>1. /\ db' = [db EXCEPT ![u] = db[u]] /\ opened' = [opened EXCEPT ![u] = opened[u]]
      /\ stage[u] \in {"new", "live"}
  BY <1>0 DEF TypeOK
<1>2. db[u] = "open" => stage[u] = "live"
  BY <1>0, <1>1 DEF Accounted
<1>3. CASE stage' = stage
  <2>1. stage' = [stage EXCEPT ![u] = stage[u]]
    BY <1>0, <1>3 DEF TypeOK
  <2> QED
    BY <1>0, <1>1, <1>2, <2>1, CouchKeepsWhen, ZenonT(40)
<1>4. CASE stage' = [stage EXCEPT ![u] = "live"]
  BY <1>0, <1>1, <1>2, <1>4, CouchKeepsWhen, ZenonT(40)
<1> QED
  BY <1>3, <1>4

\* A disconnect or a free.
LEMMA CouchCloseKeeps ==
  ASSUME AllInv, NEW u \in Handle, backend[u] = "couchdb", stage[u] = "live",
         Couch!Close(u), NEW st \in {"live", "freed"},
         stage' = [stage EXCEPT ![u] = st],
         result' \in [Handle -> [call : Calls, ok : BOOLEAN]],
         UNCHANGED <<couchInitialized, initialized, transaction, pending, lists,
                     mysqlInitialized, cut, careless, backend>>
  PROVE  AllInv'
<1> DEFINE d == IF couchInitialized THEN "none" ELSE db[u]
           n == IF d = "open" THEN 1 ELSE 0
<1>0. /\ TypeOK /\ db[u] \in {"none", "open"}
      /\ opened[u] = (IF db[u] = "open" THEN 1 ELSE 0)
      /\ db[u] # "none" => couchInitialized \/ careless[u]
      /\ couchInitialized \in BOOLEAN
  BY CouchBefore DEF AllInv
<1>1. db' = [db EXCEPT ![u] = d]
  BY DEF Couch!Close
<1>2. opened' = [opened EXCEPT ![u] = n]
  <2>1. opened' = [opened EXCEPT ![u] =
                     IF couchInitialized /\ db[u] = "open" THEN opened[u] - 1
                     ELSE opened[u]]
    BY DEF Couch!Close
  <2>2. (IF couchInitialized /\ db[u] = "open" THEN opened[u] - 1
         ELSE opened[u]) = n
    BY <1>0
  <2> QED
    BY <2>1, <2>2
<1>3. d \in {"none", "open"} /\ (d = "open" => careless[u])
  BY <1>0
<1> HIDE DEF d
<1>4. st \in {"new", "live", "freed"} /\ st # "new"
  OBVIOUS
<1>5. couchInitialized' \in BOOLEAN /\ (couchInitialized => couchInitialized')
  BY <1>0
<1> QED
  BY <1>1, <1>2, <1>3, <1>4, <1>5, CouchKeepsWhen

LEMMA CouchKeeps ==
  ASSUME AllInv, NEW u \in Handle, backend[u] = "couchdb", Couch!Use(u),
         UNCHANGED <<initialized, transaction, pending, lists, mysqlInitialized, cut>>,
         UNCHANGED backend
  PROVE  AllInv'
<1>0. /\ TypeOK /\ couchInitialized \in BOOLEAN
      /\ db[u] \in {"none", "open"}
      /\ opened[u] = (IF db[u] = "open" THEN 1 ELSE 0)
  BY CouchBefore DEF AllInv
<1>1. CASE Couch!Setup(u)
  <2>1. result' \in [Handle -> [call : Calls, ok : BOOLEAN]]
    BY <1>0, <1>1, CouchReturnsType, CallsAre DEF Couch!Setup
  <2> QED
    BY <1>0, <1>1, <2>1, CouchQuiet DEF Couch!Setup
<1>2. CASE Couch!Connect(u)
  <2>1. result' \in [Handle -> [call : Calls, ok : BOOLEAN]]
    BY <1>0, <1>2, CouchReturnsType, CallsAre DEF Couch!Connect
  <2> QED
    BY <1>0, <1>2, <2>1, CouchQuiet DEF Couch!Connect
<1>3. CASE Couch!Request(u)
  <2>1. result' \in [Handle -> [call : Calls, ok : BOOLEAN]]
    BY <1>0, <1>3, CouchReturnsType, CallsAre DEF Couch!Request
  <2>2. CASE UNCHANGED <<db, opened>>
    BY <1>0, <1>3, <2>1, <2>2, CouchQuiet DEF Couch!Request
  <2>3. CASE couchInitialized /\ ~UNCHANGED <<db, opened>>
    <3>1. PICK made \in BOOLEAN :
            /\ db' = [db EXCEPT ![u] = IF made THEN "open" ELSE "none"]
            /\ opened' = [opened EXCEPT ![u] =
                            (@ - (IF db[u] = "open" THEN 1 ELSE 0))
                              + (IF made THEN 1 ELSE 0)]
      BY <1>3, <2>3 DEF Couch!Request
    <3> DEFINE d == IF made THEN "open" ELSE "none"
               n == IF d = "open" THEN 1 ELSE 0
    <3>2. opened' = [opened EXCEPT ![u] = n]
      <4>1. (opened[u] - (IF db[u] = "open" THEN 1 ELSE 0))
              + (IF made THEN 1 ELSE 0) = n
        BY <1>0
      <4> QED
        BY <3>1, <4>1
    <3>3. stage' = [stage EXCEPT ![u] = "live"]
      BY <1>0, <1>3 DEF Couch!Request, TypeOK
    <3>4. /\ d \in {"none", "open"} /\ couchInitialized'
          /\ couchInitialized' \in BOOLEAN /\ UNCHANGED careless
      BY <1>0, <1>3, <2>3 DEF Couch!Request
    <3>5. db' = [db EXCEPT ![u] = d]
      BY <3>1
    <3> HIDE DEF d
    <3> QED
      BY <2>1, <3>2, <3>3, <3>4, <3>5, CouchKeepsWhen
  <2> QED
    BY <1>3, <2>2, <2>3 DEF Couch!Request
<1>4. ASSUME NEW call \in {"begin", "commit", "rollback"}, Couch!Transaction(u, call)
      PROVE  AllInv'
  <2>1. result' \in [Handle -> [call : Calls, ok : BOOLEAN]]
    BY <1>0, <1>4, CouchReturnsType, CallsAre DEF Couch!Transaction
  <2> QED
    BY <1>0, <1>4, <2>1, CouchQuiet DEF Couch!Transaction
<1>5. CASE Couch!Disconnect(u)
  <2>1. result' \in [Handle -> [call : Calls, ok : BOOLEAN]]
    BY <1>0, <1>5, CouchReturnsType, CallsAre DEF Couch!Disconnect
  <2>2. stage[u] = "live" /\ stage' = [stage EXCEPT ![u] = "live"]
    BY <1>0, <1>5 DEF Couch!Disconnect, TypeOK
  <2> QED
    BY <1>5, <2>1, <2>2, CouchCloseKeeps DEF Couch!Disconnect
<1>6. CASE Couch!Free(u)
  <2>1. result' \in [Handle -> [call : Calls, ok : BOOLEAN]]
    BY <1>0, <1>6 DEF Couch!Free, TypeOK
  <2> QED
    BY <1>6, <2>1, CouchCloseKeeps DEF Couch!Free
<1> QED
  BY <1>1, <1>2, <1>3, <1>4, <1>5, <1>6 DEF Couch!Use

----------------------------------------------------------------------------
(* All of them together                                                    *)

\* A call that has no backend to go to changes only what it returned.
LEMMA NoBackendKeeps ==
  ASSUME AllInv, NEW u \in Handle,
         UnknownBackend(u) \/ NoBackend(u) \/ SetupAgain(u),
         UNCHANGED others, UNCHANGED backend
  PROVE  AllInv'
<1>1. TypeOK
  BY DEF AllInv, Base
<1>2. result' \in [Handle -> [call : Calls, ok : BOOLEAN]]
  BY <1>1, ReturnsType, CallsAre DEF UnknownBackend, NoBackend, SetupAgain
<1>3. UNCHANGED <<initialized, stage, db, transaction, sqlite, lists, careless>>
  BY DEF UnknownBackend, NoBackend, SetupAgain
<1>4. TypeOK'
  BY <1>1, <1>2, <1>3 DEF TypeOK, sqlite
<1> QED
  BY <1>3, <1>4
  DEF AllInv, Base, Accounted, Held, Idle, Grounded, Running, Kind, sqlite, others

LEMMA ShutdownKeeps == AllInv /\ ShutdownAll => AllInv'
<1> SUFFICES ASSUME AllInv, ShutdownAll PROVE AllInv'
  OBVIOUS
<1>1. /\ UNCHANGED <<stage, db, transaction, sqlite, lists, result, cut, backend>>
      /\ mysqlInitialized' = FALSE /\ couchInitialized' = FALSE
      /\ careless' = [h \in Handle |->
                        careless[h] \/ (stage[h] = "live" /\ db[h] # "none")]
      /\ initialized' \in BOOLEAN
  BY DEF ShutdownAll, Shutdown, My!Shutdown, Couch!Shutdown, AllInv, Base, TypeOK
<1>2. TypeOK'
  BY <1>1 DEF AllInv, Base, TypeOK, sqlite
<1>3. ASSUME NEW h \in Handle
      PROVE  (Accounted(h) /\ Held(h) /\ Idle(h) /\ Grounded(h) /\ Kind(h))'
  <2>1. Accounted(h) /\ Held(h) /\ Idle(h) /\ Kind(h)
    BY DEF AllInv, Base
  <2>2. careless'[h] = (careless[h] \/ (stage[h] = "live" /\ db[h] # "none"))
    BY <1>1
  <2>3. Accounted(h)'
    BY <1>1, <2>1, <2>2, Zenon DEF Accounted, sqlite
  <2>4. (Held(h) /\ Idle(h) /\ Kind(h))'
    BY <1>1, <2>1 DEF Held, Idle, Kind, sqlite
  <2>5. Grounded(h)'
    BY <1>1, <2>2, Zenon DEF Grounded
  <2> QED
    BY <2>3, <2>4, <2>5
<1> QED
  BY <1>1, <1>2, <1>3 DEF AllInv, Base

LEMMA AllInvStep == AllInv /\ [ConnectionsNext]_allVars => AllInv'
<1> SUFFICES ASSUME AllInv, [ConnectionsNext]_allVars PROVE AllInv'
  OBVIOUS
<1>1. CASE UNCHANGED allVars
  BY <1>1
  DEF AllInv, Base, TypeOK, Accounted, Held, Idle, Grounded, Running, Kind,
      allVars, vars, sqlite, others
<1>2. ASSUME NEW h \in Handle, UseAny(h) PROVE AllInv'
  BY <1>2, NoBackendKeeps, SqliteKeeps, MyKeeps, CouchKeeps DEF UseAny
<1>3. CASE ShutdownAll
  BY <1>3, ShutdownKeeps
<1> QED
  BY <1>1, <1>2, <1>3 DEF ConnectionsNext

LEMMA AllInvAlways == ConnectionsSpec => []AllInv
  BY AllInvInit, AllInvStep, PTL DEF ConnectionsSpec

----------------------------------------------------------------------------
(* What the answers tell                                                   *)

Up(h) == SeenAs(h) /\ stage[h] = "live" /\ db[h] = "open"

OpenOnes == {h \in Handle : SeenAs(h) /\ stage[h] = "live" /\ db[h] = "open"}

SeenAnswer ==
  [h \in Handle |-> IF SeenAs(h) THEN result[h] ELSE [call |-> "none", ok |-> TRUE]]

LEMMA AnswersInit == ConnectionsInit => Promise!Init
  BY DEF ConnectionsInit, Init, Promise!Init, SeenAs

\* A call on u changes the answer of no other handle.
LEMMA OneAnswer ==
  ASSUME AllInv, NEW u \in Handle, NEW call, NEW ok,
         result' = [result EXCEPT ![u] = [call |-> call, ok |-> ok]],
         backend' = backend, SeenAs(u)
  PROVE  SeenAnswer' = [SeenAnswer EXCEPT ![u] = [call |-> call, ok |-> ok]]
  BY DEF SeenAnswer, SeenAs, AllInv, Base, TypeOK

\* Nor does it open or close another one.
LEMMA OneOpen ==
  ASSUME AllInv, NEW u \in Handle, Alone(u), backend' = backend
  PROVE  /\ Up(u)' => OpenOnes' = OpenOnes \cup {u}
         /\ ~Up(u)' => OpenOnes' = OpenOnes \ {u}
         /\ u \in OpenOnes <=> Up(u)
  BY DEF Alone, OpenOnes, Up, SeenAs

\* The calls, as far as their answers and the connection go.
Told(u) ==
  \/ /\ My!Returns(u, "connect", TRUE) /\ ~Up(u) /\ Up(u)'
  \/ /\ My!Returns(u, "disconnect", TRUE) /\ ~Up(u)'
  \/ /\ My!Returns(u, "read", TRUE) /\ Up(u) /\ Up(u)'
  \/ /\ \E call \in Calls \ {"none"} : My!Returns(u, call, FALSE)
     /\ Up(u)' <=> Up(u)
  \/ /\ \E call \in {"setup", "begin", "commit", "rollback"} :
          My!Returns(u, call, TRUE)
     /\ Up(u)' <=> Up(u)
  \/ /\ result' = result
     /\ ~Up(u)' \/ (Up(u)' <=> Up(u))

LEMMA ToldIsPromised ==
  ASSUME AllInv, NEW u \in Handle, SeenAs(u), Alone(u), backend' = backend, Told(u)
  PROVE  [Promise!Next]_(Promise!vars)
<1> USE DEF My!Returns
<1>0. /\ SeenAnswer = [h \in Handle |-> IF SeenAs(h) THEN result[h]
                                      ELSE [call |-> "none", ok |-> TRUE]]
      /\ OpenOnes = {h \in Handle : SeenAs(h) /\ stage[h] = "live" /\ db[h] = "open"}
  BY DEF SeenAnswer, OpenOnes
<1>1. (Up(u)' <=> Up(u)) => OpenOnes' = OpenOnes
  BY OneOpen
<1>2. CASE My!Returns(u, "connect", TRUE) /\ ~Up(u) /\ Up(u)'
  <2>1. /\ SeenAnswer' = [SeenAnswer EXCEPT ![u] = [call |-> "connect", ok |-> TRUE]]
        /\ OpenOnes' = OpenOnes \cup {u} /\ u \notin OpenOnes
    BY <1>2, OneAnswer, OneOpen
  <2> QED
    BY <2>1 DEF Promise!Next, Promise!Connect, Promise!Answers, SeenAnswer, OpenOnes
<1>3. CASE My!Returns(u, "disconnect", TRUE) /\ ~Up(u)'
  <2>1. /\ SeenAnswer' = [SeenAnswer EXCEPT ![u] =
                            [call |-> "disconnect", ok |-> TRUE]]
        /\ OpenOnes' = OpenOnes \ {u}
    BY <1>3, OneAnswer, OneOpen
  <2> QED
    BY <2>1 DEF Promise!Next, Promise!Disconnect, Promise!Answers, SeenAnswer, OpenOnes
<1>4. CASE My!Returns(u, "read", TRUE) /\ Up(u) /\ Up(u)'
  <2>1. /\ SeenAnswer' = [SeenAnswer EXCEPT ![u] = [call |-> "read", ok |-> TRUE]]
        /\ OpenOnes' = OpenOnes /\ u \in OpenOnes
    BY <1>1, <1>4, OneAnswer, OneOpen
  <2> QED
    BY <2>1 DEF Promise!Next, Promise!Read, Promise!Answers, SeenAnswer, OpenOnes
<1>5. ASSUME NEW call \in Calls \ {"none"}, My!Returns(u, call, FALSE),
             Up(u)' <=> Up(u)
      PROVE  Promise!Next
  <2>1. /\ SeenAnswer' = [SeenAnswer EXCEPT ![u] = [call |-> call, ok |-> FALSE]]
        /\ OpenOnes' = OpenOnes
    BY <1>1, <1>5, OneAnswer
  <2>2. call \in {"setup", "connect", "read", "begin", "commit", "rollback",
                  "disconnect"}
    BY <1>5, CallsAre
  <2>3. Promise!Other(u)
    BY <2>1, <2>2 DEF Promise!Other, Promise!Answers, SeenAnswer, OpenOnes
  <2> QED
    BY <2>3 DEF Promise!Next
<1>6. ASSUME NEW call \in {"setup", "begin", "commit", "rollback"},
             My!Returns(u, call, TRUE), Up(u)' <=> Up(u)
      PROVE  Promise!Next
  <2>1. /\ SeenAnswer' = [SeenAnswer EXCEPT ![u] = [call |-> call, ok |-> TRUE]]
        /\ OpenOnes' = OpenOnes
    BY <1>1, <1>6, OneAnswer
  <2>2. Promise!Other(u)
    BY <2>1 DEF Promise!Other, Promise!Answers, SeenAnswer, OpenOnes
  <2> QED
    BY <2>2 DEF Promise!Next
<1>7. CASE result' = result /\ (~Up(u)' \/ (Up(u)' <=> Up(u)))
  <2>1. SeenAnswer' = SeenAnswer
    BY <1>7 DEF SeenAnswer, SeenAs
  <2>2. OpenOnes' = OpenOnes \ {u} \/ OpenOnes' = OpenOnes
    BY <1>1, <1>7, OneOpen
  <2> QED
    BY <2>1, <2>2
    DEF Promise!Next, Promise!Free, Promise!vars, SeenAnswer, OpenOnes
<1> QED
  BY <1>2, <1>3, <1>4, <1>5, <1>6, <1>7 DEF Told

LEMMA SqliteTold ==
  ASSUME AllInv, NEW u \in Handle, backend[u] = "sqlite", Use(u), backend' = backend
  PROVE  Told(u)
<1> USE DEF Told, My!Returns, Returns, Up, SeenAs
<1>1. TypeOK /\ Base /\ Accounted(u)
  BY DEF AllInv, Base
<1>2. Calls \ {"none"} = {"setup", "connect", "read", "begin", "commit",
                          "rollback", "disconnect"}
  BY CallsAre
<1>3. CASE Setup(u)
  BY <1>1, <1>2, <1>3 DEF Setup, Accounted, TypeOK
<1>4. CASE Connect(u)
  BY <1>1, <1>2, <1>4 DEF Connect, MayConnect, TypeOK
<1>5. CASE Read(u)
  BY <1>1, <1>2, <1>5 DEF Read, TypeOK
<1>6. CASE FreeList(u)
  BY <1>6 DEF FreeList
<1>7. CASE TransactionBegin(u)
  BY <1>2, <1>7 DEF TransactionBegin
<1>8. CASE TransactionCommit(u) \/ TransactionRollback(u)
  BY <1>2, <1>8 DEF TransactionCommit, TransactionRollback, TransactionEnd
<1>9. CASE Disconnect(u)
  <2>1. /\ Returns(u, "disconnect", Closable(u)) /\ stage' = stage
        /\ db' = [db EXCEPT ![u] = IF Closable(u) THEN "none" ELSE @]
    BY <1>9 DEF Disconnect, Close
  <2>2. CASE Closable(u)
    BY <1>1, <2>1, <2>2 DEF TypeOK
  <2>3. CASE ~Closable(u)
    <3>1. Closable(u) = FALSE
      BY <2>3 DEF Closable
    <3>2. Returns(u, "disconnect", FALSE) /\ db' = db
      BY <1>1, <2>1, <3>1 DEF TypeOK
    <3> QED
      BY <1>2, <2>1, <3>2
  <2> QED
    BY <2>2, <2>3
<1>10. CASE Free(u)
  BY <1>1, <1>10 DEF Free, TypeOK
<1> QED
  BY <1>3, <1>4, <1>5, <1>6, <1>7, <1>8, <1>9, <1>10 DEF Use

LEMMA MyAlone ==
  ASSUME AllInv, NEW u \in Handle, My!Use(u), UNCHANGED pending
  PROVE  Alone(u)
<1> USE DEF Alone, AllInv, Base, TypeOK
<1>1. CASE My!Setup(u) \/ My!Connect(u) \/ My!Read(u) \/ My!FreeList(u)
  BY <1>1 DEF My!Setup, My!Connect, My!Read, My!FreeList
<1>2. CASE My!TransactionBegin(u)
  BY <1>2 DEF My!TransactionBegin
<1>3. CASE My!TransactionCommit(u) \/ My!TransactionRollback(u)
  BY <1>3 DEF My!TransactionCommit, My!TransactionRollback, My!TransactionEnd
<1>4. CASE My!Disconnect(u)
  BY <1>4 DEF My!Disconnect, My!Close
<1>5. CASE My!Free(u)
  BY <1>5 DEF My!Free, My!Close
<1> QED
  BY <1>1, <1>2, <1>3, <1>4, <1>5 DEF My!Use

LEMMA MyTold ==
  ASSUME AllInv, NEW u \in Handle, backend[u] = "mysql", My!Use(u), backend' = backend
  PROVE  Told(u)
<1> USE DEF Told, My!Returns, Up, SeenAs
<1>1. TypeOK /\ Accounted(u) /\ mysqlInitialized \in BOOLEAN
  BY DEF AllInv, Base
<1>2. Calls \ {"none"} = {"setup", "connect", "read", "begin", "commit",
                          "rollback", "disconnect"}
  BY CallsAre
<1>3. CASE My!Setup(u)
  BY <1>1, <1>2, <1>3 DEF My!Setup, Accounted, TypeOK
<1>4. CASE My!Connect(u)
  BY <1>1, <1>2, <1>4 DEF My!Connect, TypeOK
<1>5. CASE My!Read(u)
  BY <1>1, <1>2, <1>5 DEF My!Read, TypeOK
<1>6. CASE My!FreeList(u)
  BY <1>6 DEF My!FreeList
<1>7. CASE My!TransactionBegin(u)
  BY <1>2, <1>7 DEF My!TransactionBegin
<1>8. CASE My!TransactionCommit(u) \/ My!TransactionRollback(u)
  BY <1>2, <1>8 DEF My!TransactionCommit, My!TransactionRollback, My!TransactionEnd
<1>9. CASE My!Disconnect(u)
  <2>1. My!Returns(u, "disconnect", My!Closable(u)) /\ stage' = stage /\ My!Close(u)
    BY <1>9 DEF My!Disconnect
  <2>2. CASE My!Closable(u)
    BY <1>1, <2>1, <2>2 DEF TypeOK, My!Close
  <2>3. CASE ~My!Closable(u)
    <3>1. My!Closable(u) = FALSE
      BY <2>3 DEF My!Closable
    <3>2. My!Returns(u, "disconnect", FALSE) /\ db' = db
      BY <2>1, <3>1 DEF My!Close
    <3> QED
      BY <1>2, <2>1, <3>2
  <2> QED
    BY <2>2, <2>3
<1>10. CASE My!Free(u)
  BY <1>1, <1>10 DEF My!Free, TypeOK
<1> QED
  BY <1>3, <1>4, <1>5, <1>6, <1>7, <1>8, <1>9, <1>10 DEF My!Use

\* A step of a handle of CouchDB is not seen.
LEMMA CouchUnseen ==
  ASSUME AllInv, NEW u \in Handle, backend[u] = "couchdb", Couch!Use(u),
         backend' = backend
  PROVE  UNCHANGED Promise!vars
<1>1. \A g \in Handle : g # u =>
        stage'[g] = stage[g] /\ db'[g] = db[g] /\ result'[g] = result[g]
  <2> USE DEF AllInv, Base, TypeOK, Couch!Returns
  <2>1. CASE Couch!Setup(u) \/ Couch!Connect(u) \/ Couch!Request(u)
    BY <2>1 DEF Couch!Setup, Couch!Connect, Couch!Request
  <2>2. CASE \E call \in {"begin", "commit", "rollback"} : Couch!Transaction(u, call)
    BY <2>2 DEF Couch!Transaction
  <2>3. CASE Couch!Disconnect(u) \/ Couch!Free(u)
    BY <2>3 DEF Couch!Disconnect, Couch!Free, Couch!Close
  <2> QED
    BY <2>1, <2>2, <2>3 DEF Couch!Use
<1> QED
  BY <1>1 DEF Promise!vars, SeenAs

\* A call without a backend fails, and set up may be called again.
LEMMA NoBackendTold ==
  ASSUME AllInv, NEW u \in Handle,
         UnknownBackend(u) \/ NoBackend(u) \/ SetupAgain(u), backend' = backend
  PROVE  Alone(u) /\ (SeenAs(u) => Told(u)) /\ (~SeenAs(u) => UNCHANGED Promise!vars)
<1>1. UNCHANGED <<initialized, stage, db, transaction, sqlite, lists, careless>>
  BY DEF UnknownBackend, NoBackend, SetupAgain
<1>2. Alone(u)
  BY <1>1 DEF Alone, sqlite
<1>3. \/ \E call \in Calls \ {"none"} : Returns(u, call, FALSE)
      \/ Returns(u, "setup", TRUE)
  BY CallsAre DEF UnknownBackend, NoBackend, SetupAgain
<1>4. Told(u)
  BY <1>1, <1>3 DEF Told, My!Returns, Returns, Up, SeenAs
<1>5. ~SeenAs(u) => UNCHANGED Promise!vars
  BY <1>1, <1>3 DEF Promise!vars, SeenAs, Returns, AllInv, Base, TypeOK
<1> QED
  BY <1>2, <1>4, <1>5

LEMMA StepAnswers ==
  AllInv /\ [ConnectionsNext]_allVars => [Promise!Next]_(Promise!vars)
<1> SUFFICES ASSUME AllInv, [ConnectionsNext]_allVars
             PROVE  [Promise!Next]_(Promise!vars)
  OBVIOUS
<1>1. CASE UNCHANGED allVars
  BY <1>1 DEF allVars, vars, Promise!vars, SeenAs
<1>2. CASE ShutdownAll
  BY <1>2 DEF ShutdownAll, Shutdown, Promise!vars, SeenAs
<1>3. ASSUME NEW h \in Handle, UseAny(h) PROVE [Promise!Next]_(Promise!vars)
  <2>1. backend' = backend
    BY <1>3 DEF UseAny
  <2>2. CASE UnknownBackend(h) \/ NoBackend(h) \/ SetupAgain(h)
    BY <2>1, <2>2, NoBackendTold, ToldIsPromised
  <2>3. CASE backend[h] = "sqlite" /\ Use(h)
    <3>1. SeenAs(h) /\ Base
      BY <2>3 DEF SeenAs, AllInv
    <3> QED
      BY <2>1, <2>3, <3>1, SqliteAlone, SqliteTold, ToldIsPromised
  <2>4. CASE backend[h] = "mysql" /\ My!Use(h) /\ UNCHANGED pending
    <3>1. SeenAs(h)
      BY <2>4 DEF SeenAs
    <3> QED
      BY <2>1, <2>4, <3>1, MyAlone, MyTold, ToldIsPromised
  <2>5. CASE backend[h] = "couchdb" /\ Couch!Use(h)
    BY <2>1, <2>5, CouchUnseen
  <2> QED
    BY <1>3, <2>2, <2>3, <2>4, <2>5 DEF UseAny
<1> QED
  BY <1>1, <1>2, <1>3 DEF ConnectionsNext

----------------------------------------------------------------------------
(* The theorems                                                            *)

(***************************************************************************)
(* The state of the handles is well typed, whatever their backends.        *)
(***************************************************************************)
THEOREM AllTypesCorrect == ConnectionsSpec => []TypeOK
<1>1. AllInv => TypeOK
  BY DEF AllInv, Base
<1> QED
  BY AllInvAlways, <1>1, PTL

(***************************************************************************)
(* No backend loses a connection or a CURL handle when the program ends    *)
(* things in order: not by a failed connect, a refused disconnect, a       *)
(* request in the place of another, or a shutdown.                         *)
(***************************************************************************)
THEOREM NoBackendLeaks == ConnectionsSpec => []NothingLeaks
<1>1. AllInv => NothingLeaks
  <2> SUFFICES ASSUME AllInv, NEW h \in Handle
               PROVE  \/ opened[h] = (IF stage[h] = "live" /\ db[h] # "none"
                                      THEN 1 ELSE 0)
                      \/ stage[h] = "freed" /\ careless[h] /\ opened[h] <= 1
    BY DEF NothingLeaks
  <2>1. stage[h] \in {"new", "live", "freed"} /\ Accounted(h)
    BY DEF AllInv, Base, TypeOK
  <2>2. opened[h] <= 1
    BY <2>1 DEF Accounted
  <2> QED
    BY <2>1, <2>2, Zenon DEF Accounted
<1> QED
  BY AllInvAlways, <1>1, PTL

(***************************************************************************)
(* A list that can still be read has its connection, whatever the backend  *)
(* and however often the handle is disconnected.                           *)
(***************************************************************************)
THEOREM AllListsAreSafe == ConnectionsSpec => []ListsKeepConnection
<1>1. AllInv => ListsKeepConnection
  BY DEF AllInv, Base, TypeOK, Accounted, Held, ListsKeepConnection
<1> QED
  BY AllInvAlways, <1>1, PTL

(***************************************************************************)
(* No backend ever has a transaction open: SQLite's and MySQL's begin is   *)
(* never accepted, and CouchDB's does nothing.                             *)
(***************************************************************************)
THEOREM AllAutocommit == ConnectionsSpec => []AutocommitAlways
<1>1. AllInv => AutocommitAlways
  BY DEF AllInv, Base, Idle, AutocommitAlways
<1> QED
  BY AllInvAlways, <1>1, PTL

(***************************************************************************)
(* The connections over SQL backends keep the promise of ConnectionPromise:*)
(* their answers tell which of them are open.                              *)
(***************************************************************************)
THEOREM AnswersTell == ConnectionsSpec => AnswersTellState
  BY AnswersInit, StepAnswers, AllInvAlways, PTL
  DEF ConnectionsSpec, AnswersTellState

=============================================================================
