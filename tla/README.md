# A verification of libdbo

libdbo is a C library that stores objects in SQLite, MySQL or CouchDB. Code
generators turn a JSON description into C objects whose create, read, update
and delete go through a common layer to a backend. This directory holds TLA+
models of the parts of the library where order matters, the TLC
configurations that check them, and TLAPS proofs of what matters most.
`PROJECT.json` says for every definition which lines of the source it models
(paths relative to the root of the repository).

## The system

| Part | State | Operations | Talks to |
|---|---|---|---|
| generated objects (`tools/dbo-generate-objects`) | fields, primary key, revision of the row read | create, read, update, delete, list | objects |
| objects, fields, joins (`libdbo_object.c`, `libdbo_join.c`) | description of a table | CRUD calls with clauses and values | connections |
| clauses (`libdbo_clause.c`) | lists of conditions, one within another | build, iterate | backends turn them into SQL or a map function |
| values (`libdbo_value.c`) | a typed value or text | set, copy, compare, convert | everything |
| result lists (`libdbo_result.c`) | results in memory, or a "next" function | add, begin, next, fetch all, free | backend statements |
| connections (`libdbo_connection.c`) | configuration, a backend | setup, connect, disconnect, transactions | backends |
| backend dispatch (`libdbo_backend.c`) | a handle and its function pointers | one call per function pointer; factory and shutdown | backends |
| SQLite backend | `sqlite3*`, transaction flag, time a step began; shared by all: initialized flag, mutex and condition of the busy handler | connect, CRUD, count, transactions, busy handler | sqlite3 |
| MySQL backend | `MYSQL*`, transaction flag; a statement with its binds | connect, CRUD, count, transactions | mysqlclient |
| CouchDB backend | curl handle, write and read buffers | requests, CRUD, no-op transactions | libcurl, jansson |
| memory pools (`libdbo_mm.c`) | list of blocks, list of free objects, counters, lock | new, new0, delete, release | malloc |
| configuration, log, errors | lists of strings | | |

A generated object holds the revision of the row it was read from. Its update
and delete put two equalities, on the primary key and on the revision, into the
statement, and the backend decides from the number of changed rows whether the
object was still current. That one number carries the promise `README.md`
makes under "Object Revisions", so it is what the models start from.

What makes the library hard to get right, and hard to test:

* The SQLite connection is opened with `SQLITE_OPEN_FULLMUTEX`, so threads may
  share it, but a handler makes several calls (step, finalize, changes) and
  other threads come in between.
* MySQL binds are addresses: what a statement sends is read when it is
  executed, which is after the handler has moved on.
* A result list is a prepared statement that outlives the call that made it. It
  keeps a lock of the database, and keeps the connection from being closed.
* The busy handler waits for a condition that is broadcast without the mutex.
* Memory pools keep their lists inside the memory they hand out, share it
  between threads, and give blocks back inside a delete.
* An error does not always mean that nothing was written, and a NULL from a
  result list may be its end or a failure.
* The places of a statement are counted in one walk through the clauses and the
  values bound in another, by code that each backend has for itself.
* The backends store what they have no type for in a type of the same width.

For each part, what makes it correct: an object is changed only from the
version that was read, and by one thread (backends); what a call returns is what
happened (backends); a connection is neither lost nor closed under a result list
(connections); every call returns (busy handler); an object in memory belongs
to one owner and is left alone by the others (pools); a list yields each row
once (result lists); the condition sent to the database is what the clauses mean
(clauses).

`PROJECT.json` lists these hazards line by line under "hazards", with the
properties that cover them, or why none does yet.

## The modules

| Module | What it models |
|---|---|
| `RevisionStore` | the promise of the object revisions, for any backend |
| `SqliteStore` | CRUD of objects through the SQLite backend, one sqlite3 call per step |
| `MysqlStore` | CRUD of objects through the MySQL backend, with the bind's memory |
| `CouchStore` | CRUD of objects through the CouchDB backend, with requests that get lost |
| `ConnectionPromise` | what a program may conclude from the answers of a connection |
| `SqliteConnection`, `MysqlConnection`, `CouchConnection` | the life of connections, with transactions, result lists and shutdown |
| `Connections` | the three together: handles over any backend, set up by its name |
| `SqliteBusy` | threads that wait for the SQLite lock, and time |
| `Values` | values: set, copy, read and compare |
| `Columns` | a value on its way into the database and back into an object |
| `Conditions` | clause lists: what they mean, the WHERE and its binds, the map function |
| `RowList` | the promise of a result list |
| `ResultList` | result lists in memory and over a statement |
| `Reads` | `Conditions` and `ResultList` together: create, read, count, walk through what was read |
| `MemoryPool` | a memory pool, word by word |
| `MC...` | what TLC needs besides: who uses which connection, samples, symmetry |
| `..._proofs` | TLAPS proofs about the module of that name and the modules it extends (`Connections_proofs`: `SqliteConnection`; `Conditions_proofs`: `Columns`, `Values`; `Reads_proofs`: `ResultList`) |

`Connections` extends `SqliteConnection` and instantiates the other two over
the same variables. `Reads` extends `Conditions` (which extends `Columns`, which
extends `Values`) and `ResultList`. `SqliteStore` and `CouchStore` implement
`RevisionStore`, `Connections` implements `ConnectionPromise` and `ResultList`
implements `RowList`, each by a refinement mapping that is checked as a
property.

### RevisionStore and SqliteStore

`RevisionStore` is the abstract specification: a version of each object, what
each client holds, and what its last call returned. A change is made only of
the version that is held. It is not about revision numbers, which are the means.

`SqliteStore` has the table (`rows`, `lastKey`), the counter behind
`sqlite3_changes` per connection, and per thread the object it has read, the
call it is in and how far the call is (`pc`). A call is `Begin...` (the
checks, the SQL, prepare and binds), `Step...` (`sqlite3_step`), `Finalize` and
`CheckChanges`, and between them other threads run. A read makes a result list
whose first step is taken by the list's next function (`Read`, `NextRow`,
`NextNull`, `FreeList`). SQLite is what the backend relies on: statements are
atomic, a connection that is on a row of a SELECT keeps others from committing,
a statement may fail with `SQLITE_BUSY` only when another connection is at
work, and with a constraint error only when there is another row.
`version`, `seen` and `applied` are history and decide nothing.

A call in `SqliteStore` takes effect in its `Step...`, where the outcome of
the abstract call is decided though the handler has yet to compute it
(`Outcome`). That mapping is the refinement `KeepsPromise`.

### MysqlStore

The same calls, but the revision a statement writes is a variable of the
handler (`revision`) which the bind points at: `Begin...` sets it, `Reset` is
the `libdbo_value_reset` after the bind, `Execute...` reads it. An answer can be
lost together with the connection, after the server has executed the statement.
A result list must be fetched to its end before the connection takes another
command (`InSync`). An update that leaves a row as it was affects no row.

### CouchStore

An operation is an HTTP request, and the server executes it in one step (`Post`,
`Put`, `Remove`, `Get`, `PutView`, `Refuse`), after the handler has made it (`Create`,
`Update`, `Delete`, `Read`, `Find`) and before the handler looks at the answer
(`ReturnAnswer`). The request or the answer can get lost (`Lose`, and the
choice in `Answer`), which is where `curl_easy_perform` fails
(`ReturnFailure`). A read by anything but the primary key is two requests,
the first of which is a PUT of a view.

`write` is the body of a POST or PUT. It is freed only after an answer, and a
request that finds one there is refused, so after a lost PUT the connection can
only read and delete until one of these is answered. `Members` are the JSON
members made of a set of values. CouchDB compares revisions itself; the
backend hands it the one the object keeps as meta data. A generated object does not
keep it (its updates and deletes always fail with CouchDB), so the objects of this
model are those of `test/test_database_operations.c`.

A call takes effect when the server executes it, and `Outcome` maps a call
whose answer is lost to one that has failed already.

### Connections

A handle is new, live or freed (`stage`), refers to a connection that is open
or left behind by a failed open (`db`), and has a transaction flag. The
database's side is kept apart: the connections that are open for the handle
(`opened`) and whether SQLite is in a transaction (`pending`). Each call of
`connection.h` is an action, whatever state the handle is in; a call returns
(`result`) or fails as the handler does. `careless` records that the program freed
a connection before its result lists, or shut the library down before it
disconnected.

* `SqliteConnection`: a close is refused while there are lists, and a failed
  open leaves a connection behind. `Accepted` is what SQLite makes of the first
  `sizeof(const char*)` bytes of `BEGIN TRANSACTION` and the others.
* `MysqlConnection`: a close always succeeds and cuts off the lists (`cut`); a
  failed connect closes what it has opened. `Executable` is what MySQL makes of
  `BEGIN TRANSACTION`.
* `CouchConnection`: to connect is to remember the URL, and each request makes
  a CURL handle (`db`), which the next one or a disconnect cleans up. Transactions
  return OK and do nothing.

`Connections` adds the dispatch of `libdbo_backend.c` and
`libdbo_connection.c`: a handle's configuration names its `backend`, set up fails
for a name that is not known (`UnknownBackend`), nothing but set up can be
called before it (`NoBackend`), and a second set up leaves the handle as it is
(`SetupAgain`, and part of SQLite's `Setup`). `ShutdownAll` is
`libdbo_backend_factory_shutdown`, which asks nothing about open connections.

`ConnectionPromise` says what the answers tell: a handle is connected from a
connect that returned OK to a disconnect that returned OK, and a call that
failed has changed nothing. `AnswersTellState` is that promise for handles over
SQLite and MySQL. A CouchDB handle can still be read from after a disconnect, as
its URL is kept.

### Values, Columns, Conditions

A value has a type and a number. The number of a text is its place in the order
of `strcmp`, and the name of an enumerator has the enumerator's number: no
property needs more of them. `From...`, `Copy`, `To`, `ToEnumValue`, `Comparable`
and `Cmp` are the functions of `libdbo_value.c`, with their refusals (`Error`).

`Columns` follows a value: `SqliteBind`, `MysqlBind` and `CouchMember` give what
the database keeps of it (`Stored`), `SqliteColumn`, `MysqlColumn` and
`CouchColumn` the value a result gets of that, by the type of the field, and
`FieldFrom` what the `_from_result` of a generated object makes of that.
Conversions between signed and unsigned integers are those of C, with the
widths `Half32` and `Half64`.

A clause list is a sequence of clauses, any of which may have a list of its own. The
lists are numbered, a list after those its clauses have, and the last is the one a
backend is given. Where the code calls itself for the list of a clause, the model
has a function of the numbers that refers to those before (`MeansIn`, `PlacesIn`,
`SelectsIn`, `SqliteBinds`, `MysqlBinds`, `FilledIn`), so that no definition is a
RECURSIVE operator and all of them can be proved about.

`Means` is what a list means for an object, by `Cmp`. `Build` is the text of
`build_clause`, where each condition knows how many places come `before` it in
its list. `SqliteTakes` and `MysqlTakes` are what `bind_clause` does with one
clause, once with a position and once with a pointer into the binds made
beforehand; `SqliteWalk` and `MysqlWalk` are its loops, and `Binds` is what the
statement gets. `Selects` is what the database makes of the text and the binds,
and `FilledIn` says that each place has the value of its own clause.
`Emits` is the map function of a CouchDB view as it is written,
for documents of the table and of others. `Joined` is the precedence of AND over
OR, which SQL and JavaScript share.

### ResultList and Reads

A list (`list`) is in memory, with a position in its items, or has a next
function and holds the result it has returned last. `statement` is what the next
function reads from, and where it is; `Fetches` is what the next functions of
SQLite and MySQL can return: the next row, or NULL at the end, on a failure, and
for a row that cannot be made into a result. An SQLite statement starts over
when it is stepped after its end, a MySQL statement does not. `Begin`,
`ListNext`, `FetchAll`, `NewCopy`, `CopyFails` and `Free` are the calls of
`libdbo_result.c`; `live` counts the results that were made and not freed.
`RowList` is the promise: rows are yielded one by one and in their order, and
only where NULL is returned a row can be lost or the list start over.

`Reads` is a program with a table of objects with one field, of any type, over
any backend: it creates objects, builds clause lists, reads or counts with them, and
walks through result lists in any way. `AddClause` adds to the list the program is at
(the last of `clauseLists`), `NewList` starts one that is to be around the others,
and `AddNested` puts a list that is in none yet (`Loose`) into a clause
(`libdbo_clause_set_list`). `AnswersAreExact` compares what is read with what
the clauses mean. `Understood` names the lists it is about, and thereby the
ones that a backend answers wrongly (see the observations below).

### SqliteBusy

The locks SQLite takes for reads and writes, the mutex of a connection, the
condition of the busy handler, and the clock. `Wait`, `WaitExpires` and
`Broadcast` are the handler and `sqlite3_finalize` with its broadcast.
`elapsed` is the time since `backend_sqlite->time` was set, which every prepare
and step on the connection sets anew; `since` is the history of how long a
thread has really been waiting.

### MemoryPool

The memory of each block is a function from words to contents, for the lists
of the pool are in it. `Take`, `NewBlock`, `Delete` and `FreeBlocks` are the
pointer operations of `libdbo_mm.c`. `Zero` is the part of `new0` that runs
after the lock is given back. `Checks` is the build with
`USE_LIBDBO_MM_CHECKS`. Pools are on by default (`USE_LIBDBO_MM`). `SetFunction`
is a call of `libdbo_mm_set_malloc` or `_set_free`; when both are set the pool is
passed by (`PassBy`), and an object that is then still in use goes to the program's
`free` when it is deleted (`Misfree`).

new, delete and release look at the two functions before they take the lock
(`libdbo_mm.c:97`, 201 and 249). `BeginNew`, `BeginDelete` and `BeginRelease` are
that look, `entering` and `deleting` say which calls then wait for the lock, and
`NewFromList`, `NewFromBlock`, `NewFail`, `Delete` and `Release` are what is done
under it, whatever functions have been set by then.

## The runs

| Run | Shows |
|---|---|
| `sqlite_store` | threads with a connection each: object revisions keep their promise in every interleaving |
| `sqlite_shared` | threads that share a connection: they do not (finding 1) |
| `mysql_store` | return values tell what was done unless the answer was lost; an object is deleted once |
| `mysql_revision` | the revision stored by MySQL statements is 0, so stale updates succeed (finding 2) |
| `couch_store` | requests and answers get lost: return values, stored values and revisions are right nevertheless |
| `couch_fields` | except that a second field gets the value of the first (finding 5) |
| `connections` | over any backends: no connection is lost, none is closed under an SQLite list, no transaction is ever open, and the answers tell which connections are |
| `sqlite_begin` | `transaction_begin` fails on a good connection (finding 3) |
| `sqlite_busy` | every step returns, and none gives up early |
| `reads` | lists and counts are what the clauses mean, values end up in their places and come back as they were, and result lists keep their promise |
| `memory_pool` | free list, blocks, counters and objects are right, for four object sizes, and an object goes to the wrong free only if objects were in use, or about to be made, when the second function was set |
| `memory_pool_checks` | the build with checks fails its own assertions (finding 4) |

### Bounds

* `sqlite_store`: two threads, two objects, updates from the revisions up to 2
  (`MaxRevision`). A conflict needs two threads and one object; the second
  object lets a statement meet a constraint, and lets a thread hold an object
  while another one is created or deleted. Three revisions let an object be
  changed between a read and its write, and once more. The proofs have no such
  bounds.
* `sqlite_shared`: three threads on one connection, as one thread must change a
  row between the step and the check of another.
* `mysql_store`, `mysql_revision`: two threads, one object and two field values:
  enough for an update that changes nothing. No update is begun of a row that
  was changed `MaxVersion` times.
* `couch_store`: two threads, one document of one field with two values, changed up
  to three times. A conflict needs two threads and one document, and a body that was
  left behind needs a second value to differ from the new one. Documents
  have nothing in common on the server, so that another one would only multiply the
  states. `couch_fields` has two fields, the fewest that can be confused.
* `connections`: two handles, each over any of the backends or an unknown one.
  Handles share only the initialized flags, so that a third one adds nothing. Two
  lists each, so that a close is refused, or cuts lists off, more than once. The
  proofs have no such bounds.
* `sqlite_begin`: as `connections`, with SQLite alone.
* `reads`: integers of 3 bits for the short and of 4 bits for the long types,
  and as values of a field those at the ends of the range of its type or on both sides of the
  half: what is lost in a conversion is lost there. Two objects, so
  that a list can have none, one or all of them. Up to two clauses in a list for fields
  of INT32 and one for the others, and up to two clause lists for INT32 and three for the
  others (`MaxClauses`, `MaxLists`): enough for both operators, for values before, in and
  behind a nested list, for a list within a list within a list, and for a clause without
  a value before one with a value (`ClauseTypes` has one of each kind the code treats
  alike, and one ordering; a list that is to be within another has EQUAL and nested
  clauses only, `InnerTypes`). Two result lists, the fewest for
  a copy and for two statements at once. The proofs have none of these bounds.
* `sqlite_busy`: two threads share a connection and one has its own, with one
  call and a timeout of three seconds each. One call each is enough for a
  deadlock, a missed broadcast, and for `backend_sqlite->time` to be set by
  another thread.
* `memory_pool`: two threads, pages of three words and at least one object a block:
  sizes 0 and 1 make a block of one page with two objects, size 2 fills one with a
  single object, and size 3 needs two pages for it, as the link takes its place. Two
  blocks are the fewest that are given back in a delete; there are up to three, so that
  the chain has a middle. Two threads are enough for a function to be set, and
  objects to be made, cleared and deleted, between a look at the functions and the lock. Which of malloc and free is replaced first makes
  no difference to the code.

Symmetry is used for threads, handles and lists in the runs without liveness.
Deadlock is checked in every run.

### Fairness

Only `SqliteBusy` has liveness. It assumes that time goes by (`WF(Tick)`) and
that a thread in a call is scheduled (`WF(Work(t))`), which also says that
a timed wait expires. Nothing is asked of the program: it need not make
calls, and it need not free result lists. The other modules state safety only.

## Findings

1. `libdbo_backend_sqlite.c:1490`: `sqlite3_changes` is read after the step. With
   a shared connection another statement may have set it: two updates of one
   version of an object both return OK.
2. `libdbo_backend_mysql.c:1839`: the revision is reset before the statement that
   reads it through its bind is executed.
3. `libdbo_backend_sqlite.c:1730`: `sizeof(sql)` is the size of a pointer, so
   transactions never begin (and could never commit).
4. `libdbo_mm.c:113`: with the checks the object size grows with every block.
   (That build is made by any value of `--with-libdbo-mm-checks` but "yes",
   `configure.ac:94`.)
5. `libdbo_backend_couchdb.c:433`: the position in the set of values is never
   raised, so every field of a document gets the first value (the same in the
   update, line 1443).

### Observations

The models take these in; no run is about them, as nothing in the repository
promises otherwise, or only in passing.

* `libdbo_backend_sqlite.c:137`: a waiter that is woken does not look at its
  timeout. `StepsReturn` holds for threads that make a limited number of calls
  each; with `Endless = TRUE` it does not.
* SQLite has no unsigned integers: a value in the upper half comes back right, but
  an ordering with it is that of the signed number (`libdbo_backend_sqlite.c:525`).
  CouchDB does the same with 64 bits (`libdbo_backend_couchdb.c:480`), and all numbers come
  back as INT64, which an object refuses for any other kind of field.
* MySQL takes a bind for every clause, also for those that send no value, so a
  list with `IS_NULL` or a nested list fails (`libdbo_backend_mysql.c:1019`), and so
  does an empty list (line 927).
* CouchDB looks up the ids of a list that names nothing but the primary key,
  whatever the clauses say of them (`libdbo_backend_couchdb.c:1097`), and so returns
  nothing for an empty list (line 1074). The operator of the first clause is written
  after the test of the type (line 844): with OR a view has all documents of the table.
  Nested lists cannot be given to it: their field is NULL and is handed to
  `strcmp` (line 1085). Its count always fails.
* MySQL knows no `BEGIN TRANSACTION`, so transactions do not begin there either;
  CouchDB's return OK, and a rollback keeps every change.
* The size of a MySQL list is `(size_t)-1` before it is loaded
  (`libdbo_backend_mysql.c:1628`), where `result.h:260-267` speaks of zero, and
  `libdbo_result_list_fetch_all` returns OK after a failure.
* `clause.h:136-143` has the comments of AND and OR the wrong way round.
* `libdbo_mm_new` looks at the functions before it takes the lock (`libdbo_mm.c:97`).
  If both are set between the two, the object it returns is one of the pool, and its
  delete hands it to the program's `free`, even though nothing was in use when
  the functions were set. A program that sets them before its
  threads start does not meet this. `late` in `MemoryPool` records this case with that of
  objects in use, and `FreedWhereMade` shows that there is no other.
* With both the checks and a malloc of the program, `libdbo_mm_new0` clears the
  object without its last word (`libdbo_mm.c:184`): there is no check word in it.

## What is proved

`SqliteStore_proofs`, for any threads, connections and bounds. The assumptions
are the types of the constants (`ConnOfType`, `BoundsType`); what concerns return
values also needs `PrivateConnections`, which finding 1 shows to be necessary.

* `TypeCorrect`, `WritesAreConditional`: from the invariant `TableInv`. The stored
  revision alone says nothing about versions; it does because it *counts* the
  changes of its row (`RowsMatch`), a key is never given out twice, and what a
  thread holds was in the table at the version it was seen at (`ObjMatches`).
  Therefore the WHERE clause selects a row exactly when the object is current
  (`SelectedIffCurrent`).
* `OutcomesAreTrue`, `OneWinner`: from `CallInv`, which adds that
  `sqlite3_changes` still tells of the thread's own statement until the handler
  has looked (`ChangesTell`). Two winners of one version are excluded because a
  change takes its row past the version it was made from (`ChangedIsPast`).
* `RefinesRevisionStore`: every step is a step of `RevisionStore` or changes
  nothing it speaks of, under the mapping `Outcome`.

`MysqlStore_proofs`, for any threads, objects and values (`BoundsType`).

* `TypeCorrect`, `OutcomesAreTrue`, `ObjectsDeletedOnce`: from `TableInv`. How far a call
  is tells what its statement has done (`CallMatches`), which is what the number of
  affected rows is worth. A deleted row stays deleted (`DeletedIsGone`), because
  AUTO_INCREMENT is ahead of every key in use (`KeysMatch`): so a second delete finds
  nothing, although the revision does not stop it.
* `RevisionSelectsNothing` says why it does not, and why finding 2 is no matter of
  timing: in every state the WHERE clause selects the same rows as it would without the
  revision, as no revision but 0 ever gets into a bind that is sent (`RevisionsReset`).

`CouchStore_proofs`, for any threads, documents, fields and values, and any loss of
requests and answers.

* `TypeCorrect`, `OutcomesAreTrue`: from `StoreInv`. What is sent is the body of the
  running call and not one that was left behind (`SentMatches`), and an answer that
  counts as a success is one to a request that was executed (`AnswerTells`).
* `StoredFromArguments`: what the server stores is made of the arguments of the call
  (`Members`), for any number of fields; `OneFieldStored`: for one field these are the
  arguments themselves. For more they are not (finding 5).
* `RefinesRevisionStore`: every step is one of `RevisionStore` or not seen by it, where
  a call takes effect as the server executes it.

`SqliteBusy_proofs`, for any threads, connections and timeout.

* `TypeCorrect`, `PatienceIsKept`: from `PatienceInv`. The time a connection keeps is
  not that of the waiting thread, as every call on it sets it back; but it is never
  longer (`TimeMatches`), so that nobody gives up early.
* `NoLockLeftBehind`: a step that has returned left no RESERVED or PENDING lock, from
  `LocksHeld`.

`MemoryPool_proofs`, for any threads and blocks and any sizes of objects, pages and
blocks (`SizesType`, `NumbersType`).

* `NothingMisfreed`: with and without the checks, from `FreedInv`: once both functions
  are set in time, no object of the pool is in use and no new that passed its look
  at them waits for the lock, so none can be made any more.
* `TypeCorrect`, `FreeListKept`, `NoBlockLost`, `NobodyElseWrites`: for the build without
  the checks, which is the default (with them the size changes between blocks, finding 4),
  from `PoolInv` and `CallsInv`. The latter is about the calls that wait for the lock: what
  is to be deleted is in use, cleared, and deleted by no other thread, so a delete
  that gets the lock finds its object as it left it. The blocks are `1 .. h` for some `h`, each linked to the one before
  (`HeapIs`); the free list, read from its end, is a sequence of all slots not in use
  without repetition, each linked to the one before (`Stack`). new takes the last
  of the sequence and delete appends to it, and both write only to a slot
  (`StoreInSlot`), whose words belong to no other (`ObjectsApart`) and are not a
  block's link (`SlotType`). What a fresh block holds is in `FreshBlock`, that it has room for
  its objects in `RoomForObjects`.
* `FreeListRight` and `BlocksReachable` follow the lists in memory with the recursive
  function `Chain`. `ChainIs` proves that it is the list of the invariant, from the least
  place where the two would differ (`LeastNumber`, an instance of the library's
  theorem about well-founded relations).

`Connections_proofs`, first for handles over SQLite, any number of them and any bounds,
for pointers of 4 and of 8 bytes (`PointerSizeType`, `MaxListsType`).

* `TypeCorrect`, `NoLeak`, `ListsAreSafe`, `NoTransactions`: from `Inv`, which is
  `Base` and `Attached`. `Base` says of each handle that what it refers to is what is
  open for it (`Accounted`), that lists read from an open connection (`Held`) and that
  no transaction is open (`Idle`). `Attached` says that a connection is open only
  while the library is initialized unless the program was careless. It is what
  makes freeing a handle close its connection: a shutdown would block it.

And then for handles over any backends, under the same assumptions.

* `AllTypesCorrect`, `NoBackendLeaks`, `AllListsAreSafe`, `AllAutocommit`: from
  `AllInv`, which is `Base` with `Grounded` (`Attached`, for the flag of the handle's
  own backend) and `Kind`, what each backend never does. A step is one of
  a handle (`OneHandle`: the others keep what they have), and SQLite's are
  taken over from the first part.
* `AnswersTell`: `Connections` implements `ConnectionPromise`. A step of a SQL handle
  is one of the promise (`ToldIsPromised`), one of a CouchDB handle is not seen.

`Conditions_proofs`, for integers of any widths and any enumerators (`HalvesType`,
`EnumSetType`), and clause lists of any length, nested to any depth.

* `FieldsRoundTrip`: with SQLite and MySQL a field of every type comes back as it
  was given, over the whole range. `CouchFieldsRoundTripOrFail`: with CouchDB it does
  for INT64 and TEXT, and any other kind is refused. Both rest on `SignsInverse` (C's
  conversions undo each other) and `NarrowFits`.
* `CmpOrders`: `libdbo_value_cmp` is antisymmetric and transitive on the values it
  compares, with the empty value below all others.
* What the recursive functions are is proved once each (`MeansIs`, `PlacesInIs`,
  `SelectsIs`, `FilledIs`, `SqliteBindsIs`, `MysqlBindsIs`), from `Recursion`: a
  function exists if each of its values is made of those before. What holds of every list
  is then shown upwards (`Upwards`): it holds of a list if it does of the ones before.
* `SqlitePlacesFilled`: the position of SQLite's `bind_clause` is always the number of
  places before the clause (`SqliteWalkPlaces`), so each value is in the place of
  its clause and none is left over.
* `MysqlPlacesFilled`: MySQL's takes a bind for each clause, so it is never behind the
  places (`Moves`); if it gets through without running out, it was never ahead of them
  either (`Level`). So it succeeds only for lists of comparisons, whose values are then in
  their places.
* `StatementSelectsMeant`: if the places are filled, and a column compares as its field
  does, a row is selected exactly when the clauses mean its object.

`Reads_proofs`, first for the result lists alone, for any lists and rows, and statements
of any length that start over or not.

* `ListTypeAlways`, `OwnedOnceAlways`, `SizeTellsAlways`: from `ListInv`, which holds
  list by list: `Shape` (a list that is not made is as new, one with a next
  function has no items, one in memory holds no result), `Owned` and `Sized`.
  Without `Shape` a free would not know what it frees.
* `KeepsRowsAlways`: the lists implement `RowList`, with the rows of the statement or
  the items for `Content` and the place of the statement or the position in the
  items for `Yielded`.

And then for the program, over any backend, for any samples, clauses and objects
(`SamplesType`, `ClauseTypesType`, `MaxObjectsType`; `ResultsAreRows` says that `Row` has
what a read returns). Everything is from `Inv`, which is four things besides types:
`ClausesOK` says how each clause was made (`MadeOf`: the value of a clause is that of its
field, and its list is one before), `TableOK` that the table keeps of an object what
`Stored` makes of the number it was given, `ContentOK` that every row of a list is the
result of an object of the table, also after the list was walked, loaded or copied, and
`ListInv` what the walks rely on.

* `TypeAlways` and `PlacesFilledAlways`: the latter from `ClausesOK` and the two theorems
  about binds, whatever lists the program builds.
* `FieldsSurviveAlways`: from `TableOK`, `ContentOK` and the round trips. Its hypothesis is
  `MaxObjects < Half32`: SQLite's keys are read with `sqlite3_column_int`, and beyond
  that two objects would be seen with one key (`KeysDiffer`).
* `ReadsAreLists`: the program implements `ListSpec`, so that the theorems about the lists
  hold of it (`ReadsKeepRows`).
* `AnswersAreExactAlways`, under the same hypothesis: for SQL the columns compare as the
  fields do, but for orderings of numbers in the upper half that SQLite does not have
  (`StoredSigns`), so that what is selected is what is meant (`SelectedAreMeant`). For
  CouchDB it is the documents of a view (`EmittedAreMeant`) or the ids (`IdsAreMeant`); a
  view is sorted (`SortedIs`), so it has each document once. `Understood` is
  what these lemmas need, and the observations above say where it fails.

## What is only model-checked

* The liveness of `SqliteBusy` (`StepsReturn`): the prover does not do liveness under
  fairness, nor ENABLED.
* The violations: they need an instance, not a proof. The proofs next to them say
  under which assumption the property does hold (`PrivateConnections`, one field) or why it
  cannot (`RevisionSelectsNothing`).

The library's induction theorems take an operator for the statement to be proved, which
the installed provers cannot instantiate. Where an induction was needed (`ChainIs`,
`Recursion`, `Upwards`) it is an argument by the least counterexample.

## What is not modelled

* Joins and the table of a clause: they copy names into the SQL.
* A list that has been begun stays so when it is copied into, if it is empty:
  `libdbo_result_list_copy` looks only for items and functions and leaves `begun` alone
  (`libdbo_result.c:224-273`), so that the next after the copy does not start at the
  first result.
* The CouchDB updates and deletes with an empty list of clauses, which return OK without
  a request and change nothing (`libdbo_backend_couchdb.c:1385` and 1623); those of
  generated objects always have a clause. A read with such a list, which returns no
  object without a request, is part of `Reads` but not of `CouchStore`.
* Generated object lists (`_list_...` of the generated code), which turn the
  results of a list into objects one at a time or all at once.
* Of the CouchDB backend: an update or a delete of several ids in one call. The
  object has one revision, so that CouchDB refuses all documents but its own.
* The sizes of texts and buffers: an answer that is too long for CouchDB's buffer is one
  that is not heard; MySQL's buffers grow until the text fits.
* What freed memory holds: a use after free is only recorded as the program's
  carelessness (`SqliteConnection`).
* The descriptions of objects and fields, the configuration: built once by one thread, and
  then only read. Log and errors: output.
* The code generators: they only contribute what a generated object keeps of a row
  and the clauses it adds (`Obj`, `Selected`).
* Tests, build files and documentation are not part of the program.

## The plan

1. Generated object lists over `ResultList`: storing, walking, copying, and an object
   that cannot be made of its result.
2. CouchDB: several ids in one call.
