----------------------------- MODULE SqliteBusy -----------------------------
(***************************************************************************)
(* Waiting for the SQLite database lock: the busy handler, prepare, step   *)
(* and finalize of libdbo_backend_sqlite.c, by threads whose connections   *)
(* read and write one database.                                            *)
(*                                                                         *)
(* A thread that finds the database locked waits for __sqlite_cond, for at *)
(* most usleep microseconds at a time, and the handler tells SQLite to try *)
(* again or to give up.  Whoever finalizes a statement broadcasts, without *)
(* the mutex, so that the broadcast can fall between a failed attempt and  *)
(* the wait.                                                               *)
(*                                                                         *)
(* Time is counted in the seconds of time(), and a wait of usleep          *)
(* microseconds expires at any time.  A step of SQLite holds the mutex of  *)
(* its connection (SQLITE_OPEN_FULLMUTEX), the busy handler included.      *)
(***************************************************************************)
EXTENDS Naturals

CONSTANTS
  Client,      \* threads
  Connection,  \* SQLite connections
  ConnOf,      \* the connection a thread uses
  Timeout,     \* the timeout in seconds
  Calls,       \* bound: how many calls each thread makes ...
  Endless      \* ... or do the threads never stop making calls?

ASSUME ConnOfType == ConnOf \in [Client -> Connection]
ASSUME CallsType == Calls \in [Client -> Nat]
ASSUME NumbersType == Timeout \in Nat /\ Endless \in BOOLEAN

VARIABLES
  pc,        \* how far the call of a thread is
  kind,      \* does it read or write?
  result,    \* how its last step ended
  list,      \* has the thread a statement on a row, with its SHARED lock?
  reserved,  \* the thread, if any, whose statement holds the RESERVED lock
  pending,   \* does it hold the PENDING lock, to commit?
  elapsed,   \* seconds since backend_sqlite->time was set
  since,     \* history: seconds since the thread's call began, if it waits
  budget     \* calls left to each thread

locks == <<list, reserved, pending>>
vars == <<pc, kind, result, locks, elapsed, since, budget>>

----------------------------------------------------------------------------

TypeOK ==
  /\ pc \in [Client -> {"idle", "called", "try", "busy", "wait", "done"}]
  /\ kind \in [Client -> {"read", "write"}]
  /\ result \in [Client -> {"none", "ok", "refused", "timeout"}]
  /\ list \in [Client -> BOOLEAN]
  /\ reserved \subseteq Client
  /\ pending \in BOOLEAN
  /\ elapsed \in [Connection -> 0 .. Timeout]
  /\ since \in [Client -> 0 .. Timeout]
  /\ budget \in [Client -> Nat]

Init ==
  /\ pc = [t \in Client |-> "idle"]
  /\ kind = [t \in Client |-> "read"]
  /\ result = [t \in Client |-> "none"]
  /\ list = [t \in Client |-> FALSE]
  /\ reserved = {}
  /\ pending = FALSE
  /\ elapsed = [n \in Connection |-> 0]
  /\ since = [t \in Client |-> 0]
  /\ budget = Calls

At(t, p) == pc' = [pc EXCEPT ![t] = p]

----------------------------------------------------------------------------
(* SQLite's locks                                                          *)

Inside(t) == pc[t] \in {"try", "busy", "wait"}

\* Another thread is in a step of the same connection.
MutexTaken(t) ==
  \E u \in Client : u # t /\ ConnOf[u] = ConnOf[t] /\ Inside(u)

Reading(n) == \E u \in Client : ConnOf[u] = n /\ list[u]

\* A connection that reads already needs no lock for another read.  A write
\* takes RESERVED first and then waits for the connections that read.
Blocked(t) ==
  IF kind[t] = "read" THEN pending /\ ~Reading(ConnOf[t])
  ELSE IF t \in reserved THEN \E n \in Connection \ {ConnOf[t]} : Reading(n)
  ELSE reserved # {}

\* SQLite does not call the busy handler where waiting could be a deadlock: a
\* connection that reads wants RESERVED and another one has it.
Refused(t) == kind[t] = "write" /\ t \notin reserved /\ Reading(ConnOf[t])

\* A step that fails rolls its write back.
LetGo(t) ==
  /\ reserved' = reserved \ {t}
  /\ pending' = (pending /\ t \notin reserved)
  /\ UNCHANGED list

----------------------------------------------------------------------------
(* A call                                                                  *)

\* Mutant: the time is set to when the waiting is to end.
StartAtEnd == Timeout + 1

\* backend_sqlite->time is set to the current time.
Start == 0

\* The statement is prepared and bound, and the time is noted: for the
\* connection, whatever other threads are doing with it.
Call(t, k) ==
  /\ pc[t] = "idle"
  /\ budget[t] > 0
  /\ budget' = [budget EXCEPT ![t] = IF Endless THEN @ ELSE @ - 1]
  /\ kind' = [kind EXCEPT ![t] = k]
  /\ result' = [result EXCEPT ![t] = "none"]
  /\ elapsed' = [elapsed EXCEPT ![ConnOf[t]] = Start]
  /\ since' = [since EXCEPT ![t] = 0]
  /\ At(t, "called")
  /\ UNCHANGED locks

\* sqlite3_step gets hold of the connection.
Enter(t) ==
  /\ pc[t] = "called"
  /\ ~MutexTaken(t)
  /\ At(t, "try")
  /\ UNCHANGED <<kind, result, locks, elapsed, since, budget>>

\* The step of a read is on a row, or at the end of the rows.
TryRead(t) ==
  /\ pc[t] = "try" /\ kind[t] = "read" /\ ~Blocked(t)
  /\ \E row \in BOOLEAN : list' = [list EXCEPT ![t] = row]
  /\ result' = [result EXCEPT ![t] = "ok"]
  /\ since' = [since EXCEPT ![t] = 0]
  /\ At(t, "idle")
  /\ UNCHANGED <<kind, reserved, pending, elapsed, budget>>

TryReserve(t) ==
  /\ pc[t] = "try" /\ kind[t] = "write" /\ t \notin reserved /\ ~Blocked(t)
  /\ reserved' = {t}
  /\ UNCHANGED <<pc, kind, result, list, pending, elapsed, since,
                 budget>>

TryCommit(t) ==
  /\ pc[t] = "try" /\ t \in reserved /\ ~Blocked(t)
  /\ LetGo(t)
  /\ result' = [result EXCEPT ![t] = "ok"]
  /\ since' = [since EXCEPT ![t] = 0]
  /\ At(t, "done")
  /\ UNCHANGED <<kind, elapsed, budget>>

\* The lock is held elsewhere: SQLite calls the busy handler, or does not.  A
\* write that waits for reads keeps new ones out.
FindBusy(t) ==
  /\ pc[t] = "try" /\ Blocked(t)
  /\ pending' = (pending \/ t \in reserved)
  /\ \/ /\ ~Refused(t)
        /\ At(t, "busy")
        /\ UNCHANGED result
     \/ /\ Refused(t)
        /\ At(t, "done")
        /\ result' = [result EXCEPT ![t] = "refused"]
  /\ UNCHANGED <<kind, list, reserved, elapsed, since, budget>>

----------------------------------------------------------------------------
(* The busy handler                                                        *)

\* pthread_cond_timedwait.
Wait(t) ==
  /\ pc[t] = "busy"
  /\ At(t, "wait")
  /\ UNCHANGED <<kind, result, locks, elapsed, since, budget>>

\* Mutant: the time waited so far is not looked at.
OneWaitOnly(t) == FALSE

\* Mutant: the handler never gives up.
WaitsOn(t) == TRUE

WaitAgain(t) == elapsed[ConnOf[t]] < Timeout

\* ETIMEDOUT: SQLite is to try again, or the step fails with SQLITE_BUSY.
WaitExpires(t) ==
  /\ pc[t] = "wait"
  /\ \/ /\ WaitAgain(t)
        /\ At(t, "try")
        /\ UNCHANGED <<result, locks>>
     \/ /\ ~WaitAgain(t)
        /\ At(t, "done")
        /\ result' = [result EXCEPT ![t] = "timeout"]
        /\ LetGo(t)
  /\ UNCHANGED <<kind, elapsed, since, budget>>

\* pthread_cond_broadcast after sqlite3_finalize: the handler of each waiting
\* thread returns 1 at once, however long the thread has waited.
Broadcast(t) ==
  /\ pc[t] = "done"
  /\ pc' = [u \in Client |->
              IF u = t THEN "idle" ELSE IF pc[u] = "wait" THEN "try" ELSE pc[u]]
  /\ UNCHANGED <<kind, result, locks, elapsed, since, budget>>

\* libdbo_result_list_free on a list that is on a row: sqlite3_finalize lets go
\* of the SHARED lock, the broadcast follows.
FreeList(t) ==
  /\ pc[t] = "idle"
  /\ list[t] /\ ~MutexTaken(t)
  /\ list' = [list EXCEPT ![t] = FALSE]
  /\ At(t, "done")
  /\ UNCHANGED <<kind, result, reserved, pending, elapsed, since,
                 budget>>

InStep(t) == pc[t] = "called" \/ Inside(t)

\* A second goes by.  It is of no interest to threads and to
\* connections that are not in a step.
Tick ==
  /\ elapsed' = [n \in Connection |->
                   IF /\ elapsed[n] < Timeout
                      /\ \E t \in Client : ConnOf[t] = n /\ InStep(t)
                     THEN elapsed[n] + 1 ELSE elapsed[n]]
  /\ since' = [t \in Client |->
                 IF InStep(t) /\ since[t] < Timeout
                   THEN since[t] + 1 ELSE since[t]]
  /\ UNCHANGED <<pc, kind, result, locks, budget>>

----------------------------------------------------------------------------

\* What a thread does once it is in a call.
Work(t) ==
  \/ Enter(t)
  \/ TryRead(t) \/ TryReserve(t) \/ TryCommit(t) \/ FindBusy(t)
  \/ Wait(t) \/ WaitExpires(t)
  \/ Broadcast(t)

Next ==
  \/ \E t \in Client :
       Call(t, "read") \/ Call(t, "write") \/ Work(t) \/ FreeList(t)
  \/ Tick

(***************************************************************************)
(* Threads run and time goes by.  Nothing is asked of the program: it need *)
(* not make calls and it need not free its result lists.                   *)
(***************************************************************************)
Fairness == WF_vars(Tick) /\ \A t \in Client : WF_vars(Work(t))

Spec == Init /\ [][Next]_vars /\ Fairness

----------------------------------------------------------------------------
(* Properties                                                              *)

(***************************************************************************)
(* The busy handler gives up no thread's step before the timeout, whatever *)
(* the timed waits, the broadcasts and the other threads of the connection *)
(* do in the meantime.                                                     *)
(***************************************************************************)
PatienceKept ==
  \A t \in Client : result[t] = "timeout" => since[t] = Timeout

(***************************************************************************)
(* sqlite.h, "timeout in seconds waiting for the internal SQLite lock to   *)
(* be released": every step returns, with the lock or without it, also     *)
(* when a broadcast is missed, when threads wait for each other and when a *)
(* result list is never freed.                                             *)
(***************************************************************************)
StepsReturn == \A t \in Client : pc[t] = "called" ~> pc[t] = "idle"

=============================================================================
