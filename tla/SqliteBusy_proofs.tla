-------------------------- MODULE SqliteBusy_proofs --------------------------
(***************************************************************************)
(* Proofs about SqliteBusy, for any number of threads and connections and  *)
(* any timeout.  That every step returns is a matter of fairness and is    *)
(* left to TLC.                                                            *)
(***************************************************************************)
EXTENDS SqliteBusy, TLAPS

----------------------------------------------------------------------------
(* The inductive invariants                                                *)

\* The time of a connection is set by every call on it, so it is never longer
\* than any thread in a step has waited.
TimeMatches ==
  \A t \in Client : InStep(t) => elapsed[ConnOf[t]] <= since[t]

PatienceInv == TypeOK /\ TimeMatches /\ PatienceKept

\* Only a write that is in its step keeps the database, and only it keeps new
\* reads out.
LocksHeld ==
  /\ \A t \in reserved : Inside(t) /\ kind[t] = "write"
  /\ \A t, u \in reserved : t = u
  /\ pending => reserved # {}

----------------------------------------------------------------------------
(* Types                                                                   *)

(***************************************************************************)
(* Every step of the busy handler and of the handlers around it keeps the  *)
(* types.                                                                  *)
(***************************************************************************)
LEMMA TypeStep == TypeOK /\ [Next]_vars => TypeOK'
<1> USE ConnOfType, NumbersType
<1> SUFFICES ASSUME TypeOK, [Next]_vars PROVE TypeOK'
  OBVIOUS
<1>1. CASE UNCHANGED vars
  BY <1>1 DEF TypeOK, vars, locks
<1>2. ASSUME NEW t \in Client, NEW k \in {"read", "write"}, Call(t, k) PROVE TypeOK'
  <2>1. (IF Endless THEN budget[t] ELSE budget[t] - 1) \in Nat
    BY <1>2 DEF Call, TypeOK
  <2>2. budget' \in [Client -> Nat]
    BY <1>2, <2>1 DEF Call, TypeOK
  <2>3. elapsed' \in [Connection -> 0 .. Timeout] /\ since' \in [Client -> 0 .. Timeout]
    BY <1>2 DEF Call, Start, TypeOK
  <2> QED
    BY <1>2, <2>2, <2>3 DEF Call, At, TypeOK, locks
<1>3. ASSUME NEW t \in Client, Work(t) PROVE TypeOK'
  <2>1. CASE Enter(t) \/ Wait(t)
    BY <2>1 DEF Enter, Wait, At, TypeOK, locks
  <2>2. CASE TryRead(t)
    BY <2>2 DEF TryRead, At, TypeOK
  <2>3. CASE TryReserve(t)
    BY <2>3 DEF TryReserve, TypeOK
  <2>4. CASE TryCommit(t)
    BY <2>4 DEF TryCommit, LetGo, At, TypeOK
  <2>5. CASE FindBusy(t)
    BY <2>5 DEF FindBusy, At, TypeOK
  <2>6. CASE WaitExpires(t)
    BY <2>6 DEF WaitExpires, LetGo, At, TypeOK, locks
  <2>7. CASE Broadcast(t)
    BY <2>7 DEF Broadcast, TypeOK, locks
  <2> QED
    BY <1>3, <2>1, <2>2, <2>3, <2>4, <2>5, <2>6, <2>7 DEF Work
<1>4. ASSUME NEW t \in Client, FreeList(t) PROVE TypeOK'
  BY <1>4 DEF FreeList, At, TypeOK
<1>5. CASE Tick
  <2>1. elapsed' \in [Connection -> 0 .. Timeout]
    BY <1>5 DEF Tick, TypeOK
  <2>2. since' \in [Client -> 0 .. Timeout]
    BY <1>5 DEF Tick, TypeOK
  <2> QED
    BY <1>5, <2>1, <2>2 DEF Tick, TypeOK, locks
<1> QED
  BY <1>1, <1>2, <1>3, <1>4, <1>5 DEF Next

\* No thread has made a call yet, and no time has passed.
LEMMA InitType == Init => TypeOK
<1> SUFFICES ASSUME Init PROVE TypeOK
  OBVIOUS
<1>1. 0 \in 0 .. Timeout
  BY NumbersType
<1>2. elapsed \in [Connection -> 0 .. Timeout] /\ since \in [Client -> 0 .. Timeout]
  BY <1>1 DEF Init
<1>3. budget \in [Client -> Nat]
  BY CallsType DEF Init
<1> QED
  BY <1>2, <1>3 DEF Init, TypeOK

(***************************************************************************)
(* The state of the locks and the waits is well formed in every behaviour. *)
(***************************************************************************)
THEOREM TypeCorrect == Spec => []TypeOK
<1>1. Init => TypeOK
  BY InitType
<1> QED
  BY <1>1, TypeStep, PTL DEF Spec

----------------------------------------------------------------------------
(* The timeout                                                             *)

(***************************************************************************)
(* The time of a connection and the waits of its threads advance together, *)
(* and only a new call on the connection sets the time back.               *)
(***************************************************************************)
LEMMA PatienceStep == PatienceInv /\ [Next]_vars => PatienceInv'
<1> USE ConnOfType, NumbersType
<1> SUFFICES ASSUME PatienceInv, [Next]_vars PROVE PatienceInv'
  OBVIOUS
<1>u. TypeOK /\ TimeMatches /\ PatienceKept
  BY DEF PatienceInv
<1> SUFFICES TimeMatches' /\ PatienceKept'
  BY <1>u, TypeStep DEF PatienceInv
<1>1. CASE UNCHANGED vars
  BY <1>u, <1>1 DEF TimeMatches, PatienceKept, InStep, Inside, vars, locks
<1>2. ASSUME NEW t \in Client, NEW k \in {"read", "write"}, Call(t, k)
      PROVE  TimeMatches' /\ PatienceKept'
  <2>1. /\ elapsed'[ConnOf[t]] = 0 /\ since'[t] = 0 /\ result'[t] = "none"
        /\ \A u \in Client : u # t =>
             pc'[u] = pc[u] /\ since'[u] = since[u] /\ result'[u] = result[u]
        /\ \A n \in Connection : elapsed'[n] = 0 \/ elapsed'[n] = elapsed[n]
    BY <1>u, <1>2 DEF Call, Start, At, TypeOK
  <2>2. \A u \in Client : 0 <= since[u]
    BY <1>u DEF TypeOK
  <2>3. TimeMatches'
    BY <1>u, <2>1, <2>2 DEF TimeMatches, InStep, Inside
  <2>4. PatienceKept'
    BY <1>u, <2>1 DEF PatienceKept
  <2> QED
    BY <2>3, <2>4
<1>3. ASSUME NEW t \in Client, Work(t) PROVE TimeMatches' /\ PatienceKept'
  <2>1. CASE Enter(t) \/ Wait(t) \/ TryReserve(t) \/ FindBusy(t)
    <3>1. /\ elapsed' = elapsed /\ since' = since
          /\ \A u \in Client : /\ InStep(u)' => InStep(u)
                               /\ result'[u] = "timeout" => result[u] = "timeout"
      BY <1>u, <2>1 DEF Enter, Wait, TryReserve, FindBusy, At, InStep, Inside, TypeOK
    <3> QED
      BY <1>u, <3>1 DEF TimeMatches, PatienceKept
  <2>2. CASE TryRead(t) \/ TryCommit(t)
    <3>1. /\ elapsed' = elapsed /\ ~InStep(t)' /\ result'[t] = "ok"
          /\ \A u \in Client : u # t =>
               pc'[u] = pc[u] /\ since'[u] = since[u] /\ result'[u] = result[u]
      BY <1>u, <2>2 DEF TryRead, TryCommit, At, InStep, Inside, TypeOK
    <3> QED
      BY <1>u, <3>1 DEF TimeMatches, PatienceKept, InStep, Inside
  <2>3. CASE WaitExpires(t)
    <3>1. /\ elapsed' = elapsed /\ since' = since /\ InStep(t)
          /\ \A u \in Client : InStep(u)' => InStep(u)
          /\ \A u \in Client : u # t => result'[u] = result[u]
          /\ result' = result \/ ~WaitAgain(t)
      BY <1>u, <2>3 DEF WaitExpires, At, InStep, Inside, TypeOK
    <3>2. ~WaitAgain(t) => since[t] = Timeout
      BY <1>u, <3>1 DEF WaitAgain, TimeMatches, TypeOK
    <3> QED
      BY <1>u, <3>1, <3>2 DEF TimeMatches, PatienceKept
  <2>4. CASE Broadcast(t)
    <3>1. /\ elapsed' = elapsed /\ since' = since /\ result' = result
          /\ \A u \in Client : InStep(u)' => InStep(u)
      BY <1>u, <2>4 DEF Broadcast, InStep, Inside, TypeOK
    <3> QED
      BY <1>u, <3>1 DEF TimeMatches, PatienceKept
  <2> QED
    BY <1>3, <2>1, <2>2, <2>3, <2>4 DEF Work
<1>4. ASSUME NEW t \in Client, FreeList(t) PROVE TimeMatches' /\ PatienceKept'
  <2>1. /\ elapsed' = elapsed /\ since' = since /\ result' = result
        /\ \A u \in Client : InStep(u)' => InStep(u)
    BY <1>u, <1>4 DEF FreeList, At, InStep, Inside, TypeOK
  <2> QED
    BY <1>u, <2>1 DEF TimeMatches, PatienceKept
<1>5. CASE Tick
  <2>1. /\ result' = result
        /\ \A u \in Client : InStep(u)' <=> InStep(u)
    BY <1>5 DEF Tick, InStep, Inside
  <2>2. \A u \in Client :
          since'[u] = IF InStep(u) /\ since[u] < Timeout THEN since[u] + 1 ELSE since[u]
    BY <1>5 DEF Tick
  <2>3. \A u \in Client : InStep(u) =>
          elapsed'[ConnOf[u]] = IF elapsed[ConnOf[u]] < Timeout
                                  THEN elapsed[ConnOf[u]] + 1 ELSE elapsed[ConnOf[u]]
    BY <1>5 DEF Tick
  <2>4. \A u \in Client : since[u] \in 0 .. Timeout /\ elapsed[ConnOf[u]] \in 0 .. Timeout
    BY <1>u DEF TypeOK
  <2>5. TimeMatches'
    BY <1>u, <2>1, <2>2, <2>3, <2>4 DEF TimeMatches
  <2>6. PatienceKept'
    BY <1>u, <2>1, <2>2 DEF PatienceKept
  <2> QED
    BY <2>5, <2>6
<1> QED
  BY <1>1, <1>2, <1>3, <1>4, <1>5 DEF Next

(***************************************************************************)
(* __libdbo_backend_sqlite_busy_handler gives up no step before its        *)
(* timeout, although the time is kept for the connection and other threads *)
(* set it back and broadcast.                                              *)
(***************************************************************************)
THEOREM PatienceIsKept == Spec => []PatienceKept
<1>1. Init => PatienceInv
  BY InitType DEF Init, PatienceInv, TimeMatches, PatienceKept, InStep, Inside
<1>2. PatienceInv => PatienceKept
  BY DEF PatienceInv
<1> QED
  BY <1>1, <1>2, PatienceStep, PTL DEF Spec

----------------------------------------------------------------------------
(* The locks                                                               *)

(***************************************************************************)
(* A step that ends, in whichever way, lets go of the locks of its write.  *)
(***************************************************************************)
LEMMA LocksStep == TypeOK /\ LocksHeld /\ [Next]_vars => LocksHeld'
<1> USE ConnOfType, NumbersType
<1> SUFFICES ASSUME TypeOK, LocksHeld, [Next]_vars PROVE LocksHeld'
  OBVIOUS
<1>1. CASE UNCHANGED vars
  BY <1>1 DEF LocksHeld, Inside, vars, locks
<1>2. ASSUME NEW t \in Client, NEW k \in {"read", "write"}, Call(t, k) PROVE LocksHeld'
  <2>1. t \notin reserved /\ UNCHANGED <<reserved, pending>>
    BY <1>2 DEF Call, LocksHeld, Inside, locks
  <2>2. \A u \in reserved : pc'[u] = pc[u] /\ kind'[u] = kind[u]
    BY <1>2, <2>1 DEF Call, At, TypeOK
  <2> QED
    BY <2>1, <2>2 DEF LocksHeld, Inside
<1>3. ASSUME NEW t \in Client, Work(t) PROVE LocksHeld'
  <2>1. CASE Enter(t) \/ Wait(t)
    BY <2>1 DEF Enter, Wait, At, TypeOK, locks, LocksHeld, Inside
  <2>2. CASE TryRead(t)
    BY <2>2 DEF TryRead, At, TypeOK, LocksHeld, Inside
  <2>3. CASE TryReserve(t)
    BY <2>3 DEF TryReserve, TypeOK, LocksHeld, Inside
  <2>4. CASE TryCommit(t)
    BY <2>4 DEF TryCommit, LetGo, At, TypeOK, LocksHeld, Inside
  <2>5. CASE FindBusy(t)
    BY <2>5 DEF FindBusy, Refused, At, TypeOK, LocksHeld, Inside
  <2>6. CASE WaitExpires(t)
    <3>1. CASE At(t, "try") /\ UNCHANGED <<reserved, pending>>
      BY <2>6, <3>1 DEF WaitExpires, At, TypeOK, LocksHeld, Inside
    <3>2. CASE At(t, "done") /\ LetGo(t)
      <4>1. /\ \A u \in Client : u # t => pc'[u] = pc[u]
            /\ kind' = kind /\ reserved \subseteq Client
            /\ reserved' = reserved \ {t}
            /\ pending' = (pending /\ t \notin reserved)
        BY <2>6, <3>2 DEF WaitExpires, LetGo, At, TypeOK
      <4>2. \A u \in reserved' : Inside(u)' /\ kind'[u] = "write"
        BY <4>1 DEF LocksHeld, Inside
      <4>3. pending' => reserved' = reserved
        BY <4>1
      <4> QED
        BY <4>1, <4>2, <4>3 DEF LocksHeld
    <3> QED
      BY <2>6, <3>1, <3>2 DEF WaitExpires, locks
  <2>7. CASE Broadcast(t)
    BY <2>7 DEF Broadcast, TypeOK, locks, LocksHeld, Inside
  <2> QED
    BY <1>3, <2>1, <2>2, <2>3, <2>4, <2>5, <2>6, <2>7 DEF Work
<1>4. ASSUME NEW t \in Client, FreeList(t) PROVE LocksHeld'
  BY <1>4 DEF FreeList, At, TypeOK, LocksHeld, Inside
<1>5. CASE Tick
  BY <1>5 DEF Tick, locks, LocksHeld, Inside
<1> QED
  BY <1>1, <1>2, <1>3, <1>4, <1>5 DEF Next

(***************************************************************************)
(* A write that has returned, committed, refused or timed out, has left no *)
(* lock behind that other connections would have to wait for.              *)
(***************************************************************************)
THEOREM NoLockLeftBehind ==
  Spec => []((\A t \in Client : ~Inside(t)) => reserved = {} /\ ~pending)
<1>1. Init => LocksHeld
  BY DEF Init, LocksHeld
<1>2. TypeOK /\ LocksHeld => ((\A t \in Client : ~Inside(t)) => reserved = {} /\ ~pending)
  BY DEF TypeOK, LocksHeld
<1> QED
  BY <1>1, <1>2, LocksStep, TypeCorrect, PTL DEF Spec

=============================================================================
