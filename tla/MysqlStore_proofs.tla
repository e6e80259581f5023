-------------------------- MODULE MysqlStore_proofs --------------------------
(***************************************************************************)
(* Proofs about MysqlStore, for any number of threads, objects and values. *)
(***************************************************************************)
EXTENDS MysqlStore, TLAPS

----------------------------------------------------------------------------
(* The inductive invariant                                                 *)

\* AUTO_INCREMENT is ahead of every key that has been used or read.
KeysMatch ==
  /\ \A k \in Key : k > lastKey => ~rows[k].live /\ version[k] = 0
  /\ \A c \in Client :
       /\ obj[c] # Nil => obj[c].key <= lastKey
       /\ list[c].obj # Nil => list[c].obj.key <= lastKey

\* How far a call is tells what its statement has done.
CallMatches ==
  \A c \in Client :
    /\ call[c] \in {"update", "delete"} => obj[c] # Nil
    /\ pc[c] # "idle" => call[c] \in {"create", "update", "delete"}
    /\ pc[c] \in {"bound", "ready"} => ~applied[c]
    /\ pc[c] = "executed" => affected[c] = IF applied[c] THEN 1 ELSE 0
    /\ pc[c] = "failed" /\ applied[c] => ~up[c]

\* The statement of c has deleted the row that c had read.
Deleted(c) == applied[c] /\ call[c] = "delete"

\* A deleted object is gone for good, whoever still holds it.
DeletedIsGone ==
  \A c \in Client : Deleted(c) => ~rows[obj[c].key].live

DeletesDiffer ==
  \A c, d \in Client :
    (c # d /\ Deleted(c) /\ Deleted(d)) => obj[c].key # obj[d].key

TableInv ==
  TypeOK /\ KeysMatch /\ CallMatches /\ DeletedIsGone /\ DeletesDiffer
  /\ OutcomeIsTrue

----------------------------------------------------------------------------
(* Types                                                                   *)

\* The row a field starts with is a row.
LEMMA NoRowType == NoRow \in Row /\ SomeValue \in Value
BY ValueType DEF NoRow, Row, SomeValue

\* What an update makes of a row is a row.
LEMMA UpdatedType ==
  ASSUME NEW c \in Client, NEW row \in Row, revision[c] \in Nat, value[c] \in Value
  PROVE  /\ Updated(c, row) \in Row
         /\ Updated(c, row).live = row.live /\ Updated(c, row).rev = revision[c]
<1> DEFINE first == [row EXCEPT !.rev = revision[c]]
<1>1. first \in Row /\ first.live = row.live /\ first.rev = revision[c]
  BY DEF Row
<1>2. Updated(c, row) = [first EXCEPT !.value = value[c]]
  BY DEF Updated
<1> HIDE DEF first
<1> QED
  BY <1>1, <1>2 DEF Row

\* A statement that is prepared changes the call and nothing of the table.
LEMMA PrepareType ==
  ASSUME TypeOK, NEW c \in Client,
         NEW op \in {"create", "update", "delete"},
         NEW bound \in Nat, NEW next \in {"bound", "ready"},
         value' \in [Client -> Value],
         Prepare(c, op, bound, next)
  PROVE  TypeOK'
<1>1. \/ /\ revision' = [revision EXCEPT ![c] = bound]
         /\ pc' = [pc EXCEPT ![c] = next]
         /\ result' = [result EXCEPT ![c] = "none"]
      \/ /\ result' = [result EXCEPT ![c] = "error"]
         /\ UNCHANGED <<pc, revision>>
  BY DEF Prepare
<1> QED
  BY <1>1 DEF Prepare, TypeOK, table

\* A statement that is executed changes how far the call is.
LEMMA ExecutedType ==
  ASSUME TypeOK, NEW c \in Client, NEW n \in Nat, Executed(c, n)
  PROVE  /\ pc' \in [Client -> {"idle", "bound", "ready", "executed", "failed"}]
         /\ up' \in [Client -> BOOLEAN]
         /\ affected' \in [Client -> Nat]
         /\ applied' \in [Client -> BOOLEAN]
         /\ UNCHANGED <<obj, value, call, revision, list, result, seen>>
<1>1. \/ /\ pc' = [pc EXCEPT ![c] = "executed"]
         /\ affected' = [affected EXCEPT ![c] = n]
         /\ up' = up
      \/ /\ pc' = [pc EXCEPT ![c] = "failed"]
         /\ up' = [up EXCEPT ![c] = FALSE]
         /\ affected' = affected
  BY DEF Executed
<1>2. applied' \in [Client -> BOOLEAN]
  BY DEF Executed, TypeOK
<1>3. UNCHANGED <<obj, value, call, revision, list, result, seen>>
  BY DEF Executed
<1> QED
  BY <1>1, <1>2, <1>3 DEF TypeOK

(***************************************************************************)
(* Every step of every handler in libdbo_backend_mysql.c keeps the types.  *)
(***************************************************************************)
LEMMA TypeStep == TypeOK /\ [Next]_vars => TypeOK'
<1> USE BoundsType
<1> SUFFICES ASSUME TypeOK, [Next]_vars PROVE TypeOK'
  OBVIOUS
<1>1. CASE UNCHANGED vars
  BY <1>1 DEF TypeOK, vars, table, call_vars
<1>2. ASSUME NEW c \in Client, Write(c) PROVE TypeOK'
  <2>1. ASSUME NEW v \in Value, BeginCreate(c, v) PROVE TypeOK'
    <3>1. value' \in [Client -> Value]
      BY <2>1 DEF BeginCreate, TypeOK
    <3> QED
      BY <2>1, <3>1, PrepareType DEF BeginCreate
  <2>2. ASSUME NEW v \in Value, BeginUpdate(c, v) PROVE TypeOK'
    <3>1. value' \in [Client -> Value]
      BY <2>2 DEF BeginUpdate, TypeOK
    <3>2. obj[c] \in Obj
      BY <2>2 DEF BeginUpdate, TypeOK
    <3>3. obj[c].rev + 1 \in Nat
      BY <3>2 DEF Obj
    <3> QED
      BY <2>2, <3>1, <3>3, PrepareType DEF BeginUpdate
  <2>3. CASE BeginDelete(c)
    <3>1. value' \in [Client -> Value]
      BY <2>3 DEF BeginDelete, TypeOK
    <3> QED
      BY <2>3, <3>1, PrepareType DEF BeginDelete
  <2>4. CASE Reset(c)
    BY <2>4 DEF Reset, TypeOK, table
  <2>5. CASE ExecuteInsert(c)
    <3>1. lastKey' \in Key /\ lastKey' \in 0 .. MaxKey
      BY <2>5 DEF ExecuteInsert, TypeOK, Key
    <3>2. [live |-> TRUE, rev |-> revision[c], value |-> value[c]] \in Row
      BY DEF TypeOK, Row
    <3>3. rows' \in [Key -> Row]
      BY <2>5, <3>1, <3>2 DEF ExecuteInsert, TypeOK
    <3>4. version' \in [Key -> Nat]
      BY <2>5, <3>1 DEF ExecuteInsert, TypeOK
    <3> QED
      BY <2>5, <3>1, <3>3, <3>4, ExecutedType DEF ExecuteInsert, TypeOK
  <2>6. CASE ExecuteUpdate(c)
    <3>1. PICK k \in Key :
             /\ Executed(c, 1)
             /\ rows' = [rows EXCEPT ![k] = Updated(c, @)]
             /\ version' = [version EXCEPT ![k] = @ + 1]
      BY <2>6 DEF ExecuteUpdate, Selected
    <3>2. Updated(c, rows[k]) \in Row
      BY UpdatedType DEF TypeOK
    <3>3. rows' \in [Key -> Row] /\ version' \in [Key -> Nat]
      BY <3>1, <3>2 DEF TypeOK
    <3> QED
      BY <2>6, <3>1, <3>3, ExecutedType DEF ExecuteUpdate, TypeOK
  <2>7. CASE ExecuteDelete(c)
    <3>1. PICK k \in Key :
             /\ Executed(c, 1)
             /\ rows' = [rows EXCEPT ![k] = NoRow]
             /\ version' = [version EXCEPT ![k] = @ + 1]
      BY <2>7 DEF ExecuteDelete, Selected
    <3>2. rows' \in [Key -> Row] /\ version' \in [Key -> Nat]
      BY <3>1, NoRowType DEF TypeOK
    <3> QED
      BY <2>7, <3>1, <3>2, ExecutedType DEF ExecuteDelete, TypeOK
  <2>8. CASE ExecuteMiss(c)
    BY <2>8, ExecutedType DEF ExecuteMiss, TypeOK, table
  <2>9. CASE ExecuteFail(c)
    BY <2>9 DEF ExecuteFail, TypeOK, table
  <2>10. CASE Return(c)
    BY <2>10 DEF Return, Finish, TypeOK, table
  <2> QED
    BY <1>2, <2>1, <2>2, <2>3, <2>4, <2>5, <2>6, <2>7, <2>8, <2>9, <2>10 DEF Write
<1>3. ASSUME NEW c \in Client, Fetch(c) PROVE TypeOK'
  <2>1. ASSUME NEW k \in Key, Read(c, k) PROVE TypeOK'
    <3>1. [state |-> "sent",
           obj |-> IF rows[k].live THEN [key |-> k, rev |-> rows[k].rev] ELSE Nil,
           version |-> version[k]] \in List
      BY DEF TypeOK, List, Row, Obj
    <3> QED
      BY <2>1, <3>1 DEF Read, TypeOK, table, call_vars
  <2>2. CASE NextRow(c)
    <3>1. list[c] \in List
      BY <2>2 DEF NextRow, TypeOK, Closed
    <3>2. /\ [list[c] EXCEPT !.state = "fetched"] \in List
          /\ list[c].obj \in Obj /\ list[c].version \in Nat
      BY <2>2, <3>1 DEF NextRow, List
    <3> QED
      BY <2>2, <3>2 DEF NextRow, TypeOK, table
  <2>3. CASE NextNull(c)
    <3>1. list[c] \in List
      BY <2>3 DEF NextNull, TypeOK
    <3>2. [list[c] EXCEPT !.state = IF up[c] THEN "drained" ELSE @] \in List
      BY <3>1 DEF List
    <3>3. list' \in [Client -> List \cup {Closed}]
      BY <2>3, <3>2 DEF NextNull, TypeOK
    <3> QED
      BY <2>3, <3>3 DEF NextNull, TypeOK, table
  <2>4. CASE FreeList(c)
    BY <2>4 DEF FreeList, TypeOK, table, call_vars
  <2> QED
    BY <1>3, <2>1, <2>2, <2>3, <2>4 DEF Fetch
<1>4. ASSUME NEW c \in Client, Disconnect(c) PROVE TypeOK'
  BY <1>4 DEF Disconnect, TypeOK, table, call_vars
<1> QED
  BY <1>1, <1>2, <1>3, <1>4 DEF Next

(***************************************************************************)
(* The state of the store is well formed in every behaviour.               *)
(***************************************************************************)
THEOREM TypeCorrect == Spec => []TypeOK
<1>1. Init => TypeOK
  BY BoundsType, NoRowType DEF Init, TypeOK
<1> QED
  BY <1>1, TypeStep, PTL DEF Spec

----------------------------------------------------------------------------
(* The table and the calls                                                 *)

\* A call that is begun, or fails at once, has done nothing yet.
LEMMA PrepareStep ==
  ASSUME TableInv, NEW c \in Client,
         NEW op \in {"create", "update", "delete"},
         NEW bound, NEW next \in {"bound", "ready"},
         op # "create" => obj[c] # Nil,
         Prepare(c, op, bound, next)
  PROVE  KeysMatch' /\ CallMatches' /\ DeletedIsGone' /\ DeletesDiffer'
         /\ OutcomeIsTrue'
<1> USE DEF TableInv
<1>1. /\ UNCHANGED <<table, up, obj, affected, list, seen>>
      /\ call'[c] = op /\ ~applied'[c]
      /\ \/ pc'[c] = next /\ result'[c] = "none"
         \/ pc'[c] = "idle" /\ result'[c] = "error"
  BY DEF Prepare, TypeOK
<1>2. \A d \in Client : d # c =>
        /\ call'[d] = call[d] /\ applied'[d] = applied[d]
        /\ pc'[d] = pc[d] /\ result'[d] = result[d]
  BY DEF Prepare, TypeOK
<1>3. KeysMatch'
  BY <1>1 DEF KeysMatch, table
<1>4. CallMatches'
  BY <1>1, <1>2 DEF CallMatches
<1>5. DeletedIsGone' /\ DeletesDiffer'
  BY <1>1, <1>2 DEF DeletedIsGone, DeletesDiffer, Deleted, table
<1>6. OutcomeIsTrue'
  BY <1>1, <1>2 DEF OutcomeIsTrue
<1> QED
  BY <1>3, <1>4, <1>5, <1>6

\* The affected rows tell whether the statement has changed one, and a lost
\* answer takes the connection with it.
LEMMA ExecutedStep ==
  ASSUME TableInv, NEW c \in Client, NEW n \in {0, 1}, Executed(c, n)
  PROVE  /\ CallMatches' /\ OutcomeIsTrue'
         /\ (n = 1 => applied'[c]) /\ (n = 0 => ~applied'[c])
         /\ \A d \in Client : d # c => applied'[d] = applied[d]
         /\ UNCHANGED <<obj, value, call, revision, list, result, seen>>
<1> USE DEF TableInv
<1>1. /\ (n = 1 => applied'[c]) /\ (n = 0 => ~applied'[c]) /\ ~applied[c]
      /\ UNCHANGED <<obj, value, call, revision, list, result, seen>>
      /\ pc[c] = "ready" /\ up[c]
  BY DEF Executed, CallMatches, TypeOK
<1>2. \/ pc'[c] = "executed" /\ affected'[c] = n /\ up' = up
      \/ pc'[c] = "failed" /\ ~up'[c]
  BY DEF Executed, TypeOK
<1>3. \A d \in Client : d # c =>
        /\ applied'[d] = applied[d] /\ pc'[d] = pc[d]
        /\ affected'[d] = affected[d] /\ up'[d] = up[d]
  BY DEF Executed, TypeOK
<1>4. CallMatches'
  <2>1. n = IF applied'[c] THEN 1 ELSE 0
    BY <1>1
  <2>2. pc'[c] # "idle" /\ pc'[c] \notin {"bound", "ready"}
    BY <1>2
  <2> QED
    BY <1>1, <1>2, <1>3, <2>1, <2>2 DEF CallMatches
<1>5. OutcomeIsTrue'
  BY <1>1, <1>2, <1>3 DEF OutcomeIsTrue
<1> QED
  BY <1>1, <1>3, <1>4, <1>5

(***************************************************************************)
(* Each step of a handler keeps the table and what the threads know of     *)
(* their statements in step.                                               *)
(***************************************************************************)
LEMMA TableStep == TableInv /\ [Next]_vars => TableInv'
<1> USE BoundsType
<1> SUFFICES ASSUME TableInv, [Next]_vars PROVE TableInv'
  OBVIOUS
<1> DEFINE Goal == KeysMatch /\ CallMatches /\ DeletedIsGone /\ DeletesDiffer
                   /\ OutcomeIsTrue
<1> SUFFICES Goal'
  BY TypeStep DEF TableInv
<1>u. TypeOK /\ KeysMatch /\ CallMatches /\ DeletedIsGone /\ DeletesDiffer
      /\ OutcomeIsTrue
  BY DEF TableInv
<1>1. CASE UNCHANGED vars
  BY <1>u, <1>1 DEF vars, table, call_vars, KeysMatch, CallMatches, DeletedIsGone,
                    DeletesDiffer, Deleted, OutcomeIsTrue
<1>2. ASSUME NEW c \in Client, Write(c) PROVE Goal'
  <2>1. CASE \E v \in Value : BeginCreate(c, v) \/ BeginUpdate(c, v)
    BY <2>1, PrepareStep DEF BeginCreate, BeginUpdate
  <2>2. CASE BeginDelete(c)
    BY <2>2, PrepareStep DEF BeginDelete
  <2>3. CASE Reset(c)
    <3> USE <1>u, <2>3 DEF Reset, table
    <3>1. KeysMatch'
      BY DEF KeysMatch
    <3>2. CallMatches'
      BY DEF CallMatches, TypeOK
    <3>3. DeletedIsGone' /\ DeletesDiffer'
      BY DEF DeletedIsGone, DeletesDiffer, Deleted
    <3>4. OutcomeIsTrue'
      BY DEF OutcomeIsTrue, TypeOK
    <3> QED
      BY <3>1, <3>2, <3>3, <3>4
  <2>4. CASE ExecuteInsert(c)
    <3> DEFINE k == lastKey'
    <3>k. k \in Key /\ k > lastKey /\ k = lastKey + 1 /\ version[k] = 0
      BY <1>u, <2>4 DEF ExecuteInsert, TypeOK, Key, KeysMatch
    <3>x. /\ CallMatches' /\ OutcomeIsTrue' /\ call[c] = "create"
          /\ \A d \in Client : d # c => applied'[d] = applied[d]
          /\ UNCHANGED <<obj, call, list>>
      BY <2>4, ExecutedStep DEF ExecuteInsert
    <3>r. \A j \in Key : j # k => rows'[j] = rows[j] /\ version'[j] = version[j]
      BY <1>u, <2>4, <3>k DEF ExecuteInsert, TypeOK
    <3>o. \A d \in Client :
            /\ obj[d] # Nil => obj[d].key \in Key /\ obj[d].key # k /\ obj[d].key <= k
            /\ list[d].obj # Nil => list[d].obj.key <= k
      <4>1. \A d \in Client : obj[d] # Nil => obj[d].key \in Key
        BY <1>u DEF TypeOK, Obj
      <4>2. \A d \in Client : list[d].obj # Nil => list[d].obj.key \in Key
        BY <1>u DEF TypeOK, List, Closed, Obj
      <4> QED
        BY <1>u, <3>k, <4>1, <4>2, SMTT(40) DEF KeysMatch, Key, TypeOK
    <3>1. KeysMatch'
      BY <1>u, <3>k, <3>x, <3>r, <3>o DEF KeysMatch, TypeOK, Key
    <3>2. DeletedIsGone' /\ DeletesDiffer'
      BY <1>u, <3>x, <3>r, <3>o DEF DeletedIsGone, DeletesDiffer, Deleted, CallMatches
    <3> QED
      BY <3>1, <3>2, <3>x
  <2>5. CASE ExecuteUpdate(c)
    <3>k. PICK k \in Key :
             /\ rows[k].live /\ k = obj[c].key
             /\ Executed(c, 1)
             /\ rows' = [rows EXCEPT ![k] = Updated(c, @)]
             /\ version' = [version EXCEPT ![k] = @ + 1]
      BY <2>5 DEF ExecuteUpdate, Selected
    <3>x. /\ CallMatches' /\ OutcomeIsTrue' /\ call[c] = "update"
          /\ \A d \in Client : d # c => applied'[d] = applied[d]
          /\ UNCHANGED <<obj, call, list, lastKey>>
      BY <2>5, <3>k, ExecutedStep DEF ExecuteUpdate
    <3>r. /\ \A j \in Key : j # k => rows'[j] = rows[j] /\ version'[j] = version[j]
          /\ rows'[k].live
      BY <1>u, <3>k, UpdatedType DEF TypeOK
    <3>1. KeysMatch'
      BY <1>u, <3>k, <3>x, <3>r DEF KeysMatch
    <3>2. DeletedIsGone' /\ DeletesDiffer'
      <4>1. \A d \in Client : Deleted(d)' => Deleted(d) /\ d # c
        BY <3>x DEF Deleted
      <4>2. \A d \in Client : Deleted(d) => obj[d].key \in Key
        BY <1>u DEF Deleted, CallMatches, TypeOK, Obj
      <4> QED
        BY <1>u, <3>k, <3>x, <3>r, <4>1, <4>2 DEF DeletedIsGone, DeletesDiffer
    <3> QED
      BY <3>1, <3>2, <3>x
  <2>6. CASE ExecuteDelete(c)
    <3>k. PICK k \in Key :
             /\ rows[k].live /\ k = obj[c].key
             /\ Executed(c, 1)
             /\ rows' = [rows EXCEPT ![k] = NoRow]
             /\ version' = [version EXCEPT ![k] = @ + 1]
      BY <2>6 DEF ExecuteDelete, Selected
    <3>x. /\ CallMatches' /\ OutcomeIsTrue' /\ call[c] = "delete"
          /\ \A d \in Client : d # c => applied'[d] = applied[d]
          /\ UNCHANGED <<obj, call, list, lastKey>>
      BY <2>6, <3>k, ExecutedStep DEF ExecuteDelete
    <3>r. /\ \A j \in Key : j # k => rows'[j] = rows[j] /\ version'[j] = version[j]
          /\ ~rows'[k].live
      BY <1>u, <3>k DEF TypeOK, NoRow
    <3>1. KeysMatch'
      BY <1>u, <3>k, <3>x, <3>r DEF KeysMatch
    <3>2. DeletedIsGone' /\ DeletesDiffer'
      <4>1. \A d \in Client : d # c => (Deleted(d)' <=> Deleted(d))
        BY <3>x DEF Deleted
      <4>2. \A d \in Client : Deleted(d) => obj[d].key \in Key
        BY <1>u DEF Deleted, CallMatches, TypeOK, Obj
      <4>3. \A d \in Client : Deleted(d) => obj[d].key # k
        BY <1>u, <3>k DEF DeletedIsGone
      <4> QED
        BY <1>u, <3>k, <3>x, <3>r, <4>1, <4>2, <4>3 DEF DeletedIsGone, DeletesDiffer
    <3> QED
      BY <3>1, <3>2, <3>x
  <2>7. CASE ExecuteMiss(c)
    <3>1. /\ CallMatches' /\ OutcomeIsTrue' /\ ~applied'[c]
          /\ \A d \in Client : d # c => applied'[d] = applied[d]
          /\ UNCHANGED <<obj, call, list, table>>
      BY <2>7, ExecutedStep DEF ExecuteMiss
    <3>2. KeysMatch'
      BY <1>u, <3>1 DEF KeysMatch, table
    <3>3. DeletedIsGone' /\ DeletesDiffer'
      BY <1>u, <3>1 DEF DeletedIsGone, DeletesDiffer, Deleted, table
    <3> QED
      BY <3>1, <3>2, <3>3
  <2>8. CASE ExecuteFail(c)
    <3> USE <1>u, <2>8 DEF ExecuteFail, table
    <3>1. KeysMatch'
      BY DEF KeysMatch
    <3>2. CallMatches'
      BY DEF CallMatches, TypeOK
    <3>3. DeletedIsGone' /\ DeletesDiffer'
      BY DEF DeletedIsGone, DeletesDiffer, Deleted
    <3>4. OutcomeIsTrue'
      BY DEF OutcomeIsTrue, TypeOK
    <3> QED
      BY <3>1, <3>2, <3>3, <3>4
  <2>9. CASE Return(c)
    <3>1. PICK ok \in BOOLEAN :
             /\ Finish(c, ok)
             /\ ok => applied[c]
             /\ ~ok /\ up[c] => ~applied[c]
      <4>1. CASE pc[c] = "failed" /\ Finish(c, FALSE)
        BY <1>u, <4>1 DEF CallMatches
      <4>2. CASE pc[c] = "executed" /\ Finish(c, affected[c] = 1)
        <5>1. applied[c] \in BOOLEAN /\ (affected[c] = 1 <=> applied[c])
          BY <1>u, <4>2 DEF CallMatches, TypeOK
        <5>2. (affected[c] = 1) = applied[c]
          BY <5>1
        <5>3. Finish(c, applied[c])
          BY <4>2, <5>2, Zenon
        <5> QED
          BY <5>1, <5>3
      <4>3. CASE pc[c] = "executed" /\ Finish(c, affected[c] >= 1)
        <5>1. applied[c] \in BOOLEAN /\ (affected[c] >= 1 <=> applied[c])
          BY <1>u, <4>3 DEF CallMatches, TypeOK
        <5>2. (affected[c] >= 1) = applied[c]
          BY <5>1
        <5>3. Finish(c, applied[c])
          BY <4>3, <5>2, Zenon
        <5> QED
          BY <5>1, <5>3
      <4> QED
        BY <2>9, <4>1, <4>2, <4>3 DEF Return
    <3> USE <1>u, <3>1 DEF Finish, table
    <3>2. KeysMatch'
      BY DEF KeysMatch
    <3>3. CallMatches'
      BY DEF CallMatches, TypeOK
    <3>4. DeletedIsGone' /\ DeletesDiffer'
      BY DEF DeletedIsGone, DeletesDiffer, Deleted
    <3>5. OutcomeIsTrue'
      BY DEF OutcomeIsTrue, TypeOK
    <3> QED
      BY <3>2, <3>3, <3>4, <3>5
  <2> QED
    BY <1>2, <2>1, <2>2, <2>3, <2>4, <2>5, <2>6, <2>7, <2>8, <2>9 DEF Write
<1>3. ASSUME NEW c \in Client, Fetch(c) PROVE Goal'
  <2>1. ASSUME NEW k \in Key, Read(c, k) PROVE Goal'
    <3> USE <1>u, <2>1 DEF Read, table, call_vars
    <3>1. KeysMatch'
      <4>1. list'[c].obj # Nil => list'[c].obj.key = k
        BY DEF TypeOK
      <4>2. \A d \in Client : d # c => list'[d] = list[d]
        BY DEF TypeOK
      <4> QED
        BY <4>1, <4>2 DEF KeysMatch
    <3>2. CallMatches' /\ OutcomeIsTrue' /\ DeletedIsGone' /\ DeletesDiffer'
      BY DEF CallMatches, OutcomeIsTrue, DeletedIsGone, DeletesDiffer, Deleted
    <3> QED
      BY <3>1, <3>2
  <2>2. CASE NextRow(c)
    <3> USE <1>u, <2>2 DEF NextRow, table
    <3>1. /\ obj'[c] = list[c].obj /\ list'[c].obj = list[c].obj
          /\ call'[c] = "read" /\ ~applied'[c]
      BY DEF TypeOK, List, Closed
    <3>2. \A d \in Client : d # c => /\ list'[d] = list[d] /\ obj'[d] = obj[d]
                                    /\ call'[d] = call[d] /\ applied'[d] = applied[d]
      BY DEF TypeOK
    <3>3. KeysMatch'
      BY <3>1, <3>2 DEF KeysMatch
    <3>4. CallMatches'
      BY <3>1, <3>2 DEF CallMatches
    <3>5. DeletedIsGone' /\ DeletesDiffer'
      BY <3>1, <3>2 DEF DeletedIsGone, DeletesDiffer, Deleted
    <3>6. OutcomeIsTrue'
      BY <3>1, <3>2 DEF OutcomeIsTrue, TypeOK
    <3> QED
      BY <3>3, <3>4, <3>5, <3>6
  <2>3. CASE NextNull(c)
    <3> USE <1>u, <2>3 DEF NextNull, table
    <3>1. /\ list'[c].obj = list[c].obj
          /\ call'[c] = "read" /\ ~applied'[c]
      BY DEF TypeOK, List, Closed
    <3>2. \A d \in Client : d # c => /\ list'[d] = list[d]
                                    /\ call'[d] = call[d] /\ applied'[d] = applied[d]
      BY DEF TypeOK
    <3>3. KeysMatch'
      BY <3>1, <3>2 DEF KeysMatch
    <3>4. CallMatches'
      BY <3>1, <3>2 DEF CallMatches
    <3>5. DeletedIsGone' /\ DeletesDiffer'
      BY <3>1, <3>2 DEF DeletedIsGone, DeletesDiffer, Deleted
    <3>6. OutcomeIsTrue'
      BY <3>1, <3>2 DEF OutcomeIsTrue, TypeOK
    <3> QED
      BY <3>3, <3>4, <3>5, <3>6
  <2>4. CASE FreeList(c)
    <3> USE <1>u, <2>4 DEF FreeList, table, call_vars
    <3>1. list'[c].obj = Nil /\ \A d \in Client : d # c => list'[d] = list[d]
      BY DEF TypeOK, Closed
    <3>2. KeysMatch'
      BY <3>1 DEF KeysMatch
    <3>3. CallMatches' /\ OutcomeIsTrue' /\ DeletedIsGone' /\ DeletesDiffer'
      BY DEF CallMatches, OutcomeIsTrue, DeletedIsGone, DeletesDiffer, Deleted
    <3> QED
      BY <3>2, <3>3
  <2> QED
    BY <1>3, <2>1, <2>2, <2>3, <2>4 DEF Fetch
<1>4. ASSUME NEW c \in Client, Disconnect(c) PROVE Goal'
  <2> USE <1>u, <1>4 DEF Disconnect, table, call_vars
  <2>1. KeysMatch' /\ DeletedIsGone' /\ DeletesDiffer'
    BY DEF KeysMatch, DeletedIsGone, DeletesDiffer, Deleted
  <2>2. \A d \in Client : up'[d] => up[d]
    BY DEF TypeOK
  <2>3. CallMatches'
    BY <2>2 DEF CallMatches
  <2>4. OutcomeIsTrue'
    BY <2>2 DEF OutcomeIsTrue
  <2> QED
    BY <2>1, <2>3, <2>4
<1> QED
  BY <1>1, <1>2, <1>3, <1>4 DEF Next

\* The table and the calls are in step throughout.
LEMMA TableInvariant == Spec => []TableInv
<1>1. Init => TableInv
  <2> SUFFICES ASSUME Init PROVE TableInv
    OBVIOUS
  <2>1. TypeOK
    BY BoundsType, NoRowType DEF Init, TypeOK
  <2>2. KeysMatch /\ CallMatches /\ DeletedIsGone /\ DeletesDiffer /\ OutcomeIsTrue
    BY DEF Init, KeysMatch, CallMatches, DeletedIsGone, DeletesDiffer, Deleted,
           OutcomeIsTrue, NoRow, Closed
  <2> QED
    BY <2>1, <2>2 DEF TableInv
<1> QED
  BY <1>1, TableStep, PTL DEF Spec

(***************************************************************************)
(* A call through libdbo_backend_mysql.c returns OK only when its own      *)
(* statement has changed the table, and an error only when it has not or   *)
(* when the connection is lost.                                            *)
(***************************************************************************)
THEOREM OutcomesAreTrue == Spec => []OutcomeIsTrue
<1>1. TableInv => OutcomeIsTrue
  BY DEF TableInv
<1> QED
  BY <1>1, TableInvariant, PTL

(***************************************************************************)
(* Of all threads that hold an object, at most one deletes it: a deleted   *)
(* row does not come back, and no other row gets its key.                  *)
(***************************************************************************)
THEOREM ObjectsDeletedOnce == Spec => []DeletedOnce
<1>1. TableInv => DeletedOnce
  BY DEF TableInv, OutcomeIsTrue, DeletesDiffer, Deleted, DeletedOnce, Won
<1> QED
  BY <1>1, TableInvariant, PTL

----------------------------------------------------------------------------
(* The revision                                                            *)

\* No revision but 0 gets into the table, so none is ever read.
RevisionsReset ==
  /\ \A k \in Key : rows[k].rev = 0
  /\ \A c \in Client :
       /\ obj[c].rev = 0
       /\ list[c].obj.rev = 0
       /\ pc[c] = "ready" => revision[c] = 0

\* The handlers' reset of the revision comes between the bind and every
\* execution.
LEMMA RevisionStep == TypeOK /\ RevisionsReset /\ [Next]_vars => RevisionsReset'
<1> USE BoundsType
<1> SUFFICES ASSUME TypeOK, RevisionsReset, [Next]_vars PROVE RevisionsReset'
  OBVIOUS
<1>1. CASE UNCHANGED vars
  BY <1>1 DEF vars, table, call_vars, RevisionsReset
<1>2. ASSUME NEW c \in Client, Write(c) PROVE RevisionsReset'
  <2>1. ASSUME NEW op, NEW bound, NEW next \in {"bound", "ready"},
               Prepare(c, op, bound, next), next = "ready" => bound = 0
        PROVE  RevisionsReset'
    <3>1. /\ UNCHANGED <<rows, obj, list>>
          /\ \/ /\ revision' = [revision EXCEPT ![c] = bound]
                /\ pc' = [pc EXCEPT ![c] = next]
             \/ UNCHANGED <<pc, revision>>
      BY <2>1 DEF Prepare, table
    <3> QED
      BY <2>1, <3>1 DEF RevisionsReset, TypeOK
  <2>2. CASE \E v \in Value : BeginCreate(c, v) \/ BeginUpdate(c, v)
    BY <2>1, <2>2 DEF BeginCreate, BeginUpdate
  <2>3. CASE BeginDelete(c)
    BY <2>1, <2>3 DEF BeginDelete
  <2>4. CASE Reset(c)
    BY <2>4 DEF Reset, table, RevisionsReset, TypeOK
  <2>5. ASSUME NEW n, Executed(c, n)
        PROVE  /\ UNCHANGED <<obj, list, revision>>
               /\ revision[c] = 0
               /\ \A d \in Client : pc'[d] = "ready" => pc[d] = "ready"
    <3>1. \E next \in {"executed", "failed"} : pc' = [pc EXCEPT ![c] = next]
      BY <2>5 DEF Executed
    <3>2. pc[c] = "ready" /\ UNCHANGED <<obj, list, revision>>
      BY <2>5 DEF Executed
    <3> QED
      BY <3>1, <3>2 DEF RevisionsReset, TypeOK
  <2>6. CASE ExecuteInsert(c)
    <3>1. lastKey' \in Key /\ Executed(c, 1)
      BY <2>6 DEF ExecuteInsert, TypeOK, Key
    <3>2. revision[c] = 0
      BY <2>5, <3>1
    <3>3. \A k \in Key : rows'[k].rev = 0
      BY <2>6, <3>1, <3>2 DEF ExecuteInsert, RevisionsReset, TypeOK
    <3> QED
      BY <2>5, <3>1, <3>3 DEF RevisionsReset
  <2>7. CASE ExecuteUpdate(c)
    <3>1. PICK k \in Key : Executed(c, 1) /\ rows' = [rows EXCEPT ![k] = Updated(c, @)]
      BY <2>7 DEF ExecuteUpdate, Selected
    <3>2. Updated(c, rows[k]).rev = 0
      BY <2>5, <3>1, UpdatedType DEF TypeOK
    <3>3. \A j \in Key : rows'[j].rev = 0
      BY <3>1, <3>2 DEF RevisionsReset, TypeOK
    <3> QED
      BY <2>5, <3>1, <3>3 DEF RevisionsReset
  <2>8. CASE ExecuteDelete(c)
    <3>1. PICK k \in Key : Executed(c, 1) /\ rows' = [rows EXCEPT ![k] = NoRow]
      BY <2>8 DEF ExecuteDelete, Selected
    <3>2. \A j \in Key : rows'[j].rev = 0
      BY <3>1 DEF RevisionsReset, TypeOK, NoRow
    <3> QED
      BY <2>5, <3>1, <3>2 DEF RevisionsReset
  <2>9. CASE ExecuteMiss(c)
    BY <2>5, <2>9 DEF ExecuteMiss, table, RevisionsReset
  <2>10. CASE ExecuteFail(c)
    BY <2>10 DEF ExecuteFail, table, RevisionsReset, TypeOK
  <2>11. CASE Return(c)
    <3>1. \E ok : Finish(c, ok)
      BY <2>11 DEF Return
    <3> QED
      BY <3>1 DEF Finish, table, RevisionsReset, TypeOK
  <2> QED
    BY <1>2, <2>2, <2>3, <2>4, <2>6, <2>7, <2>8, <2>9, <2>10, <2>11 DEF Write
<1>3. ASSUME NEW c \in Client, Fetch(c) PROVE RevisionsReset'
  <2>1. ASSUME NEW k \in Key, Read(c, k) PROVE RevisionsReset'
    <3>1. list'[c].obj.rev = 0
      BY <2>1 DEF Read, RevisionsReset, TypeOK, Nil
    <3>2. \A d \in Client : d # c => list'[d] = list[d]
      BY <2>1 DEF Read, TypeOK
    <3> QED
      BY <2>1, <3>1, <3>2 DEF Read, table, call_vars, RevisionsReset
  <2>2. CASE NextRow(c) \/ NextNull(c)
    <3>1. /\ list[c] \in List
          /\ \E s : list' = [list EXCEPT ![c].state = s]
      <4>1. CASE NextRow(c)
        <5>1. list[c] \in List \cup {Closed} /\ list[c].state = "sent"
          BY <4>1 DEF NextRow, TypeOK
        <5>2. list[c] \in List
          BY <5>1 DEF Closed
        <5> QED
          BY <4>1, <5>2 DEF NextRow
      <4>2. CASE NextNull(c)
        <5>1. list[c] \in List
          BY <4>2 DEF NextNull, TypeOK
        <5>2. list' = [list EXCEPT ![c].state = IF up[c] THEN "drained" ELSE list[c].state]
          BY <4>2, <5>1 DEF NextNull, TypeOK
        <5> QED
          BY <5>1, <5>2
      <4> QED
        BY <2>2, <4>1, <4>2
    <3>2. list'[c].obj = list[c].obj /\ \A d \in Client : d # c => list'[d] = list[d]
      BY <3>1 DEF TypeOK, List
    <3>3. obj'[c].rev = 0 /\ \A d \in Client : d # c => obj'[d] = obj[d]
      BY <2>2 DEF NextRow, NextNull, RevisionsReset, TypeOK
    <3>4. UNCHANGED <<rows, pc, revision>>
      BY <2>2 DEF NextRow, NextNull, table
    <3> QED
      BY <3>2, <3>3, <3>4 DEF RevisionsReset
  <2>3. CASE FreeList(c)
    BY <2>3 DEF FreeList, table, call_vars, RevisionsReset, TypeOK, Closed, Nil
  <2> QED
    BY <1>3, <2>1, <2>2, <2>3 DEF Fetch
<1>4. ASSUME NEW c \in Client, Disconnect(c) PROVE RevisionsReset'
  BY <1>4 DEF Disconnect, table, call_vars, RevisionsReset
<1> QED
  BY <1>1, <1>2, <1>3, <1>4 DEF Next

\* The rows an update or a delete by key alone would select.
SelectedByKey(c) == {k \in Key : rows[k].live /\ k = obj[c].key}

(***************************************************************************)
(* Why the promise of the revisions is broken: the revision is reset       *)
(* before it is sent, so the WHERE clause of an update or a delete selects *)
(* the object as long as it exists, whatever version was read.             *)
(***************************************************************************)
THEOREM RevisionSelectsNothing ==
  Spec => [](\A c \in Client : Selected(c) = SelectedByKey(c))
<1>1. Init => RevisionsReset
  BY DEF Init, RevisionsReset, NoRow, Nil, Closed
<1>2. RevisionsReset => \A c \in Client : Selected(c) = SelectedByKey(c)
  BY DEF RevisionsReset, Selected, SelectedByKey
<1> QED
  BY <1>1, <1>2, RevisionStep, TypeCorrect, PTL DEF Spec

=============================================================================
