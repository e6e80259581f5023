------------------------- MODULE SqliteStore_proofs -------------------------
(***************************************************************************)
(* Proofs about SqliteStore, for any number of threads, connections and    *)
(* objects.  What concerns the table alone holds however the threads share *)
(* connections.  What concerns return values needs PrivateConnections.     *)
(***************************************************************************)
EXTENDS SqliteStore, TLAPS

----------------------------------------------------------------------------
(* The inductive invariant                                                 *)

\* The stored revision counts the changes of its row, and the sequence is
\* ahead of every key in use.
RowsMatch ==
  \A k \in Key :
    /\ rows[k].live => rows[k].rev = version[k]
    /\ k > lastKey => ~rows[k].live /\ version[k] = 0

\* What a thread holds was in the database at the version it was seen at, and
\* a deletion has been a change like any other.
ObjMatches ==
  \A c \in Client : obj[c] # Nil =>
    /\ obj[c].key <= lastKey
    /\ obj[c].rev = seen[c]
    /\ seen[c] <= version[obj[c].key]
    /\ seen[c] = version[obj[c].key] => rows[obj[c].key].live

\* How far a call is tells what its statement has done.
CallMatches ==
  \A c \in Client :
    /\ call[c] \in {"update", "delete"} => obj[c] # Nil
    /\ pc[c] # "idle" => call[c] \in Writes
    /\ pc[c] \in {"prepared", "failed"} => ~applied[c]
    /\ pc[c] = "finalized" => call[c] # "create"
    /\ (pc[c] = "stepped" /\ call[c] = "create") => applied[c]

\* The statement of c has changed the row that c had read.
Changed(c) == applied[c] /\ call[c] \in {"update", "delete"}

\* A change takes its row past the version it was made from.
ChangedIsPast ==
  \A c \in Client : Changed(c) => seen[c] < version[obj[c].key]

ChangesDiffer ==
  \A c, d \in Client :
    (c # d /\ Changed(c) /\ Changed(d)) =>
      <<obj[c].key, seen[c]>> # <<obj[d].key, seen[d]>>

TableInv ==
  TypeOK /\ RowsMatch /\ ObjMatches /\ CallMatches /\ ChangedIsPast
  /\ ChangesDiffer

\* sqlite3_changes still tells of this thread's statement.
ChangesTell ==
  \A c \in Client :
    pc[c] \in {"stepped", "finalized"} => (changes[ConnOf[c]] >= 1 <=> applied[c])

CallInv == TableInv /\ ChangesTell /\ OutcomeIsTrue

----------------------------------------------------------------------------
(* Types                                                                   *)

(***************************************************************************)
(* Every step of every handler in libdbo_backend_sqlite.c keeps the types. *)
(***************************************************************************)
LEMMA TypeStep == TypeOK /\ [Next]_vars => TypeOK'
<1> USE ConnOfType, BoundsType
<1> SUFFICES ASSUME TypeOK, [Next]_vars PROVE TypeOK'
  OBVIOUS
<1>1. CASE UNCHANGED vars
  BY <1>1 DEF TypeOK, vars
<1>2. ASSUME NEW c \in Client, Write(c) PROVE TypeOK'
  <2>1. CASE BeginCreate(c) \/ BeginUpdate(c) \/ BeginDelete(c)
    BY <2>1 DEF BeginCreate, BeginUpdate, BeginDelete, Prepare, TypeOK, dbVars
  <2>2. CASE StepInsert(c)
    <3>1. lastKey' \in Key /\ lastKey' \in 0 .. MaxKey
      BY <2>2 DEF StepInsert, TypeOK, Key
    <3> QED
      BY <2>2, <3>1 DEF StepInsert, Stepped, InitialRevision, TypeOK, Row
  <2>3. CASE StepUpdate(c)
    <3>1. NewRevision(obj[c].rev) \in Nat
      BY DEF TypeOK, NewRevision, Obj, Nil
    <3> QED
      BY <2>3, <3>1 DEF StepUpdate, Stepped, Selected, TypeOK, Row
  <2>4. CASE StepDelete(c)
    BY <2>4 DEF StepDelete, Stepped, Selected, TypeOK, Row, NoRow
  <2>5. CASE StepMiss(c)
    BY <2>5 DEF StepMiss, Stepped, TypeOK
  <2>6. CASE StepFail(c)
    BY <2>6 DEF StepFail, TypeOK
  <2>7. CASE Finalize(c)
    BY <2>7 DEF Finalize, TypeOK, dbVars
  <2>8. CASE CheckChanges(c)
    BY <2>8 DEF CheckChanges, TypeOK, dbVars
  <2> QED
    BY <1>2, <2>1, <2>2, <2>3, <2>4, <2>5, <2>6, <2>7, <2>8 DEF Write
<1>3. ASSUME NEW c \in Client, Fetch(c) PROVE TypeOK'
  <2>1. ASSUME NEW k \in Key, Read(c, k) PROVE TypeOK'
    BY <2>1 DEF Read, TypeOK, dbVars, Cursor
  <2>2. CASE NextRow(c)
    <3>1. cursor[c] \in Cursor /\ cursor[c].key \in Key
      BY <2>2 DEF NextRow, TypeOK, Cursor, Closed
    <3>2. [key |-> cursor[c].key, rev |-> rows[cursor[c].key].rev] \in Obj
      BY <3>1 DEF TypeOK, Obj, Row
    <3>3. [cursor[c] EXCEPT !.state = "active"] \in Cursor
      BY <3>1 DEF Cursor
    <3> QED
      BY <2>2, <3>1, <3>2, <3>3 DEF NextRow, TypeOK, dbVars
  <2>3. CASE NextNull(c)
    <3>1. [cursor[c] EXCEPT !.state = "open"] \in Cursor
      BY <2>3 DEF NextNull, TypeOK, Cursor, Closed
    <3> QED
      BY <2>3, <3>1 DEF NextNull, TypeOK, dbVars
  <2>4. CASE FreeList(c)
    BY <2>4 DEF FreeList, TypeOK, dbVars
  <2> QED
    BY <1>3, <2>1, <2>2, <2>3, <2>4 DEF Fetch
<1> QED
  BY <1>1, <1>2, <1>3 DEF Next

(***************************************************************************)
(* The state of the store is well formed in every behaviour.               *)
(***************************************************************************)
THEOREM TypeCorrect == Spec => []TypeOK
<1>1. Init => TypeOK
  BY BoundsType DEF Init, TypeOK, Key, Row, NoRow
<1> QED
  BY <1>1, TypeStep, PTL DEF Spec

----------------------------------------------------------------------------
(* The table                                                               *)

(***************************************************************************)
(* The WHERE clause with key and revision selects the row exactly while    *)
(* the object the thread holds is current.                                 *)
(***************************************************************************)
LEMMA SelectedIffCurrent ==
  ASSUME TypeOK, RowsMatch, ObjMatches, NEW c \in Client, obj[c] # Nil
  PROVE  /\ obj[c].key \in Key
         /\ Selected(c) = IF version[obj[c].key] = seen[c] THEN {obj[c].key} ELSE {}
<1>1. obj[c] \in Obj /\ obj[c].key \in Key
  BY DEF TypeOK, Obj
<1>2. rows[obj[c].key].live /\ rows[obj[c].key].rev = obj[c].rev
        <=> version[obj[c].key] = seen[c]
  BY <1>1 DEF RowsMatch, ObjMatches
<1> QED
  BY <1>1, <1>2 DEF Selected

(***************************************************************************)
(* Each step of a handler keeps the table and what the threads hold of it  *)
(* in step.                                                                *)
(***************************************************************************)
LEMMA TableStep == TableInv /\ [Next]_vars => TableInv'
<1> USE ConnOfType, BoundsType
<1> SUFFICES ASSUME TableInv, [Next]_vars PROVE TableInv'
  OBVIOUS
<1> USE DEF TableInv
<1>t. TypeOK'
  BY TypeStep
<1>1. CASE UNCHANGED vars
  BY <1>1, <1>t DEF vars, RowsMatch, ObjMatches, CallMatches, ChangedIsPast,
                    ChangesDiffer, Changed
<1>2. ASSUME NEW c \in Client, Write(c) PROVE TableInv'
  <2>1. CASE BeginCreate(c) \/ BeginUpdate(c) \/ BeginDelete(c)
    <3> USE <2>1 DEF BeginCreate, BeginUpdate, BeginDelete, Prepare, dbVars
    <3>1. RowsMatch' /\ ObjMatches'
      BY DEF RowsMatch, ObjMatches
    <3>2. CallMatches'
      BY DEF CallMatches, Writes, TypeOK
    <3>3. ChangedIsPast' /\ ChangesDiffer'
      BY DEF ChangedIsPast, ChangesDiffer, Changed, TypeOK
    <3> QED
      BY <1>t, <3>1, <3>2, <3>3
  <2>2. CASE StepInsert(c)
    <3> DEFINE k == lastKey'
    <3> USE <2>2 DEF StepInsert, Stepped
    <3>k. k \in Key /\ k > lastKey /\ version[k] = 0
      BY DEF TypeOK, Key, RowsMatch
    <3>1. RowsMatch'
      BY <3>k DEF RowsMatch, InitialRevision, TypeOK, Key
    <3>2. \A d \in Client : obj[d] # Nil => obj[d].key \in Key /\ obj[d].key # k
      BY <3>k DEF ObjMatches, TypeOK, Obj, Key
    <3>3. ObjMatches'
      BY <3>k, <3>2 DEF ObjMatches, TypeOK, Key
    <3>4. CallMatches'
      BY DEF CallMatches, TypeOK, Writes
    <3>5. ChangedIsPast' /\ ChangesDiffer'
      BY <3>k, <3>2 DEF ChangedIsPast, ChangesDiffer, Changed, CallMatches, TypeOK
    <3> QED
      BY <1>t, <3>1, <3>3, <3>4, <3>5
  <2>3. CASE StepUpdate(c) \/ StepDelete(c)
    <3> DEFINE k == obj[c].key
    <3> USE <2>3 DEF StepUpdate, StepDelete, Stepped
    <3>n. obj[c] # Nil
      BY DEF CallMatches
    <3>k. /\ k \in Key
          /\ Selected(c) = {k}
          /\ version[k] = seen[c]
          /\ rows[k].live
      BY <3>n, SelectedIffCurrent DEF ObjMatches
    <3>v. /\ version' = [version EXCEPT ![k] = @ + 1]
          /\ version[k] \in Nat
          /\ \/ rows' = [rows EXCEPT ![k].rev = NewRevision(obj[c].rev)]
             \/ rows' = [rows EXCEPT ![k] = NoRow]
      BY <3>k DEF TypeOK
    <3>1. RowsMatch'
      BY <3>k, <3>v, <3>n DEF RowsMatch, NewRevision, ObjMatches, TypeOK, Key, Row, NoRow
    <3>2. ObjMatches'
      BY <3>k, <3>v DEF ObjMatches, TypeOK, Obj, Row
    <3>3. CallMatches'
      BY DEF CallMatches, TypeOK, Writes
    <3>4. ChangedIsPast'
      BY <3>k, <3>v DEF ChangedIsPast, Changed, TypeOK, CallMatches, Obj
    <3>5. ChangesDiffer'
      BY <3>k, <3>v, SMTT(40) DEF ChangedIsPast, ChangesDiffer, Changed, TypeOK
    <3> QED
      BY <1>t, <3>1, <3>2, <3>3, <3>4, <3>5
  <2>4. CASE StepMiss(c) \/ StepFail(c)
    <3> USE <2>4 DEF StepMiss, StepFail, Stepped
    <3>1. RowsMatch' /\ ObjMatches'
      BY DEF RowsMatch, ObjMatches
    <3>2. CallMatches'
      BY DEF CallMatches, TypeOK
    <3>3. ChangedIsPast' /\ ChangesDiffer'
      BY DEF ChangedIsPast, ChangesDiffer, Changed
    <3> QED
      BY <1>t, <3>1, <3>2, <3>3
  <2>5. CASE Finalize(c) \/ CheckChanges(c)
    <3> USE <2>5 DEF Finalize, CheckChanges, dbVars
    <3>1. RowsMatch' /\ ObjMatches'
      BY DEF RowsMatch, ObjMatches
    <3>2. CallMatches'
      BY DEF CallMatches, TypeOK
    <3>3. ChangedIsPast' /\ ChangesDiffer'
      BY DEF ChangedIsPast, ChangesDiffer, Changed
    <3> QED
      BY <1>t, <3>1, <3>2, <3>3
  <2> QED
    BY <1>2, <2>1, <2>2, <2>3, <2>4, <2>5 DEF Write
<1>3. ASSUME NEW c \in Client, Fetch(c) PROVE TableInv'
  <2>1. CASE NextRow(c)
    <3> DEFINE k == cursor[c].key
    <3> USE <2>1 DEF NextRow, dbVars
    <3>k. k \in Key /\ rows[k].live /\ k <= lastKey
      BY DEF TypeOK, Cursor, Closed, RowsMatch, Key
    <3>1. RowsMatch'
      BY DEF RowsMatch
    <3>2. ObjMatches'
      BY <3>k DEF ObjMatches, RowsMatch, TypeOK
    <3>3. CallMatches'
      BY DEF CallMatches, TypeOK
    <3>4. ChangedIsPast' /\ ChangesDiffer'
      BY DEF ChangedIsPast, ChangesDiffer, Changed, TypeOK
    <3> QED
      BY <1>t, <3>1, <3>2, <3>3, <3>4
  <2>2. CASE NextNull(c)
    <3> USE <2>2 DEF NextNull, dbVars
    <3>1. RowsMatch' /\ ObjMatches'
      BY DEF RowsMatch, ObjMatches
    <3>2. CallMatches'
      BY DEF CallMatches, TypeOK
    <3>3. ChangedIsPast' /\ ChangesDiffer'
      BY DEF ChangedIsPast, ChangesDiffer, Changed, TypeOK
    <3> QED
      BY <1>t, <3>1, <3>2, <3>3
  <2>3. CASE (\E k \in Key : Read(c, k)) \/ FreeList(c)
    BY <2>3, <1>t DEF Read, FreeList, dbVars, RowsMatch, ObjMatches,
                      CallMatches, ChangedIsPast, ChangesDiffer, Changed
  <2> QED
    BY <1>3, <2>1, <2>2, <2>3 DEF Fetch
<1> QED
  BY <1>1, <1>2, <1>3 DEF Next

\* The table and what the threads hold of it are in step throughout.
LEMMA TableInvariant == Spec => []TableInv
<1>1. Init => TableInv
  BY BoundsType DEF Init, TableInv, TypeOK, Key, Row, NoRow, RowsMatch,
       ObjMatches, CallMatches, ChangedIsPast, ChangesDiffer, Changed
<1> QED
  BY <1>1, TableStep, PTL DEF Spec

(***************************************************************************)
(* An update or a delete changes the table exactly when the object is as   *)
(* the thread has read it, on shared connections too.                      *)
(***************************************************************************)
THEOREM WritesAreConditional == Spec => AppliedIffCurrent
<1>1. TableInv /\ [Next]_vars =>
        [\A c \in Client :
           (pc[c] = "prepared" /\ pc'[c] = "stepped" /\ call[c] # "create") =>
             (applied'[c] <=> version[obj[c].key] = seen[c])]_vars
  <2> SUFFICES ASSUME TableInv, Next, NEW c \in Client,
                      pc[c] = "prepared", pc'[c] = "stepped", call[c] # "create"
               PROVE  applied'[c] <=> version[obj[c].key] = seen[c]
    BY DEF vars
  <2>1. obj[c] # Nil /\ ~applied[c] /\ call[c] \in {"update", "delete"}
    BY DEF TableInv, CallMatches, Writes
  <2>2. StepUpdate(c) \/ StepDelete(c) \/ StepMiss(c)
    BY DEF Next, Write, Fetch, BeginCreate, BeginUpdate, BeginDelete, Prepare,
           StepInsert, StepUpdate, StepDelete, StepMiss, StepFail, Stepped,
           Finalize, CheckChanges, Read, NextRow, NextNull, FreeList, TableInv,
           TypeOK
  <2>3. Selected(c) = IF version[obj[c].key] = seen[c] THEN {obj[c].key} ELSE {}
    BY <2>1, SelectedIffCurrent DEF TableInv
  <2> QED
    BY <2>1, <2>2, <2>3 DEF StepUpdate, StepDelete, StepMiss, TableInv, TypeOK
<1> QED
  BY <1>1, TableInvariant, PTL DEF Spec, AppliedIffCurrent

----------------------------------------------------------------------------
(* What the calls return                                                   *)

(***************************************************************************)
(* With a connection of its own a thread's sqlite3_changes are those of    *)
(* its last statement, until the handler has looked at them.               *)
(***************************************************************************)
LEMMA CallStep ==
  PrivateConnections /\ CallInv /\ [Next]_vars => CallInv'
<1> USE ConnOfType, BoundsType
<1> SUFFICES ASSUME PrivateConnections, CallInv, [Next]_vars PROVE CallInv'
  OBVIOUS
<1>t. TableInv /\ TableInv'
  BY TableStep DEF CallInv
<1> SUFFICES ChangesTell' /\ OutcomeIsTrue'
  BY <1>t DEF CallInv
<1> USE <1>t DEF CallInv, TableInv
<1>1. CASE UNCHANGED vars
  BY <1>1 DEF vars, ChangesTell, OutcomeIsTrue
<1>2. ASSUME NEW c \in Client, Write(c) PROVE ChangesTell' /\ OutcomeIsTrue'
  <2>p. \A d \in Client : d # c => ConnOf[d] # ConnOf[c]
    BY DEF PrivateConnections
  <2>1. CASE BeginCreate(c) \/ BeginUpdate(c) \/ BeginDelete(c)
    BY <2>1 DEF BeginCreate, BeginUpdate, BeginDelete, Prepare, dbVars,
                ChangesTell, OutcomeIsTrue, TypeOK
  <2>2. CASE StepInsert(c) \/ StepUpdate(c) \/ StepDelete(c)
    BY <2>2, <2>p DEF StepInsert, StepUpdate, StepDelete, Stepped, ChangesTell,
                      OutcomeIsTrue, TypeOK
  <2>3. CASE StepMiss(c)
    BY <2>3, <2>p DEF StepMiss, Stepped, ChangesTell, OutcomeIsTrue, TypeOK,
                      CallMatches
  <2>4. CASE StepFail(c)
    <3>1. \A d \in Client : d # c => changes'[ConnOf[d]] = changes[ConnOf[d]]
      BY <2>4, <2>p DEF StepFail, TypeOK
    <3> QED
      BY <2>4, <3>1 DEF StepFail, ChangesTell, OutcomeIsTrue, TypeOK
  <2>5. CASE Finalize(c)
    BY <2>5 DEF Finalize, dbVars, ChangesTell, OutcomeIsTrue, TypeOK, CallMatches
  <2>6. CASE CheckChanges(c)
    <3>1. changes[ConnOf[c]] \in Nat
      BY DEF TypeOK
    <3> QED
      BY <2>6, <3>1 DEF CheckChanges, dbVars, ChangesTell, OutcomeIsTrue, TypeOK
  <2> QED
    BY <1>2, <2>1, <2>2, <2>3, <2>4, <2>5, <2>6 DEF Write
<1>3. ASSUME NEW c \in Client, Fetch(c) PROVE ChangesTell' /\ OutcomeIsTrue'
  BY <1>3 DEF Fetch, Read, NextRow, NextNull, FreeList, dbVars, ChangesTell,
              OutcomeIsTrue, TypeOK, Writes
<1> QED
  BY <1>1, <1>2, <1>3 DEF Next

\* What a handler knows of its own statement is true throughout.
LEMMA CallInvariant == PrivateConnections => (Spec => []CallInv)
<1>1. Init => CallInv
  BY BoundsType DEF Init, CallInv, TableInv, TypeOK, Key, Row, NoRow,
       RowsMatch, ObjMatches, CallMatches, ChangedIsPast, ChangesDiffer,
       Changed, ChangesTell, OutcomeIsTrue, Writes
<1> SUFFICES ASSUME PrivateConnections PROVE Spec => []CallInv
  OBVIOUS
<1>2. CallInv /\ [Next]_vars => CallInv'
  BY CallStep
<1> QED
  BY <1>1, <1>2, PTL DEF Spec

(***************************************************************************)
(* Threads with a connection each are told what has become of their calls. *)
(***************************************************************************)
THEOREM OutcomesAreTrue == PrivateConnections => (Spec => []OutcomeIsTrue)
<1>1. CallInv => OutcomeIsTrue
  BY DEF CallInv
<1> QED
  BY <1>1, CallInvariant, PTL

(***************************************************************************)
(* Threads with a connection each cannot both succeed in changing the same *)
(* version of an object.                                                   *)
(***************************************************************************)
THEOREM OneWinner == PrivateConnections => (Spec => []AtMostOneWinner)
<1>1. CallInv => AtMostOneWinner
  BY DEF CallInv, TableInv, OutcomeIsTrue, ChangesDiffer, Changed,
         AtMostOneWinner, Won, Writes
<1> QED
  BY <1>1, CallInvariant, PTL

----------------------------------------------------------------------------
(* The refinement                                                          *)

\* The abstract state, as the instance substitutes it.
AbsLive == [k \in Key |-> rows[k].live]
AbsHeld == [c \in Client |->
              IF obj[c] = Nil THEN [object |-> "nothing"]
              ELSE [object |-> obj[c].key, version |-> seen[c]]]
AbsOutcome == [c \in Client |-> Outcome(c)]

(***************************************************************************)
(* A step of c that leaves the changes of other connections alone leaves   *)
(* the outcomes of the other threads alone.                                *)
(***************************************************************************)
LEMMA OutcomeOfOne ==
  ASSUME NEW c \in Client,
         \A d \in Client : d # c => /\ pc'[d] = pc[d]
                                   /\ result'[d] = result[d]
                                   /\ changes'[ConnOf[d]] = changes[ConnOf[d]]
  PROVE  AbsOutcome' = [AbsOutcome EXCEPT ![c] = Outcome(c)']
BY DEF AbsOutcome, Outcome

(***************************************************************************)
(* Every step of a handler is a step of the promise, or changes nothing    *)
(* the promise speaks of.                                                  *)
(***************************************************************************)
LEMMA PromiseStep ==
  PrivateConnections /\ CallInv /\ [Next]_vars => [Promise!Next]_(Promise!vars)
<1> USE ConnOfType, BoundsType
<1> SUFFICES ASSUME PrivateConnections, CallInv, [Next]_vars
             PROVE  Promise!Next \/ UNCHANGED <<version, AbsLive, AbsHeld, AbsOutcome>>
  BY DEF Promise!vars, AbsLive, AbsHeld, AbsOutcome
<1> USE DEF CallInv, TableInv
<1>1. CASE UNCHANGED vars
  BY <1>1 DEF vars, AbsLive, AbsHeld, AbsOutcome, Outcome
<1>2. ASSUME NEW c \in Client, Write(c) \/ Fetch(c)
      PROVE  Promise!Next \/ UNCHANGED <<version, AbsLive, AbsHeld, AbsOutcome>>
  <2>p. \A d \in Client : d # c => ConnOf[d] # ConnOf[c]
    BY DEF PrivateConnections
  <2>1. CASE BeginCreate(c) \/ BeginUpdate(c) \/ BeginDelete(c)
    <3> USE <2>1 DEF BeginCreate, BeginUpdate, BeginDelete, Prepare, dbVars
    <3>1. AbsOutcome' = [AbsOutcome EXCEPT ![c] = Outcome(c)']
      BY OutcomeOfOne DEF TypeOK
    <3>2. Outcome(c)' = "none" \/ Outcome(c)' = "error"
      BY DEF Outcome, TypeOK
    <3>3. AbsLive' = AbsLive /\ AbsHeld' = AbsHeld /\ version' = version
      BY DEF AbsLive, AbsHeld
    <3> QED
      BY <3>1, <3>2, <3>3 DEF Promise!Next, Promise!Start, Promise!Fail,
                              AbsLive, AbsHeld, AbsOutcome
  <2>2. CASE StepInsert(c)
    <3> USE <2>2 DEF StepInsert, Stepped
    <3>k. PICK k \in Key : k = lastKey' /\ version[k] = 0
      BY DEF TypeOK, Key, RowsMatch
    <3>1. AbsOutcome' = [AbsOutcome EXCEPT ![c] = Outcome(c)']
      BY <2>p, OutcomeOfOne DEF TypeOK
    <3>2. Outcome(c)' = "ok"
      BY DEF Outcome, TypeOK
    <3>3. AbsLive' = [AbsLive EXCEPT ![k] = TRUE] /\ AbsHeld' = AbsHeld
      BY <3>k DEF AbsLive, AbsHeld, TypeOK
    <3>4. version' = [version EXCEPT ![k] = 1]
      BY <3>k DEF TypeOK
    <3>5. Promise!Create(c, k)
      BY <3>k, <3>1, <3>2, <3>3, <3>4 DEF Promise!Create, Promise!Made,
                                            AbsLive, AbsHeld, AbsOutcome
    <3> QED
      BY <3>5 DEF Promise!Next
  <2>3. CASE StepUpdate(c) \/ StepDelete(c)
    <3> DEFINE k == obj[c].key
    <3> USE <2>3 DEF StepUpdate, StepDelete, Stepped
    <3>n. obj[c] # Nil
      BY DEF CallMatches
    <3>k. /\ k \in Key
          /\ Selected(c) = {k}
          /\ version[k] = seen[c]
          /\ rows[k].live
      BY <3>n, SelectedIffCurrent DEF ObjMatches
    <3>1. AbsOutcome' = [AbsOutcome EXCEPT ![c] = Outcome(c)']
      BY <2>p, OutcomeOfOne DEF TypeOK
    <3>2. Outcome(c)' = "ok"
      BY DEF Outcome, TypeOK
    <3>3. PICK stays \in BOOLEAN : AbsLive' = [AbsLive EXCEPT ![k] = stays]
      <4>1. CASE StepUpdate(c)
        <5>1. rows' = [rows EXCEPT ![k].rev = NewRevision(obj[c].rev)]
          BY <4>1, <3>k
        <5>2. rows'[k].live = TRUE /\ \A j \in Key : j # k => rows'[j] = rows[j]
          BY <5>1, <3>k DEF TypeOK, Row
        <5>3. AbsLive' = [AbsLive EXCEPT ![k] = TRUE]
          BY <5>2, <3>k DEF AbsLive
        <5> QED
          BY <5>3
      <4>2. CASE StepDelete(c)
        <5>1. rows' = [rows EXCEPT ![k] = NoRow]
          BY <4>2, <3>k
        <5>2. AbsLive' = [AbsLive EXCEPT ![k] = FALSE]
          BY <5>1, <3>k DEF AbsLive, TypeOK, NoRow
        <5> QED
          BY <5>2
      <4> QED
        BY <4>1, <4>2
    <3>4. version' = [version EXCEPT ![k] = @ + 1] /\ AbsHeld' = AbsHeld
      BY <3>k DEF AbsHeld
    <3>5. AbsHeld[c] = [object |-> k, version |-> seen[c]] /\ AbsLive[k]
      BY <3>n, <3>k DEF AbsHeld, AbsLive
    <3>6. Promise!Change(c, stays)
      BY <3>k, <3>1, <3>2, <3>3, <3>4, <3>5 DEF Promise!Change, Promise!Changed,
                                            Promise!Nothing,
                                            AbsLive, AbsHeld, AbsOutcome
    <3> QED
      BY <3>6 DEF Promise!Next
  <2>4. CASE StepMiss(c) \/ StepFail(c)
    <3> USE <2>4 DEF StepMiss, StepFail, Stepped
    <3>1. AbsOutcome' = [AbsOutcome EXCEPT ![c] = Outcome(c)']
      BY <2>p, OutcomeOfOne DEF TypeOK
    <3>2. Outcome(c)' = "error"
      BY DEF Outcome, TypeOK
    <3>3. AbsLive' = AbsLive /\ AbsHeld' = AbsHeld /\ version' = version
      BY DEF AbsLive, AbsHeld
    <3> QED
      BY <3>1, <3>2, <3>3 DEF Promise!Next, Promise!Fail, AbsLive, AbsHeld,
                              AbsOutcome
  <2>5. CASE Finalize(c) \/ CheckChanges(c)
    <3> USE <2>5 DEF Finalize, CheckChanges, dbVars
    <3>1. AbsOutcome' = [AbsOutcome EXCEPT ![c] = Outcome(c)']
      BY OutcomeOfOne DEF TypeOK
    <3>2. changes[ConnOf[c]] \in Nat
      BY DEF TypeOK
    <3>3. Outcome(c)' = Outcome(c)
      BY <3>2 DEF Outcome, TypeOK, ChangesTell, CallMatches
    <3>4. AbsOutcome' = AbsOutcome
      BY <3>1, <3>3 DEF AbsOutcome
    <3> QED
      BY <3>4 DEF AbsLive, AbsHeld
  <2>6. CASE NextRow(c)
    <3> USE <2>6 DEF NextRow, dbVars
    <3>k. PICK k \in Key : k = cursor[c].key /\ rows[k].live
      BY DEF TypeOK, Cursor, Closed
    <3>1. AbsOutcome' = [AbsOutcome EXCEPT ![c] = Outcome(c)']
      BY OutcomeOfOne DEF TypeOK
    <3>2. Outcome(c)' = "ok"
      BY DEF Outcome, TypeOK
    <3>3. AbsLive' = AbsLive /\ AbsLive[k]
      BY <3>k DEF AbsLive
    <3>4. obj'[c] = [key |-> k, rev |-> rows[k].rev] /\ obj'[c] # Nil
      BY <3>k DEF TypeOK, Nil, Key
    <3>5. AbsHeld' = [AbsHeld EXCEPT ![c] = [object |-> k, version |-> version[k]]]
      BY <3>4 DEF AbsHeld, TypeOK
    <3>6. Promise!Fetch(c, k)
      BY <3>1, <3>2, <3>3, <3>5 DEF Promise!Fetch, AbsLive, AbsHeld, AbsOutcome
    <3> QED
      BY <3>6 DEF Promise!Next
  <2>7. CASE NextNull(c)
    <3> USE <2>7 DEF NextNull, dbVars
    <3>1. AbsOutcome' = [AbsOutcome EXCEPT ![c] = Outcome(c)']
      BY OutcomeOfOne DEF TypeOK
    <3>2. Outcome(c)' = "error"
      BY DEF Outcome, TypeOK
    <3>3. AbsLive' = AbsLive /\ AbsHeld' = AbsHeld /\ version' = version
      BY DEF AbsLive, AbsHeld
    <3> QED
      BY <3>1, <3>2, <3>3 DEF Promise!Next, Promise!Fail, AbsLive, AbsHeld,
                              AbsOutcome
  <2>8. CASE (\E k \in Key : Read(c, k)) \/ FreeList(c)
    BY <2>8 DEF Read, FreeList, dbVars, AbsLive, AbsHeld, AbsOutcome, Outcome
  <2> QED
    BY <1>2, <2>1, <2>2, <2>3, <2>4, <2>5, <2>6, <2>7, <2>8 DEF Write, Fetch
<1> QED
  BY <1>1, <1>2 DEF Next

(***************************************************************************)
(* The SQLite backend keeps the promise of README.md, "Object Revisions",  *)
(* to threads that have a connection each.                                 *)
(***************************************************************************)
THEOREM RefinesRevisionStore == PrivateConnections => (Spec => KeepsPromise)
<1>1. Init => Promise!Init
  BY DEF Init, Promise!Init, Promise!Nothing, NoRow, Outcome
<1> SUFFICES ASSUME PrivateConnections PROVE Spec => KeepsPromise
  OBVIOUS
<1>2. CallInv /\ [Next]_vars => [Promise!Next]_(Promise!vars)
  BY PromiseStep
<1> QED
  BY <1>1, <1>2, CallInvariant, PTL DEF Spec, KeepsPromise, Promise!Spec

=============================================================================
