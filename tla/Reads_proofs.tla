---------------------------- MODULE Reads_proofs ----------------------------
(***************************************************************************)
(* Result lists own each result once, tell their size, and keep the        *)
(* promise of RowList, for any lists, rows and statements.  A program's    *)
(* reads and counts have just the objects its clauses mean, for any        *)
(* objects, fields and clause lists.                                       *)
(***************************************************************************)
EXTENDS Reads, Conditions_proofs

----------------------------------------------------------------------------
(* Result lists: the invariant, list by list                               *)

ListRecord ==
  [made : BOOLEAN, items : Seq(Row), pos : Nat, begun : BOOLEAN,
   next : BOOLEAN, held : Row \cup {NoRow}, size : Int]

Statement ==
  [open : BOOLEAN, rows : Seq(Row), at : Nat, restarts : BOOLEAN]

\* A list that is not made is as new, a list in memory holds no result, and one
\* that reads from a statement has no items and is at no position.
Shape(r, a) ==
  /\ ~r.made => r = NoList /\ a = NoRow
  /\ ~r.next => r.held = NoRow
  /\ r.next => r.items = << >> /\ r.pos = 0 /\ ~r.begun

Owned(r, s, n) ==
  /\ n = Len(r.items) + (IF r.held # NoRow THEN 1 ELSE 0)
  /\ s.open <=> r.next

Sized(r) ==
  ~r.next => r.size = Len(r.items) /\ r.pos \in 0 .. Len(r.items)

ListOK(r, s, a, n) ==
  /\ r \in ListRecord /\ s \in Statement /\ a \in Row \cup {NoRow} /\ n \in Nat
  /\ Shape(r, a) /\ Owned(r, s, n) /\ Sized(r)

ListInv ==
  /\ list \in [List -> ListRecord] /\ statement \in [List -> Statement]
  /\ answer \in [List -> Row \cup {NoRow}] /\ live \in [List -> Nat]
  /\ \A l \in List : ListOK(list[l], statement[l], answer[l], live[l])

LEMMA ListInvGives == ListInv => ListTypeOK /\ OwnedOnce /\ SizeTells
BY DEF ListInv, ListOK, ListTypeOK, OwnedOnce, SizeTells, Owned, Sized,
       ListRecord, Statement

LEMMA ListInvInit == ListInit => ListInv
BY DEF ListInit, ListInv, ListOK, Shape, Owned, Sized, NoList, NoStatement,
       ListRecord, Statement

\* A step that changes one list, and leaves that one in order.
LEMMA OneChanged ==
  ASSUME ListInv, NEW l \in List,
         NEW r, NEW s, NEW a, NEW n, ListOK(r, s, a, n),
         list' = [list EXCEPT ![l] = r],
         statement' = [statement EXCEPT ![l] = s],
         answer' = [answer EXCEPT ![l] = a],
         live' = [live EXCEPT ![l] = n]
  PROVE  ListInv'
<1>1. /\ r \in ListRecord /\ s \in Statement
      /\ a \in Row \cup {NoRow} /\ n \in Nat
  BY DEF ListOK
<1>2. /\ list' \in [List -> ListRecord] /\ statement' \in [List -> Statement]
      /\ answer' \in [List -> Row \cup {NoRow}] /\ live' \in [List -> Nat]
  BY <1>1 DEF ListInv
<1>3. ASSUME NEW x \in List
      PROVE  ListOK(list'[x], statement'[x], answer'[x], live'[x])
  <2>1. CASE x = l
    BY <2>1 DEF ListInv
  <2>2. CASE x # l
    <3>1. /\ list'[x] = list[x] /\ statement'[x] = statement[x]
          /\ answer'[x] = answer[x] /\ live'[x] = live[x]
      BY <2>2 DEF ListInv
    <3> QED
      BY <3>1 DEF ListInv
  <2> QED
    BY <2>1, <2>2
<1> QED
  BY <1>2, <1>3 DEF ListInv

----------------------------------------------------------------------------
(* Facts the actions share                                                 *)

LEMMA NoListIs ==
  /\ NoList \in ListRecord /\ NoList.items = << >> /\ NoList.held = NoRow
  /\ Len(NoList.items) = 0 /\ ~NoList.made /\ ~NoList.next
BY DEF NoList, ListRecord

\* What is known of a list that is not made.
LEMMA UnmadeIsNew ==
  ASSUME ListInv, NEW l \in List, ~list[l].made
  PROVE  list[l] = NoList /\ answer[l] = NoRow /\ live[l] = 0
<1>1. list[l] = NoList /\ answer[l] = NoRow
  BY DEF ListInv, ListOK, Shape
<1>2. live[l] = Len(NoList.items) + (IF NoList.held # NoRow THEN 1 ELSE 0)
  BY <1>1 DEF ListInv, ListOK, Owned
<1> QED
  BY <1>1, <1>2, NoListIs

\* The rows of a statement, or the items of a list, from one place to another.
LEMMA PartOfRows ==
  ASSUME NEW rows \in Seq(Row), NEW p \in Nat \ {0}, NEW m \in 0 .. Len(rows)
  PROVE  SubSeq(rows, p, m) \in Seq(Row)
<1>1. \A i \in p .. m : rows[i] \in Row
  BY ElementOfSeq, Len(rows) \in Nat
<1> QED
  BY <1>1, SubSeqProperties, m \in Int, p \in Int

\* What a next function returns is a row of the statement or NULL.
LEMMA FetchesRows ==
  ASSUME NEW s \in Statement, NEW f \in Fetches(s)
  PROVE  /\ f.row \in Row \cup {NoRow} /\ f.at \in Nat
         /\ f.row # NoRow =>
              s.at < Len(s.rows) /\ f.row = s.rows[s.at + 1] /\ f.at = s.at + 1
         /\ f.row = NoRow => f.at \in {s.at + 1, 0, Len(s.rows) + 1}
<1>1. s.rows \in Seq(Row) /\ s.at \in Nat /\ Len(s.rows) \in Nat
  BY DEF Statement
<1>2. s.at < Len(s.rows) => s.rows[s.at + 1] \in Row
  BY <1>1, ElementOfSeq
<1>3. Over(s) \in {0, Len(s.rows) + 1}
  BY DEF Over
<1> QED
  BY <1>1, <1>2, <1>3 DEF Fetches

----------------------------------------------------------------------------
(* Each action keeps the invariant                                         *)

\* What a list that is in order after the step needs, part by part.
LEMMA InOrder ==
  ASSUME NEW r, NEW s, NEW a, NEW n,
         r \in ListRecord, s \in Statement, a \in Row \cup {NoRow}, n \in Nat,
         Shape(r, a), Owned(r, s, n), Sized(r)
  PROVE  ListOK(r, s, a, n)
BY DEF ListOK

\* A list in memory that was just made, loaded or copied is in order.
LEMMA InMemoryIs ==
  ASSUME NEW items \in Seq(Row), NEW p \in 0 .. Len(items)
  PROVE  LET r == InMemory(items, p) IN
         /\ r \in ListRecord /\ Sized(r) /\ \A a : Shape(r, a)
         /\ r.items = items /\ r.held = NoRow /\ ~r.next
<1>1. Len(items) \in Nat /\ p \in Nat
  OBVIOUS
<1>2. InMemory(items, p) \in ListRecord
  BY <1>1 DEF InMemory, ListRecord
<1>3. Sized(InMemory(items, p))
  BY <1>1 DEF InMemory, Sized
<1>4. \A a : Shape(InMemory(items, p), a)
  BY DEF InMemory, Shape
<1> QED
  BY <1>2, <1>3, <1>4 DEF InMemory

LEMMA OpenKeeps ==
  ASSUME ListInv, NEW l \in List, NEW rows \in Seq(Row), NEW restarts \in BOOLEAN,
         NEW size \in Int, Open(l, rows, restarts, size)
  PROVE  ListInv'
<1> DEFINE r == Reading(size)
           s == [open |-> TRUE, rows |-> rows, at |-> 0, restarts |-> restarts]
<1>1. answer[l] = NoRow /\ live[l] = 0
  BY UnmadeIsNew DEF Open
<1>3. r \in ListRecord
  BY DEF ListRecord, Reading
<1>4. s \in Statement
  BY DEF Statement
<1>5. Shape(r, NoRow) /\ Sized(r)
  BY DEF Shape, Sized, Reading
<1>6. Owned(r, s, 0)
  BY DEF Owned, Reading
<1>7. ListOK(r, s, answer[l], live[l])
  BY <1>1, <1>3, <1>4, <1>5, <1>6, InOrder
<1>8. /\ answer' = [answer EXCEPT ![l] = answer[l]]
      /\ live' = [live EXCEPT ![l] = live[l]]
  BY DEF Open, ListInv
<1>9. /\ list' = [list EXCEPT ![l] = r]
      /\ statement' = [statement EXCEPT ![l] = s]
  BY DEF Open
<1> HIDE DEF r, s
<1> QED
  BY <1>7, <1>8, <1>9, OneChanged

LEMMA FillKeeps ==
  ASSUME ListInv, NEW l \in List, NEW rows \in Seq(Row), Fill(l, rows)
  PROVE  ListInv'
<1> DEFINE r == InMemory(rows, 0)
<1>1. answer[l] = NoRow /\ live[l] = 0 /\ list[l] = NoList
  BY UnmadeIsNew DEF Fill
<1>2. statement[l] \in Statement /\ ~statement[l].open
  BY <1>1, NoListIs DEF ListInv, ListOK, Owned
<1>3. Len(rows) \in Nat
  OBVIOUS
<1>4. r \in ListRecord /\ Shape(r, NoRow) /\ Sized(r) /\ r.items = rows
      /\ r.held = NoRow /\ ~r.next
  BY InMemoryIs, 0 \in 0 .. Len(rows)
<1>8. Owned(r, statement[l], Len(rows))
  <2> HIDE DEF r
  <2>0. r.held = NoRow /\ r.items = rows
    BY <1>4
  <2>1. Len(rows) = Len(r.items) + (IF r.held # NoRow THEN 1 ELSE 0)
    BY <1>3, <2>0
  <2>2. statement[l].open <=> r.next
    BY <1>2, <1>4, Zenon
  <2> QED
    BY <2>1, <2>2, Zenon DEF Owned
<1>9. ListOK(r, statement[l], answer[l], Len(rows))
  BY <1>1, <1>2, <1>3, <1>4, <1>8, InOrder
<1>10. answer' = [answer EXCEPT ![l] = answer[l]]
  BY DEF Fill, ListInv
<1>11. statement' = [statement EXCEPT ![l] = statement[l]]
  BY DEF Fill, ListInv
<1>12. live' = [live EXCEPT ![l] = Len(rows)]
  BY <1>1, <1>3 DEF Fill
<1>13. list' = [list EXCEPT ![l] = r]
  BY DEF Fill
<1> HIDE DEF r
<1> QED
  BY <1>9, <1>10, <1>11, <1>12, <1>13, OneChanged

LEMMA FetchKeeps ==
  ASSUME ListInv, NEW l \in List, list[l].made, list[l].next, Fetch(l)
  PROVE  ListInv'
<1>1. ListOK(list[l], statement[l], answer[l], live[l])
  BY DEF ListInv
<1>2. PICK f \in Fetches(statement[l]) :
        /\ list' = [list EXCEPT ![l].held = f.row]
        /\ statement' = [statement EXCEPT ![l].at = f.at]
        /\ answer' = [answer EXCEPT ![l] = f.row]
        /\ live' = [live EXCEPT ![l] =
                      (@ - (IF list[l].held # NoRow THEN 1 ELSE 0))
                        + (IF f.row # NoRow THEN 1 ELSE 0)]
  BY DEF Fetch
<1> DEFINE r == [list[l] EXCEPT !.held = f.row]
           s == [statement[l] EXCEPT !.at = f.at]
           n == IF f.row # NoRow THEN 1 ELSE 0
<1>3. f.row \in Row \cup {NoRow} /\ f.at \in Nat
  BY <1>1, FetchesRows DEF ListOK
<1>4. /\ list[l] \in ListRecord /\ statement[l] \in Statement
      /\ list[l].items = << >> /\ list[l].pos = 0 /\ ~list[l].begun
      /\ statement[l].open
  BY <1>1 DEF ListOK, Shape, Owned
<1>5. live[l] = IF list[l].held # NoRow THEN 1 ELSE 0
  <2>1. Len(list[l].items) = 0
    BY <1>4
  <2> QED
    BY <1>1, <2>1 DEF ListOK, Owned
<1>6. r \in ListRecord /\ r.held = f.row /\ r.items = << >> /\ r.pos = 0
      /\ ~r.begun /\ r.next /\ r.made
  BY <1>3, <1>4 DEF ListRecord
<1>7. s \in Statement /\ s.open
  BY <1>3, <1>4 DEF Statement
<1>8. Shape(r, f.row) /\ Sized(r)
  BY <1>6 DEF Shape, Sized
<1>9. Owned(r, s, n)
  <2> HIDE DEF r, n
  <2>0. Len(r.items) = 0
    BY <1>6
  <2>1. n = Len(r.items) + (IF r.held # NoRow THEN 1 ELSE 0)
    BY <1>6, <2>0 DEF n
  <2>2. s.open <=> r.next
    BY <1>6, <1>7, Zenon
  <2> QED
    BY <2>1, <2>2, Zenon DEF Owned
<1>10. ListOK(r, s, f.row, n)
  BY <1>3, <1>6, <1>7, <1>8, <1>9, InOrder
<1>11. list' = [list EXCEPT ![l] = r]
  BY <1>2 DEF ListInv
<1>12. statement' = [statement EXCEPT ![l] = s]
  BY <1>2 DEF ListInv
<1>13. live' = [live EXCEPT ![l] = n]
  <2>1. (live[l] - (IF list[l].held # NoRow THEN 1 ELSE 0))
          + (IF f.row # NoRow THEN 1 ELSE 0) = n
    BY <1>5
  <2> QED
    BY <1>2, <2>1
<1>14. answer' = [answer EXCEPT ![l] = f.row]
  BY <1>2
<1> HIDE DEF r, s, n
<1> QED
  BY <1>10, <1>11, <1>12, <1>13, <1>14, OneChanged

LEMMA GoToKeeps ==
  ASSUME ListInv, NEW l \in List, list[l].made, ~list[l].next,
         NEW p \in 0 .. Len(list[l].items), GoTo(l, p)
  PROVE  ListInv'
<1> DEFINE q == [list[l] EXCEPT !.pos = p]
           r == [q EXCEPT !.begun = TRUE]
           a == IF p = 0 THEN NoRow ELSE list[l].items[p]
           m == [list EXCEPT ![l].pos = p]
<1>1. ListOK(list[l], statement[l], answer[l], live[l])
  BY DEF ListInv
<1>2. list[l] \in ListRecord /\ list[l].items \in Seq(Row) /\ p \in Nat
  BY <1>1 DEF ListOK, ListRecord
<1>3. a \in Row \cup {NoRow}
  BY <1>2, ElementOfSeq
<1>4. /\ q \in ListRecord /\ q.items = list[l].items /\ q.held = list[l].held
      /\ q.size = list[l].size /\ q.pos = p /\ q.made /\ ~q.next
  BY <1>2 DEF ListRecord
<1> HIDE DEF q
<1>5. /\ r \in ListRecord /\ r.items = q.items /\ r.held = q.held
      /\ r.size = q.size /\ r.pos = q.pos /\ r.made /\ ~r.next
  BY <1>4 DEF ListRecord
<1> HIDE DEF r
<1>6. Shape(r, a)
  BY <1>1, <1>4, <1>5, Zenon DEF ListOK, Shape
<1>7. Sized(r)
  BY <1>1, <1>4, <1>5 DEF ListOK, Sized
<1>8. Owned(r, statement[l], live[l])
  BY <1>1, <1>4, <1>5, Zenon DEF ListOK, Owned
<1>9. ListOK(r, statement[l], a, live[l])
  BY <1>1, <1>3, <1>5, <1>6, <1>7, <1>8, InOrder DEF ListOK
<1>10. list' = [list EXCEPT ![l] = r]
  <2>1. m = [list EXCEPT ![l] = q]
    BY DEF ListInv, q
  <2>2. m[l] = q
    BY <2>1 DEF ListInv
  <2>3. list' = [m EXCEPT ![l].begun = TRUE]
    BY DEF GoTo
  <2> HIDE DEF m
  <2>4. list' = [m EXCEPT ![l] = r]
    BY <2>1, <2>2, <2>3 DEF r, ListInv
  <2> QED
    BY <2>1, <2>4 DEF ListInv
<1>11. answer' = [answer EXCEPT ![l] = a]
  BY DEF GoTo
<1>12. /\ statement' = [statement EXCEPT ![l] = statement[l]]
       /\ live' = [live EXCEPT ![l] = live[l]]
  BY DEF GoTo, ListInv
<1> HIDE DEF a
<1> QED
  BY <1>9, <1>10, <1>11, <1>12, OneChanged

\* Where next goes is a place of the list.
LEMMA FollowingIn ==
  ASSUME NEW r \in ListRecord, Sized(r), ~r.next
  PROVE  Following(r) \in 0 .. Len(r.items)
<1>1. r.items \in Seq(Row) /\ Len(r.items) \in Nat /\ r.pos \in 0 .. Len(r.items)
  BY DEF ListRecord, Sized
<1>2. r.items # << >> => Len(r.items) # 0
  BY <1>1, EmptySeq
<1> QED
  BY <1>1, <1>2 DEF Following

LEMMA BeginKeeps ==
  ASSUME ListInv, NEW l \in List, Begin(l)
  PROVE  ListInv'
<1>1. ListOK(list[l], statement[l], answer[l], live[l])
  BY DEF ListInv
<1>2. CASE list[l].next /\ list[l].held # NoRow
  <2>1. /\ list' = [list EXCEPT ![l] = list[l]]
        /\ statement' = [statement EXCEPT ![l] = statement[l]]
        /\ live' = [live EXCEPT ![l] = live[l]]
    BY <1>2 DEF Begin, Fetch, ListInv
  <2>2. answer' = [answer EXCEPT ![l] = NoRow]
    BY <1>2 DEF Begin
  <2>3. ListOK(list[l], statement[l], NoRow, live[l])
    BY <1>1, Zenon DEF ListOK, Shape
  <2> QED
    BY <2>1, <2>2, <2>3, OneChanged
<1>3. CASE list[l].next /\ list[l].held = NoRow
  BY <1>3, FetchKeeps DEF Begin
<1>4. CASE ~list[l].next
  <2> DEFINE p == IF list[l].items = << >> THEN 0 ELSE 1
  <2>1. GoTo(l, p) /\ list[l].made
    BY <1>4 DEF Begin
  <2>2. list[l].items \in Seq(Row)
    BY <1>1 DEF ListOK, ListRecord
  <2>3. p \in 0 .. Len(list[l].items)
    BY <2>2, EmptySeq
  <2> HIDE DEF p
  <2> QED
    BY <1>4, <2>1, <2>3, GoToKeeps
<1> QED
  BY <1>2, <1>3, <1>4

LEMMA ListNextKeeps ==
  ASSUME ListInv, NEW l \in List, ListNext(l)
  PROVE  ListInv'
<1>1. CASE list[l].next
  BY <1>1, FetchKeeps DEF ListNext
<1>2. CASE ~list[l].next
  <2>1. list[l] \in ListRecord /\ Sized(list[l])
    BY DEF ListInv, ListOK
  <2>2. Following(list[l]) \in 0 .. Len(list[l].items)
    BY <1>2, <2>1, FollowingIn
  <2> QED
    BY <1>2, <2>2, GoToKeeps DEF ListNext
<1> QED
  BY <1>1, <1>2

LEMMA NoStatementIs == NoStatement \in Statement /\ ~NoStatement.open
BY DEF NoStatement, Statement

\* A list whose items, held result and statement are known to belong to it.
LEMMA LoadedOwns ==
  ASSUME NEW items \in Seq(Row), NEW p \in 0 .. Len(items), NEW s, ~s.open
  PROVE  Owned(InMemory(items, p), s, Len(items))
<1> DEFINE r == InMemory(items, p)
<1>1. r.items = items /\ r.held = NoRow /\ ~r.next
  BY DEF InMemory
<1> HIDE DEF r
<1>2. Len(items) = Len(r.items) + (IF r.held # NoRow THEN 1 ELSE 0)
  BY <1>1, Len(items) \in Nat
<1>3. s.open <=> r.next
  BY <1>1, Zenon
<1>4. Owned(r, s, Len(items))
  BY <1>2, <1>3, Zenon DEF Owned
<1> QED
  BY <1>4 DEF r

LEMMA FetchAllKeeps ==
  ASSUME ListInv, NEW l \in List, FetchAll(l)
  PROVE  ListInv'
<1>1. ListOK(list[l], statement[l], answer[l], live[l])
  BY DEF ListInv
<1>2. list[l].made /\ list[l].next /\ list[l].held = NoRow
  BY DEF FetchAll
<1>3. /\ statement[l] \in Statement /\ statement[l].rows \in Seq(Row)
      /\ statement[l].at \in Nat /\ list[l].items = << >>
  BY <1>1, <1>2 DEF ListOK, Statement, Shape
<1>4. live[l] = 0
  <2>1. Len(list[l].items) = 0
    BY <1>3
  <2> QED
    BY <1>1, <1>2, <2>1 DEF ListOK, Owned
<1>5. PICK m \in 0 .. Len(statement[l].rows) :
        LET rows == SubSeq(statement[l].rows, statement[l].at + 1, m) IN
        /\ list' = [list EXCEPT ![l] = InMemory(rows, 0)]
        /\ live' = [live EXCEPT ![l] = @ + Len(rows)]
  BY DEF FetchAll
<1> DEFINE rows == SubSeq(statement[l].rows, statement[l].at + 1, m)
<1>6. rows \in Seq(Row)
  BY <1>3, PartOfRows
<1> HIDE DEF rows
<1>7. Len(rows) \in Nat /\ 0 \in 0 .. Len(rows)
  BY <1>6
<1>8. /\ InMemory(rows, 0) \in ListRecord /\ Shape(InMemory(rows, 0), answer[l])
      /\ Sized(InMemory(rows, 0))
  BY <1>6, <1>7, InMemoryIs
<1>9. Owned(InMemory(rows, 0), NoStatement, Len(rows))
  BY <1>6, <1>7, LoadedOwns, NoStatementIs
<1>10. ListOK(InMemory(rows, 0), NoStatement, answer[l], Len(rows))
  BY <1>1, <1>7, <1>8, <1>9, InOrder, NoStatementIs DEF ListOK
<1>11. list' = [list EXCEPT ![l] = InMemory(rows, 0)]
  BY <1>5 DEF rows
<1>13. live' = [live EXCEPT ![l] = Len(rows)]
  <2>1. live' = [live EXCEPT ![l] = live[l] + Len(rows)]
    BY <1>5 DEF rows
  <2> QED
    BY <1>4, <1>7, <2>1
<1>12. /\ statement' = [statement EXCEPT ![l] = NoStatement]
       /\ answer' = [answer EXCEPT ![l] = answer[l]]
  BY DEF FetchAll, ListInv
<1> QED
  BY <1>10, <1>11, <1>12, <1>13, OneChanged

\* A copy of the items of a list, all of them or some, is in order.
LEMMA CopyInOrder ==
  ASSUME ListInv, NEW to \in List, ~list[to].made,
         NEW items \in Seq(Row), NEW p \in 0 .. Len(items)
  PROVE  /\ ListOK(InMemory(items, p), statement[to], answer[to], Len(items))
         /\ live[to] + Len(items) = Len(items)
<1>1. list[to] = NoList /\ live[to] = 0
  BY UnmadeIsNew
<1>2. statement[to] \in Statement /\ answer[to] \in Row \cup {NoRow}
  BY DEF ListInv
<1>3. ~statement[to].open
  BY <1>1, NoListIs DEF ListInv, ListOK, Owned
<1>4. Len(items) \in Nat
  OBVIOUS
<1>5. /\ InMemory(items, p) \in ListRecord /\ Shape(InMemory(items, p), answer[to])
      /\ Sized(InMemory(items, p))
  BY InMemoryIs
<1>6. Owned(InMemory(items, p), statement[to], Len(items))
  BY <1>3, LoadedOwns
<1> QED
  BY <1>1, <1>2, <1>4, <1>5, <1>6, InOrder

LEMMA NewCopyKeeps ==
  ASSUME ListInv, NEW l \in List, NEW to \in List, NewCopy(l, to)
  PROVE  ListInv'
<1> DEFINE r == InMemory(list[l].items, list[l].pos)
           n == Len(list[l].items)
<1>1. list[l] \in ListRecord /\ Sized(list[l]) /\ ~list[l].next /\ ~list[to].made
  BY DEF ListInv, ListOK, NewCopy
<1>2. list[l].items \in Seq(Row) /\ list[l].pos \in 0 .. Len(list[l].items)
  BY <1>1 DEF ListRecord, Sized
<1>3. ListOK(r, statement[to], answer[to], n) /\ live[to] + n = n
  BY <1>1, <1>2, CopyInOrder
<1>4. list' = [list EXCEPT ![to] = r]
  BY DEF NewCopy
<1>5. live' = [live EXCEPT ![to] = n]
  BY <1>3 DEF NewCopy
<1>6. /\ statement' = [statement EXCEPT ![to] = statement[to]]
      /\ answer' = [answer EXCEPT ![to] = answer[to]]
  BY DEF NewCopy, ListInv
<1> HIDE DEF r, n
<1> QED
  BY <1>3, <1>4, <1>5, <1>6, OneChanged

LEMMA CopyFailsKeeps ==
  ASSUME ListInv, NEW l \in List, NEW to \in List, CopyFails(l, to)
  PROVE  ListInv'
<1>1. list[l] \in ListRecord /\ ~list[to].made
  BY DEF ListInv, ListOK, CopyFails
<1>2. list[l].items \in Seq(Row) /\ list[l].pos \in Nat
      /\ Len(list[l].items) \in Nat
  BY <1>1 DEF ListRecord
<1>3. PICK m \in 0 .. Len(list[l].items) - 1 :
        /\ list' = [list EXCEPT ![to] =
                      InMemory(SubSeq(list[l].items, 1, m),
                               IF list[l].pos <= m THEN list[l].pos ELSE 0)]
        /\ live' = [live EXCEPT ![to] = @ + m]
  BY DEF CopyFails
<1> DEFINE items == SubSeq(list[l].items, 1, m)
           p == IF list[l].pos <= m THEN list[l].pos ELSE 0
           r == InMemory(items, p)
<1>4. m \in 0 .. Len(list[l].items) /\ m \in Nat
  BY <1>2
<1>5. items \in Seq(Row)
  BY <1>2, <1>4, PartOfRows
<1>6. Len(items) = m
  BY <1>2, <1>4
<1>7. p \in 0 .. m
  BY <1>2, <1>4
<1>8. list' = [list EXCEPT ![to] = r]
  BY <1>3
<1> HIDE DEF items, p
<1>9. ListOK(r, statement[to], answer[to], m) /\ live[to] + m = m
  BY <1>1, <1>5, <1>6, <1>7, CopyInOrder
<1>10. live' = [live EXCEPT ![to] = m]
  BY <1>3, <1>9
<1>11. /\ statement' = [statement EXCEPT ![to] = statement[to]]
       /\ answer' = [answer EXCEPT ![to] = answer[to]]
  BY DEF CopyFails, ListInv
<1> HIDE DEF r
<1> QED
  BY <1>8, <1>9, <1>10, <1>11, OneChanged

LEMMA FreeKeeps ==
  ASSUME ListInv, NEW l \in List, Free(l)
  PROVE  ListInv'
<1> DEFINE s == IF list[l].next THEN NoStatement ELSE statement[l]
<1>1. ListOK(list[l], statement[l], answer[l], live[l])
  BY DEF ListInv
<1>2. live' = [live EXCEPT ![l] = 0]
  <2>1. list[l].next /\ list[l].held # NoRow <=> list[l].held # NoRow
    BY <1>1, Zenon DEF ListOK, Shape
  <2>2. live[l] - (Len(list[l].items)
                     + IF list[l].next /\ list[l].held # NoRow THEN 1 ELSE 0) = 0
    <3>1. live[l] = Len(list[l].items) + (IF list[l].held # NoRow THEN 1 ELSE 0)
      BY <1>1 DEF ListOK, Owned
    <3>2. Len(list[l].items) \in Nat
      BY <1>1 DEF ListOK, ListRecord
    <3> QED
      BY <2>1, <3>1, <3>2
  <2> QED
    BY <2>2 DEF Free
<1>3. s \in Statement /\ ~s.open
  BY <1>1, NoStatementIs DEF ListOK, Owned
<1>4. Shape(NoList, NoRow) /\ Sized(NoList) /\ NoList \in ListRecord
  BY DEF Shape, Sized, NoList, ListRecord
<1>5. Owned(NoList, s, 0)
  <2> HIDE DEF s
  <2>1. 0 = Len(NoList.items) + (IF NoList.held # NoRow THEN 1 ELSE 0)
    BY NoListIs
  <2>2. s.open <=> NoList.next
    BY <1>3, NoListIs, Zenon
  <2> QED
    BY <2>1, <2>2, Zenon DEF Owned
<1>6. ListOK(NoList, s, NoRow, 0)
  BY <1>3, <1>4, <1>5, InOrder
<1>7. /\ list' = [list EXCEPT ![l] = NoList]
      /\ answer' = [answer EXCEPT ![l] = NoRow]
  BY DEF Free
<1>8. statement' = [statement EXCEPT ![l] = s]
  BY DEF Free
<1> HIDE DEF s
<1> QED
  BY <1>2, <1>6, <1>7, <1>8, OneChanged

LEMMA ListInvStep == ListInv /\ [ListStep]_listVars => ListInv'
<1> SUFFICES ASSUME ListInv, [ListStep]_listVars PROVE ListInv'
  OBVIOUS
<1>1. CASE UNCHANGED listVars
  BY <1>1 DEF ListInv, listVars
<1>2. CASE ListStep
  <2>1. PICK l \in List :
          \/ \E rows \in Seq(Row), restarts \in BOOLEAN, size \in Int :
               Open(l, rows, restarts, size)
          \/ \E rows \in Seq(Row) : Fill(l, rows)
          \/ Walk(l)
    BY <1>2 DEF ListStep
  <2>2. CASE Walk(l)
    BY <2>2, BeginKeeps, ListNextKeeps, FetchAllKeeps, FreeKeeps, NewCopyKeeps,
       CopyFailsKeeps DEF Walk
  <2> QED
    BY <2>1, <2>2, OpenKeeps, FillKeeps
<1> QED
  BY <1>1, <1>2

----------------------------------------------------------------------------
(* The refinement of RowList                                               *)

\* What one list has, and how much of it was yielded.
ContentOf(r, s) == IF r.next THEN s.rows ELSE r.items

YieldedOf(r, s) ==
  IF r.next THEN s.at
  ELSE IF ~r.begun THEN 0
  ELSE IF r.pos = 0 THEN Len(r.items) + 1
  ELSE r.pos

LEMMA ContentIs ==
  ASSUME NEW l \in List
  PROVE  /\ Content[l] = ContentOf(list[l], statement[l])
         /\ Yielded[l] = YieldedOf(list[l], statement[l])
BY DEF Content, Yielded, ContentOf, YieldedOf

LEMMA ContentWillBe ==
  ASSUME NEW l \in List
  PROVE  /\ Content'[l] = ContentOf(list'[l], statement'[l])
         /\ Yielded'[l] = YieldedOf(list'[l], statement'[l])
BY DEF Content, Yielded, ContentOf, YieldedOf

\* A step that changes one list changes the rows and the place of no other.
Others(l) ==
  \A x \in List : x # l => list'[x] = list[x] /\ statement'[x] = statement[x]

LEMMA OneContent ==
  ASSUME NEW l \in List, Others(l)
  PROVE  /\ Content' = [Content EXCEPT ![l] = Content'[l]]
         /\ Yielded' = [Yielded EXCEPT ![l] = Yielded'[l]]
         /\ Content'[l] = ContentOf(list'[l], statement'[l])
         /\ Yielded'[l] = YieldedOf(list'[l], statement'[l])
<1>1. ASSUME NEW x \in List, x # l
      PROVE  Content'[x] = Content[x] /\ Yielded'[x] = Yielded[x]
  BY <1>1, ContentIs, ContentWillBe DEF Others
<1>2. /\ Content = [x \in List |-> Content[x]] /\ Content' = [x \in List |-> Content'[x]]
      /\ Yielded = [x \in List |-> Yielded[x]] /\ Yielded' = [x \in List |-> Yielded'[x]]
  BY DEF Content, Yielded
<1>3. Content' = [Content EXCEPT ![l] = Content'[l]]
  BY <1>1, <1>2
<1>4. Yielded' = [Yielded EXCEPT ![l] = Yielded'[l]]
  BY <1>1, <1>2
<1> QED
  BY <1>3, <1>4, ContentWillBe

LEMMA PromiseInit == ListInit => Promise!Init
BY DEF ListInit, Promise!Init, Content, Yielded, NoList, NoStatement

\* A list that is not made has no rows, and none were yielded.
LEMMA UnmadeHasNone ==
  ASSUME ListInv, NEW l \in List, ~list[l].made
  PROVE  /\ Content[l] = << >> /\ Yielded[l] = 0 /\ answer[l] = NoRow
         /\ list[l].next = FALSE
<1>1. list[l] = NoList /\ answer[l] = NoRow
  BY UnmadeIsNew
<1> QED
  BY <1>1, ContentIs DEF ContentOf, YieldedOf, NoList

LEMMA OpenPromised ==
  ASSUME ListInv, NEW l \in List, NEW rows \in Seq(Row), NEW restarts \in BOOLEAN,
         NEW size \in Int, Open(l, rows, restarts, size)
  PROVE  Promise!Open(l)
<1> DEFINE r == Reading(size)
           s == [open |-> TRUE, rows |-> rows, at |-> 0, restarts |-> restarts]
<1>1. list'[l] = r /\ statement'[l] = s /\ Others(l)
  BY DEF Open, ListInv, Others
<1>2. ContentOf(r, s) = rows /\ YieldedOf(r, s) = 0
  BY DEF ContentOf, YieldedOf, Reading
<1> HIDE DEF r, s
<1>3. /\ Content' = [Content EXCEPT ![l] = rows]
      /\ Yielded' = [Yielded EXCEPT ![l] = 0]
  BY <1>1, <1>2, OneContent
<1>4. Content[l] = << >> /\ answer[l] = NoRow
  BY UnmadeHasNone DEF Open
<1>5. Content'[l] = rows
  BY <1>3 DEF Content
<1>6. answer' = [answer EXCEPT ![l] = NoRow]
  BY <1>4 DEF Open, ListInv
<1> QED
  BY <1>3, <1>4, <1>5, <1>6 DEF Promise!Open

LEMMA FillPromised ==
  ASSUME ListInv, NEW l \in List, NEW rows \in Seq(Row), Fill(l, rows)
  PROVE  Promise!Open(l)
<1> DEFINE r == InMemory(rows, 0)
           s == statement[l]
<1>1. list'[l] = r /\ statement'[l] = s /\ Others(l)
  BY DEF Fill, ListInv, Others
<1>2. ContentOf(r, s) = rows /\ YieldedOf(r, s) = 0
  BY DEF ContentOf, YieldedOf, InMemory
<1> HIDE DEF r, s
<1>3. /\ Content' = [Content EXCEPT ![l] = rows]
      /\ Yielded' = [Yielded EXCEPT ![l] = 0]
  BY <1>1, <1>2, OneContent
<1>4. Content[l] = << >> /\ answer[l] = NoRow
  BY UnmadeHasNone DEF Fill
<1>5. Content'[l] = rows
  BY <1>3 DEF Content
<1>6. answer' = [answer EXCEPT ![l] = NoRow]
  BY <1>4 DEF Fill, ListInv
<1> QED
  BY <1>3, <1>4, <1>5, <1>6 DEF Promise!Open

\* The next function yields the next row, or it returns NULL.
LEMMA FetchPromised ==
  ASSUME ListInv, NEW l \in List, list[l].next, Fetch(l)
  PROVE  Promise!Yield(l) \/ Promise!Null(l)
<1>1. list[l] \in ListRecord /\ statement[l] \in Statement
  BY DEF ListInv
<1>2. PICK f \in Fetches(statement[l]) :
        /\ list' = [list EXCEPT ![l].held = f.row]
        /\ statement' = [statement EXCEPT ![l].at = f.at]
        /\ answer' = [answer EXCEPT ![l] = f.row]
  BY DEF Fetch
<1> DEFINE r == [list[l] EXCEPT !.held = f.row]
           s == [statement[l] EXCEPT !.at = f.at]
<1>3. list'[l] = r /\ statement'[l] = s /\ Others(l)
  BY <1>2 DEF ListInv, Others
<1>4. r.next /\ s.rows = statement[l].rows /\ s.at = f.at
  BY <1>1 DEF ListRecord, Statement
<1> HIDE DEF r, s
<1>11. ContentOf(r, s) = statement[l].rows /\ YieldedOf(r, s) = f.at
  BY <1>4 DEF ContentOf, YieldedOf
<1>5. /\ Content' = [Content EXCEPT ![l] = statement[l].rows]
      /\ Yielded' = [Yielded EXCEPT ![l] = f.at]
  BY <1>3, <1>11, OneContent
<1>6. Content[l] = statement[l].rows /\ Yielded[l] = statement[l].at
  BY ContentIs DEF ContentOf, YieldedOf
<1>7. Content' = Content
  BY <1>5, <1>6 DEF Content
<1>8. /\ f.row # NoRow => /\ Yielded[l] < Len(Content[l]) /\ f.at = Yielded[l] + 1
                          /\ f.row = Content[l][Yielded[l] + 1]
      /\ f.row = NoRow => f.at \in {Yielded[l] + 1, 0, Len(Content[l]) + 1}
  BY <1>1, <1>6, FetchesRows
<1>9. CASE f.row # NoRow
  <2>1. Yielded' = [Yielded EXCEPT ![l] = @ + 1]
    BY <1>5, <1>8, <1>9
  <2>2. answer' = [answer EXCEPT ![l] = Content[l][Yielded[l] + 1]]
    BY <1>2, <1>8, <1>9
  <2> QED
    BY <1>7, <1>8, <1>9, <2>1, <2>2 DEF Promise!Yield
<1>10. CASE f.row = NoRow
  BY <1>2, <1>5, <1>7, <1>8, <1>10 DEF Promise!Null
<1> QED
  BY <1>9, <1>10

\* A list in memory goes to a place: what that is for the promise.
LEMMA GoToShown ==
  ASSUME ListInv, NEW l \in List, ~list[l].next, NEW p \in Nat, GoTo(l, p)
  PROVE  /\ Content' = Content /\ Content[l] = list[l].items
         /\ Yielded' = [Yielded EXCEPT ![l] = IF p = 0 THEN Len(list[l].items) + 1
                                                      ELSE p]
         /\ answer' = [answer EXCEPT ![l] = IF p = 0 THEN NoRow
                                            ELSE list[l].items[p]]
<1> DEFINE m == [list EXCEPT ![l].pos = p]
<1>1. list[l] \in ListRecord
  BY DEF ListInv
<1>2. list' = [m EXCEPT ![l].begun = TRUE]
  BY DEF GoTo
<1>3. /\ m[l] \in ListRecord /\ m[l].pos = p /\ m[l].items = list[l].items
      /\ m[l].next = list[l].next
      /\ \A x \in List : x # l => m[x] = list[x]
      /\ m \in [List -> ListRecord]
  BY <1>1 DEF ListInv, ListRecord
<1> HIDE DEF m
<1>4. /\ list'[l].pos = p /\ list'[l].items = list[l].items /\ ~list'[l].next
      /\ list'[l].begun
  BY <1>2, <1>3 DEF ListRecord
<1>5. Others(l)
  BY <1>2, <1>3 DEF Others, GoTo
<1>6. Content'[l] = list[l].items
  BY <1>4, <1>5, OneContent, Zenon DEF ContentOf
<1>7. Yielded'[l] = IF p = 0 THEN Len(list[l].items) + 1 ELSE p
  <2>1. YieldedOf(list'[l], statement'[l])
          = IF p = 0 THEN Len(list[l].items) + 1 ELSE p
    BY <1>4 DEF YieldedOf
  <2> QED
    BY <1>5, <2>1, OneContent
<1>8. Content[l] = list[l].items
  BY ContentIs DEF ContentOf
<1>9. Content' = Content
  <2>1. Content' = [Content EXCEPT ![l] = Content[l]]
    BY <1>5, <1>6, <1>8, OneContent, Zenon
  <2>2. Content = [x \in List |-> Content[x]]
    BY DEF Content
  <2> QED
    BY <2>1, <2>2
<1> QED
  BY <1>5, <1>7, <1>8, <1>9, OneContent DEF GoTo

LEMMA BeginPromised ==
  ASSUME ListInv, NEW l \in List, Begin(l)
  PROVE  \/ Promise!Yield(l) \/ Promise!StartOver(l) \/ Promise!Null(l)
<1>1. CASE list[l].next /\ list[l].held # NoRow
  <2>1. UNCHANGED <<list, statement>> /\ answer' = [answer EXCEPT ![l] = NoRow]
    BY <1>1 DEF Begin, Fetch
  <2>2. Content' = Content /\ Yielded' = [Yielded EXCEPT ![l] = Yielded[l]]
    BY <2>1 DEF Content, Yielded
  <2> QED
    BY <2>1, <2>2 DEF Promise!Null
<1>2. CASE list[l].next /\ list[l].held = NoRow
  BY <1>2, FetchPromised DEF Begin
<1>3. CASE ~list[l].next /\ list[l].items = << >>
  <2>1. GoTo(l, 0)
    BY <1>3 DEF Begin
  <2>2. /\ Content' = Content /\ Content[l] = list[l].items
        /\ Yielded' = [Yielded EXCEPT ![l] = Len(list[l].items) + 1]
        /\ answer' = [answer EXCEPT ![l] = NoRow]
    BY <1>3, <2>1, GoToShown
  <2> QED
    BY <2>2 DEF Promise!Null
<1>4. CASE ~list[l].next /\ list[l].items # << >>
  <2>1. GoTo(l, 1)
    BY <1>4 DEF Begin
  <2>2. /\ Content' = Content /\ Content[l] = list[l].items
        /\ Yielded' = [Yielded EXCEPT ![l] = 1]
        /\ answer' = [answer EXCEPT ![l] = list[l].items[1]]
    BY <1>4, <2>1, GoToShown
  <2> QED
    BY <1>4, <2>2 DEF Promise!StartOver
<1> QED
  BY <1>1, <1>2, <1>3, <1>4

LEMMA ListNextPromised ==
  ASSUME ListInv, NEW l \in List, ListNext(l)
  PROVE  Promise!Yield(l) \/ Promise!Null(l)
<1>1. CASE list[l].next
  BY <1>1, FetchPromised DEF ListNext
<1>2. CASE ~list[l].next
  <2> DEFINE p == Following(list[l])
             n == Len(list[l].items)
  <2>1. /\ list[l] \in ListRecord /\ list[l].items \in Seq(Row)
        /\ n \in Nat /\ list[l].pos \in 0 .. n
    BY <1>2 DEF ListInv, ListOK, ListRecord, Sized
  <2>2. GoTo(l, p)
    BY <1>2 DEF ListNext
  <2>3. Yielded[l] = IF ~list[l].begun THEN 0
                     ELSE IF list[l].pos = 0 THEN n + 1 ELSE list[l].pos
    BY <1>2, ContentIs DEF YieldedOf
  <2>4. \/ p = 0
        \/ p = Yielded[l] + 1 /\ Yielded[l] < n /\ p # 0
    <3>1. list[l].items # << >> => n # 0
      BY <2>1, EmptySeq
    <3> QED
      BY <2>1, <2>3, <3>1 DEF Following
  <2>5. p \in Nat
    <3>1. Sized(list[l])
      BY DEF ListInv, ListOK
    <3> QED
      BY <1>2, <2>1, <3>1, FollowingIn
  <2>6. /\ Content' = Content /\ Content[l] = list[l].items
        /\ Yielded' = [Yielded EXCEPT ![l] = IF p = 0 THEN n + 1 ELSE p]
        /\ answer' = [answer EXCEPT ![l] = IF p = 0 THEN NoRow
                                           ELSE list[l].items[p]]
    BY <1>2, <2>2, <2>5, GoToShown
  <2> HIDE DEF p
  <2>7. CASE p = 0
    <3>1. Yielded' = [Yielded EXCEPT ![l] = Len(Content[l]) + 1]
      BY <2>6, <2>7
    <3>2. answer' = [answer EXCEPT ![l] = NoRow]
      BY <2>6, <2>7
    <3> QED
      BY <2>6, <3>1, <3>2 DEF Promise!Null
  <2>8. CASE p = Yielded[l] + 1 /\ Yielded[l] < n /\ p # 0
    BY <2>6, <2>8 DEF Promise!Yield
  <2> QED
    BY <2>4, <2>7, <2>8
<1> QED
  BY <1>1, <1>2

LEMMA FetchAllPromised ==
  ASSUME ListInv, NEW l \in List, FetchAll(l)
  PROVE  Promise!Load(l)
<1>1. list[l].next
  BY DEF FetchAll
<1>2. PICK m \in 0 .. Len(statement[l].rows) :
        list' = [list EXCEPT ![l] =
                   InMemory(SubSeq(statement[l].rows, statement[l].at + 1, m), 0)]
  BY DEF FetchAll
<1> DEFINE rows == SubSeq(statement[l].rows, statement[l].at + 1, m)
           r == InMemory(rows, 0)
<1>3. list'[l] = r /\ Others(l)
  BY <1>2 DEF FetchAll, ListInv, Others
<1>4. \A s : ContentOf(r, s) = rows /\ YieldedOf(r, s) = 0
  BY DEF ContentOf, YieldedOf, InMemory
<1> HIDE DEF r
<1>5. Content'[l] = rows /\ Yielded'[l] = 0
  BY <1>3, <1>4, OneContent
<1>6. Content[l] = statement[l].rows /\ Yielded[l] = statement[l].at
  BY <1>1, ContentIs DEF ContentOf, YieldedOf
<1>7. /\ Content' = [Content EXCEPT ![l] = SubSeq(@, Yielded[l] + 1, m)]
      /\ Yielded' = [Yielded EXCEPT ![l] = 0]
  BY <1>3, <1>5, <1>6, OneContent
<1>8. UNCHANGED answer /\ m \in 0 .. Len(Content[l])
  BY <1>6 DEF FetchAll
<1> QED
  BY <1>7, <1>8 DEF Promise!Load

\* What a copy of the first rows of a list is for the promise.
LEMMA CopyShown ==
  ASSUME ListInv, NEW l \in List, NEW to \in List, ~list[l].next, ~list[to].made,
         NEW m \in 0 .. Len(list[l].items), NEW p,
         list' = [list EXCEPT ![to] = InMemory(SubSeq(list[l].items, 1, m), p)],
         UNCHANGED statement, UNCHANGED answer
  PROVE  Promise!Copy(l, to)
<1> DEFINE rows == SubSeq(list[l].items, 1, m)
           r == InMemory(rows, p)
<1>1. list'[to] = r /\ Others(to)
  BY DEF ListInv, Others
<1>2. \A s : ContentOf(r, s) = rows /\ YieldedOf(r, s) = 0
  BY DEF ContentOf, YieldedOf, InMemory
<1> HIDE DEF r
<1>3. Content'[to] = rows /\ Yielded'[to] = 0
  BY <1>1, <1>2, OneContent
<1>4. Content[l] = list[l].items /\ Content[to] = << >>
  BY ContentIs, UnmadeHasNone DEF ContentOf
<1>5. /\ Content' = [Content EXCEPT ![to] = SubSeq(Content[l], 1, m)]
      /\ Yielded' = [Yielded EXCEPT ![to] = 0]
  BY <1>1, <1>3, <1>4, OneContent
<1>6. m \in 0 .. Len(Content[l])
  BY <1>4
<1> QED
  BY <1>4, <1>5, <1>6 DEF Promise!Copy

LEMMA NewCopyPromised ==
  ASSUME ListInv, NEW l \in List, NEW to \in List, NewCopy(l, to)
  PROVE  Promise!Copy(l, to)
<1> DEFINE m == Len(list[l].items)
<1>1. list[l].items \in Seq(Row)
  BY DEF ListInv, ListRecord
<1>2. SubSeq(list[l].items, 1, m) = list[l].items /\ m \in 0 .. Len(list[l].items)
  BY <1>1, SubSeqFull
<1>3. list' = [list EXCEPT ![to] =
                 InMemory(SubSeq(list[l].items, 1, m), list[l].pos)]
  BY <1>2 DEF NewCopy
<1>4. /\ ~list[l].next /\ ~list[to].made
      /\ UNCHANGED statement /\ UNCHANGED answer
  BY DEF NewCopy
<1> HIDE DEF m
<1> QED
  BY <1>2, <1>3, <1>4, CopyShown

LEMMA CopyFailsPromised ==
  ASSUME ListInv, NEW l \in List, NEW to \in List, CopyFails(l, to)
  PROVE  Promise!Copy(l, to)
<1>1. list[l].items \in Seq(Row) /\ Len(list[l].items) \in Nat
  BY DEF ListInv, ListRecord
<1>2. PICK m \in 0 .. Len(list[l].items) - 1 :
        list' = [list EXCEPT ![to] =
                   InMemory(SubSeq(list[l].items, 1, m),
                            IF list[l].pos <= m THEN list[l].pos ELSE 0)]
  BY DEF CopyFails
<1>3. m \in 0 .. Len(list[l].items)
  BY <1>1
<1> DEFINE p == IF list[l].pos <= m THEN list[l].pos ELSE 0
<1>4. /\ ~list[l].next /\ ~list[to].made
      /\ UNCHANGED statement /\ UNCHANGED answer
  BY DEF CopyFails
<1>5. list' = [list EXCEPT ![to] = InMemory(SubSeq(list[l].items, 1, m), p)]
  BY <1>2
<1> HIDE DEF p
<1> QED
  BY <1>3, <1>4, <1>5, CopyShown

LEMMA FreePromised ==
  ASSUME ListInv, NEW l \in List, Free(l)
  PROVE  Promise!Close(l)
<1>1. list'[l] = NoList /\ Others(l) /\ answer' = [answer EXCEPT ![l] = NoRow]
  BY DEF Free, ListInv, Others
<1>2. \A s : ContentOf(NoList, s) = << >> /\ YieldedOf(NoList, s) = 0
  BY DEF ContentOf, YieldedOf, NoList
<1>3. Content'[l] = << >> /\ Yielded'[l] = 0
  BY <1>1, <1>2, OneContent
<1> QED
  BY <1>1, <1>3, OneContent DEF Promise!Close

\* Each step of a list is one of the promise, or changes nothing of it.
LEMMA StepPromised ==
  ListInv /\ [ListStep]_listVars => [Promise!Next]_(Promise!vars)
<1> SUFFICES ASSUME ListInv, [ListStep]_listVars PROVE [Promise!Next]_(Promise!vars)
  OBVIOUS
<1>1. CASE UNCHANGED listVars
  BY <1>1 DEF listVars, Promise!vars, Content, Yielded
<1>2. CASE ListStep
  <2>1. PICK l \in List :
          \/ \E rows \in Seq(Row), restarts \in BOOLEAN, size \in Int :
               Open(l, rows, restarts, size)
          \/ \E rows \in Seq(Row) : Fill(l, rows)
          \/ Walk(l)
    BY <1>2 DEF ListStep
  <2>2. CASE Walk(l)
    BY <2>2, BeginPromised, ListNextPromised, FetchAllPromised, FreePromised,
       NewCopyPromised, CopyFailsPromised DEF Walk, Promise!Next
  <2>3. CASE \E rows \in Seq(Row), restarts \in BOOLEAN, size \in Int :
               Open(l, rows, restarts, size)
    BY <2>3, OpenPromised DEF Promise!Next
  <2>4. CASE \E rows \in Seq(Row) : Fill(l, rows)
    BY <2>4, FillPromised DEF Promise!Next
  <2> QED
    BY <2>1, <2>2, <2>3, <2>4
<1> QED
  BY <1>1, <1>2

----------------------------------------------------------------------------
(* The theorems about result lists                                         *)

(***************************************************************************)
(* Every list is in order after any calls of libdbo_result.c: what a list  *)
(* in memory, one over a statement, and one that is not made have in them  *)
(* is what a free, a fetch and a copy go by.                               *)
(***************************************************************************)
THEOREM ListInvAlways == ListSpec => []ListInv
BY ListInvInit, ListInvStep, PTL DEF ListSpec

(***************************************************************************)
(* The lists, the statements and the results a program has stay what they  *)
(* are.                                                                    *)
(***************************************************************************)
THEOREM ListTypeAlways == ListSpec => []ListTypeOK
BY ListInvAlways, ListInvGives, PTL

(***************************************************************************)
(* However a program walks, loads, copies and frees its lists, every       *)
(* result belongs to one list, once, and every open statement to a list    *)
(* that reads from it (libdbo_result_list_free frees each of them once).   *)
(***************************************************************************)
THEOREM OwnedOnceAlways == ListSpec => []OwnedOnce
BY ListInvAlways, ListInvGives, PTL

(***************************************************************************)
(* libdbo_result_list_size is the number of results of a list in memory,   *)
(* whatever size its backend had told.                                     *)
(***************************************************************************)
THEOREM SizeTellsAlways == ListSpec => []SizeTells
BY ListInvAlways, ListInvGives, PTL

(***************************************************************************)
(* The lists keep the promise of RowList: whether the rows come from       *)
(* memory or from a statement of any backend, they are yielded in order,   *)
(* and lost or started over only at a NULL.                                *)
(***************************************************************************)
THEOREM KeepsRowsAlways == ListSpec => KeepsRows
<1>1. ListInit => Promise!Init
  BY PromiseInit
<1>2. ListInv /\ [ListStep]_listVars => [Promise!Next]_(Promise!vars)
  BY StepPromised
<1> QED
  BY <1>1, <1>2, ListInvAlways, PTL DEF ListSpec, KeepsRows

----------------------------------------------------------------------------
(* The program: its objects, its clause lists and what it has read         *)

\* A clause in the list of a number: a list that comes before, or a comparison
\* with a key or with a value of the field.
MadeOf(c, n) ==
  /\ c.operator \in {"AND", "OR"}
  /\ \/ /\ c = Nested(c.operator, c.list)
        /\ c.list \in 1 .. n - 1
     \/ /\ c = Comparison(c.type, c.operator, c.field, c.value)
        /\ c.type \in Comparisons \cup NullTests
        /\ \/ c.field = "key" /\ \E k \in Keys : c.value = KeyColumn(backend, k)
           \/ /\ c.field = "field"
              /\ c.value.val \in Domain(kind)
              /\ c.value = FieldValue(kind, c.value.val)

\* CouchDB is given no list with another one in it.
ClausesOK ==
  /\ clauseLists \in Seq(Seq(Clause)) /\ Top > 0
  /\ backend = "couchdb" => Top = 1
  /\ \A n \in DOMAIN clauseLists : \A i \in DOMAIN clauseLists[n] :
       MadeOf(clauseLists[n][i], n)

\* What an object was given, and what the backend keeps of it.
TableOK ==
  /\ Len(table) \in 0 .. MaxObjects
  /\ table \in Seq([given : Domain(kind), kept : Int])
  /\ \A k \in DOMAIN table :
       /\ table[k].given \in Samples[kind]
       /\ table[k].kept = Stored(backend, FieldValue(kind, table[k].given))

\* The rows of a list are objects of the table.
ContentOK ==
  \A l \in List : \A i \in DOMAIN Content[l] :
    \E k \in DOMAIN table : Content[l][i] = ResultOf(k)

Inv ==
  /\ backend \in Backends /\ kind \in Kinds /\ others \in BOOLEAN
  /\ counted \in -1 .. MaxObjects
  /\ ClausesOK /\ TableOK /\ ContentOK /\ ListInv

LEMMA HalvesAre ==
  /\ Half32 \in Nat /\ Half32 > 0 /\ Half64 \in Nat /\ Half32 < Half64
  /\ EnumSet \subseteq 0 .. Half32 - 1
BY HalvesType, EnumSetType

LEMMA NumbersAreInts ==
  ASSUME NEW t \in Kinds
  PROVE  Domain(t) \subseteq Int
BY HalvesAre DEF Kinds, Domain

\* What is kept of a field, by any backend.
LEMMA FieldIs ==
  ASSUME backend \in Backends, kind \in Kinds, NEW n \in Domain(kind)
  PROVE  /\ FieldValue(kind, n) = [type |-> kind, val |-> n]
         /\ FieldValue(kind, n) # Error /\ n \in Int
         /\ Stored(backend, FieldValue(kind, n)) \in Int
         /\ FieldValue(kind, n) \in [type : Types, val : Int]
<1>1. FieldValue(kind, n) = [type |-> kind, val |-> n]
  BY FieldValueIs
<1>2. n \in Int
  BY NumbersAreInts
<1>3. kind # "ERROR" /\ kind \in Types
  BY DEF Kinds, Types
<1> DEFINE v == [type |-> kind, val |-> n]
<1>4. SqliteBind(v) \in Int /\ MysqlBind(v) \in Int /\ CouchMember(v) \in Int
  BY <1>2, HalvesAre DEF SqliteBind, MysqlBind, CouchMember, AsSigned
<1>5. Stored(backend, v) \in Int
  BY <1>4 DEF Stored, Backends
<1>6. v \in [type : Types, val : Int]
  BY <1>2, <1>3
<1>7. v # Error
  BY <1>3 DEF Error
<1> QED
  BY <1>1, <1>2, <1>5, <1>6, <1>7

\* A number that is accepted for a field is one of its type.
LEMMA AcceptedIs ==
  ASSUME kind \in Kinds, NEW n \in Given(kind), FieldValue(kind, n) # Error
  PROVE  n \in Domain(kind)
<1>1. CASE kind = "ENUM"
  BY <1>1 DEF FieldValue, FromEnumValue, Domain
<1>2. CASE kind # "ENUM"
  BY <1>2 DEF Given
<1> QED
  BY <1>1, <1>2

\* The type of a primary key.
KeyType ==
  IF backend = "sqlite" THEN "INT32"
  ELSE IF backend = "mysql" THEN "UINT64" ELSE "TEXT"

\* What is seen of a primary key: SQLite's is a signed int.
KeySeen(k) == IF backend = "sqlite" THEN Narrow(k) ELSE k

LEMMA NarrowIsInt ==
  ASSUME NEW n \in Int
  PROVE  Narrow(n) \in Int
BY HalvesAre DEF Narrow, Domain

LEMMA KeyIs ==
  ASSUME backend \in Backends, NEW k \in Int
  PROVE  /\ KeyColumn(backend, k) = [type |-> KeyType, val |-> KeySeen(k)]
         /\ KeySeen(k) \in Int
         /\ KeyColumn(backend, k) \in [type : Types, val : Int]
         /\ KeyColumn(backend, k) # Empty /\ KeyColumn(backend, k) # Error
         /\ KeyType \notin {"EMPTY", "ERROR"}
<1>1. KeyColumn(backend, k) = [type |-> KeyType, val |-> KeySeen(k)]
  <2>1. CASE backend = "sqlite"
    BY <2>1 DEF KeyColumn, From, KeyType, KeySeen
  <2>2. CASE backend = "mysql"
    BY <2>2 DEF KeyColumn, From, KeyType, KeySeen
  <2>3. CASE backend = "couchdb"
    BY <2>3 DEF KeyColumn, From, KeyType, KeySeen
  <2> QED
    BY <2>1, <2>2, <2>3 DEF Backends
<1>2. KeySeen(k) \in Int
  BY NarrowIsInt DEF KeySeen
<1>3. KeyType \in Types /\ KeyType \notin {"EMPTY", "ERROR"}
  BY DEF KeyType, Types
<1> QED
  BY <1>1, <1>2, <1>3 DEF Empty, Error

\* A clause for each list it may be in is a clause, and not an empty one.
LEMMA MadeIsClause ==
  ASSUME backend \in Backends, kind \in Kinds,
         NEW c, NEW n \in Nat, MadeOf(c, n)
  PROVE  /\ c \in Clause /\ NotEmpty(c)
         /\ c.type = "NESTED" => c.list \in 1 .. n - 1
<1>0. c.operator \in {"AND", "OR"}
  BY DEF MadeOf
<1>1. CASE c = Nested(c.operator, c.list) /\ c.list \in 1 .. n - 1
  <2> DEFINE o == c.operator
             l == c.list
  <2>1. Nested(o, l) \in Clause /\ NotEmpty(Nested(o, l))
    <3>1. l \in Nat /\ l # 0
      BY <1>1
    <3>2. Empty \in [type : Types, val : Int]
      BY DEF Empty, Types
    <3>3. o \in {"AND", "OR"}
      BY <1>0
    <3> HIDE DEF l, o
    <3> QED
      BY <3>1, <3>2, <3>3 DEF Clause, Nested, NotEmpty, NoClauseList
  <2> HIDE DEF o, l
  <2> QED
    BY <1>1, <2>1 DEF o, l
<1>2. CASE /\ c = Comparison(c.type, c.operator, c.field, c.value)
           /\ c.type \in Comparisons \cup NullTests
           /\ \/ c.field = "key" /\ \E k \in Keys : c.value = KeyColumn(backend, k)
              \/ /\ c.field = "field"
                 /\ c.value.val \in Domain(kind)
                 /\ c.value = FieldValue(kind, c.value.val)
  <2> DEFINE t == c.type
             o == c.operator
             f == c.field
             v == c.value
  <2>1. v \in [type : Types, val : Int] /\ v.type \notin {"EMPTY", "ERROR"}
    <3>1. CASE \E k \in Keys : c.value = KeyColumn(backend, k)
      <4>1. PICK k \in Keys : c.value = KeyColumn(backend, k)
        BY <3>1
      <4>2. k \in Int
        BY MaxObjectsType DEF Keys
      <4> QED
        BY <4>1, <4>2, KeyIs
    <3>2. CASE c.value.val \in Domain(kind) /\ c.value = FieldValue(kind, c.value.val)
      BY <3>2, FieldIs DEF Kinds
    <3> QED
      BY <1>2, <3>1, <3>2
  <2>2. t \in Comparisons \cup NullTests /\ o \in {"AND", "OR"} /\ f \in {"key", "field"}
    BY <1>0, <1>2
  <2>3. t # "NESTED"
    BY <2>2 DEF Comparisons, NullTests
  <2>4. c = Comparison(t, o, f, v)
    BY <1>2
  <2> HIDE DEF t, o, f, v
  <2>5. Comparison(t, o, f, v) \in Clause
    BY <2>1, <2>2 DEF Comparison, Clause, NoClauseList
  <2>6. NotEmpty(Comparison(t, o, f, v)) /\ Comparison(t, o, f, v).type # "NESTED"
    BY <2>1, <2>2, <2>3 DEF Comparison, NotEmpty
  <2> QED
    BY <2>4, <2>5, <2>6
<1> QED
  BY <1>1, <1>2, Zenon DEF MadeOf

\* The lists of a program are clause lists, one at least.
LEMMA ClausesAreLists ==
  ASSUME backend \in Backends, kind \in Kinds, ClausesOK
  PROVE  /\ AreLists(clauseLists) /\ clauseLists # << >> /\ Len(clauseLists) > 0
         /\ Len(clauseLists) \in Nat
         /\ ValidLists
<1>1. clauseLists \in Seq(Seq(Clause)) /\ Len(clauseLists) > 0 /\ Len(clauseLists) \in Nat
  BY DEF ClausesOK, Top
<1>2. ASSUME NEW n \in DOMAIN clauseLists, NEW i \in DOMAIN clauseLists[n]
      PROVE  /\ NotEmpty(clauseLists[n][i])
             /\ clauseLists[n][i].type = "NESTED" => clauseLists[n][i].list \in 1 .. n - 1
  <2>1. n \in Nat /\ clauseLists[n] \in Seq(Clause)
    BY <1>1
  <2>2. MadeOf(clauseLists[n][i], n)
    BY DEF ClausesOK
  <2> QED
    BY <2>1, <2>2, MadeIsClause
<1>3. clauseLists # << >>
  BY <1>1
<1>4. AreLists(clauseLists)
  BY <1>1, <1>2 DEF AreLists
<1>5. ValidLists
  BY <1>2 DEF ValidLists
<1> QED
  BY <1>1, <1>3, <1>4, <1>5

----------------------------------------------------------------------------
(* What a step of the program leaves as it is                              *)

LEMMA ClausesKept ==
  ASSUME ClausesOK, UNCHANGED <<setting, clauseLists>>
  PROVE  ClausesOK'
BY DEF ClausesOK, setting, MadeOf, Top

LEMMA TableKept ==
  ASSUME TableOK, UNCHANGED <<setting, table>>
  PROVE  TableOK'
BY DEF TableOK, setting

LEMMA ContentKept ==
  ASSUME ContentOK, UNCHANGED <<setting, table>>, UNCHANGED listVars
  PROVE  ContentOK'
<1>1. Content' = Content
  BY DEF Content, listVars
<1>2. \A k : ResultOf(k)' = ResultOf(k)
  BY DEF ResultOf, setting
<1> QED
  BY <1>1, <1>2 DEF ContentOK

LEMMA ListsKept ==
  ASSUME ListInv, UNCHANGED listVars
  PROVE  ListInv'
BY DEF ListInv, listVars

\* A program that has freed its lists has an empty one.
LEMMA NoClausesOK ==
  ASSUME clauseLists' = NoClauses
  PROVE  ClausesOK'
<1> DEFINE one == << << >> >>
<1>1. << >> \in Seq(Clause)
  OBVIOUS
<1>2. one \in Seq(Seq(Clause)) /\ Len(one) = 1 /\ DOMAIN one = {1} /\ one[1] = << >>
  BY <1>1
<1>3. clauseLists' = one
  BY DEF NoClauses
<1> HIDE DEF one
<1>4. \A n \in DOMAIN clauseLists' : \A i \in DOMAIN clauseLists'[n] : FALSE
  BY <1>2, <1>3
<1> QED
  BY <1>2, <1>3, <1>4 DEF ClausesOK, Top

LEMMA InvInit == Init => Inv
<1> SUFFICES ASSUME Init PROVE Inv
  OBVIOUS
<1>1. backend \in Backends /\ kind \in Kinds /\ others \in BOOLEAN
  BY DEF Init
<1>2. counted \in -1 .. MaxObjects
  BY MaxObjectsType DEF Init, None
<1>3. ClausesOK
  <2> DEFINE one == << << >> >>
  <2>1. << >> \in Seq(Clause)
    OBVIOUS
  <2>2. one \in Seq(Seq(Clause)) /\ Len(one) = 1 /\ DOMAIN one = {1} /\ one[1] = << >>
    BY <2>1
  <2>3. clauseLists = one
    BY DEF Init, NoClauses
  <2> HIDE DEF one
  <2>4. \A n \in DOMAIN clauseLists : \A i \in DOMAIN clauseLists[n] : FALSE
    BY <2>2, <2>3
  <2> QED
    BY <2>2, <2>3, <2>4 DEF ClausesOK, Top
<1>4. TableOK
  <2>1. table = << >>
    BY DEF Init
  <2>2. Len(table) = 0 /\ table \in Seq([given : Domain(kind), kept : Int])
        /\ DOMAIN table = {}
    BY <2>1
  <2> QED
    BY <2>2, MaxObjectsType DEF TableOK
<1>5. ListInv
  BY ListInvInit DEF Init
<1>6. ContentOK
  <2>1. \A l \in List : Content[l] = << >>
    BY DEF Init, ListInit, Content, NoList
  <2> QED
    BY <2>1 DEF ContentOK
<1> QED
  BY <1>1, <1>2, <1>3, <1>4, <1>5, <1>6 DEF Inv

----------------------------------------------------------------------------
(* The program keeps the invariant                                         *)

LEMMA CreateKeeps ==
  ASSUME Inv, NEW n \in Samples[kind], Create(n)
  PROVE  Inv'
<1> DEFINE v == FieldValue(kind, n)
           o == [given |-> n, kept |-> Stored(backend, v)]
           D == [given : Domain(kind), kept : Int]
<1>1. /\ v # Error /\ table' = Append(table, o) /\ Len(table) < MaxObjects
      /\ NoneInUse /\ counted' = None
      /\ UNCHANGED <<setting, clauseLists, listVars>>
  BY DEF Create
<1>2. backend \in Backends /\ kind \in Kinds /\ others \in BOOLEAN
  BY DEF Inv
<1>3. n \in Given(kind)
  BY <1>2, SamplesType
<1>4. n \in Domain(kind)
  BY <1>1, <1>2, <1>3, AcceptedIs
<1>5. o \in D
  BY <1>2, <1>4, FieldIs
<1>6. table \in Seq(D) /\ Len(table) \in Nat
  BY DEF Inv, TableOK
<1>7. UNCHANGED <<backend, kind, others>>
  BY <1>1 DEF setting
<1>8. TableOK'
  <2> HIDE DEF D
  <2>1. /\ table' \in Seq(D) /\ Len(table') = Len(table) + 1
        /\ \A k \in 1 .. Len(table') :
             table'[k] = IF k = Len(table) + 1 THEN o ELSE table[k]
    BY <1>1, <1>5, <1>6, AppendProperties
  <2>2. Len(table') \in 0 .. MaxObjects
    BY <1>1, <1>6, <2>1, MaxObjectsType
  <2>3. table' \in Seq(D')
    BY <1>7, <2>1 DEF D
  <2>4. DOMAIN table = 1 .. Len(table) /\ DOMAIN table' = 1 .. Len(table')
    BY <1>6, <2>1
  <2>5. ASSUME NEW k \in DOMAIN table'
        PROVE  /\ table'[k].given \in Samples[kind']
               /\ table'[k].kept = Stored(backend', FieldValue(kind', table'[k].given))
    <3>1. CASE k = Len(table) + 1
      <4>1. table'[k] = o
        BY <2>1, <2>4, <3>1
      <4> QED
        BY <1>7, <4>1
    <3>2. CASE k # Len(table) + 1
      <4>1. k \in DOMAIN table /\ table'[k] = table[k]
        BY <1>6, <2>1, <2>4, <3>2
      <4> QED
        BY <1>7, <4>1 DEF Inv, TableOK
    <3> QED
      BY <3>1, <3>2
  <2> QED
    BY <2>2, <2>3, <2>5 DEF TableOK, D
<1>9. ClausesOK'
  BY <1>1, ClausesKept DEF Inv
<1>10. ListInv'
  BY <1>1, ListsKept DEF Inv
<1>11. ContentOK'
  <2>1. \A l \in List : Content[l] = << >>
    BY <1>1, UnmadeHasNone DEF Inv, NoneInUse
  <2>2. Content' = Content
    BY <1>1 DEF Content, listVars
  <2> QED
    BY <2>1, <2>2 DEF ContentOK
<1>12. counted' \in -1 .. MaxObjects
  BY <1>1, MaxObjectsType DEF None
<1> QED
  BY <1>2, <1>7, <1>8, <1>9, <1>10, <1>11, <1>12 DEF Inv

\* A step that only changes the clause lists, or frees them, or what was counted.
LEMMA OnlyClauses ==
  ASSUME Inv, UNCHANGED <<setting, table, listVars>>, ClausesOK',
         counted' \in -1 .. MaxObjects
  PROVE  Inv'
<1>1. TableOK'
  BY TableKept DEF Inv
<1>2. ContentOK'
  BY ContentKept DEF Inv
<1>3. ListInv'
  BY ListsKept DEF Inv
<1> QED
  BY <1>1, <1>2, <1>3 DEF Inv, setting

\* The lists, and a list of them.
LEMMA TopIs ==
  ASSUME ClausesOK
  PROVE  /\ clauseLists \in Seq(Seq(Clause)) /\ Top = Len(clauseLists)
         /\ Top \in Nat /\ Top \in DOMAIN clauseLists
         /\ DOMAIN clauseLists = 1 .. Top
         /\ Clauses \in Seq(Clause) /\ Len(Clauses) \in Nat
         /\ DOMAIN Clauses = 1 .. Len(Clauses)
<1>1. /\ clauseLists \in Seq(Seq(Clause)) /\ Top = Len(clauseLists)
      /\ Top \in Nat /\ Top \in DOMAIN clauseLists
      /\ DOMAIN clauseLists = 1 .. Top
  BY DEF ClausesOK, Top
<1>2. Clauses \in Seq(Clause)
  BY <1>1 DEF Clauses
<1> QED
  BY <1>1, <1>2

\* A clause that is made for the list of the program is added to it.
LEMMA AddedOK ==
  ASSUME Inv, NEW c, MadeOf(c, Top) \/ ~NotEmpty(c),
         NEW next, next = ListAdd(Clauses, c),
         clauseLists' = [clauseLists EXCEPT ![Top] = next],
         UNCHANGED <<backend, kind, others>>
  PROVE  ClausesOK'
<1>1. backend \in Backends /\ kind \in Kinds /\ ClausesOK
  BY DEF Inv
<1>2. clauseLists' = [clauseLists EXCEPT ![Top] = next]
  OBVIOUS
<1>3. /\ clauseLists \in Seq(Seq(Clause)) /\ Top = Len(clauseLists)
      /\ Top \in Nat /\ Top \in DOMAIN clauseLists
      /\ Clauses \in Seq(Clause) /\ Len(Clauses) \in Nat
  BY <1>1, TopIs
<1>4. \A i \in DOMAIN Clauses : MadeOf(Clauses[i], Top)
  BY <1>1, <1>3 DEF ClausesOK, Clauses
<1>5. /\ next \in Seq(Clause)
      /\ \A i \in DOMAIN next : MadeOf(next[i], Top)
  <2>1. CASE ~NotEmpty(c)
    BY <1>3, <1>4, <2>1 DEF ListAdd
  <2>2. CASE NotEmpty(c)
    <3>1. MadeOf(c, Top) /\ next = Append(Clauses, c)
      BY <2>2 DEF ListAdd
    <3>2. c \in Clause
      BY <1>1, <1>3, <3>1, MadeIsClause
    <3>3. /\ next \in Seq(Clause) /\ DOMAIN next = 1 .. Len(Clauses) + 1
          /\ \A i \in DOMAIN next :
               next[i] = IF i = Len(Clauses) + 1 THEN c ELSE Clauses[i]
      BY <1>3, <3>1, <3>2, AppendProperties
    <3>4. ASSUME NEW i \in DOMAIN next
          PROVE  MadeOf(next[i], Top)
      <4>1. CASE i = Len(Clauses) + 1
        BY <3>1, <3>3, <4>1
      <4>2. CASE i # Len(Clauses) + 1
        <5>1. i \in DOMAIN Clauses
          BY <1>3, <3>3, <4>2
        <5> QED
          BY <1>4, <3>3, <4>2, <5>1
      <4> QED
        BY <4>1, <4>2
    <3> QED
      BY <3>3, <3>4
  <2> QED
    BY <2>1, <2>2
<1>6. /\ clauseLists' \in Seq(Seq(Clause)) /\ Len(clauseLists') = Len(clauseLists)
      /\ DOMAIN clauseLists' = DOMAIN clauseLists
      /\ \A n \in DOMAIN clauseLists :
           clauseLists'[n] = IF n = Top THEN next ELSE clauseLists[n]
  <2>1. next \in Seq(Clause)
    BY <1>5
  <2> QED
    BY <1>2, <1>3, <2>1, ExceptSeq
<1>7. ASSUME NEW n \in DOMAIN clauseLists', NEW i \in DOMAIN clauseLists'[n]
      PROVE  MadeOf(clauseLists'[n][i], n)
  <2>1. CASE n = Top
    BY <1>5, <1>6, <2>1
  <2>2. CASE n # Top
    BY <1>1, <1>6, <2>2 DEF ClausesOK
  <2> QED
    BY <2>1, <2>2
<1> QED
  BY <1>1, <1>6, <1>7 DEF ClausesOK, Top, setting, MadeOf

\* A value is only copied from one that is set.
LEMMA ClauseValueIs ==
  ASSUME backend \in Backends, kind \in Kinds
  PROVE  /\ \A k \in Keys : ClauseValue("key", k) = KeyColumn(backend, k)
         /\ \A n : ClauseValue("field", n) = FieldValue(kind, n)
<1>1. ASSUME NEW k \in Keys
      PROVE  ClauseValue("key", k) = KeyColumn(backend, k)
  <2>1. k \in Int
    BY MaxObjectsType DEF Keys
  <2>2. KeyColumn(backend, k) # Empty
    BY <2>1, KeyIs
  <2> QED
    BY <2>2 DEF ClauseValue, Copy
<1> QED
  BY <1>1 DEF ClauseValue

\* A clause the program makes goes into any list, or is an empty one.
LEMMA NewClauseIs ==
  ASSUME Inv, NEW c \in NewClauses(ClauseTypes), NEW n
  PROVE  MadeOf(c, n) \/ ~NotEmpty(c)
<1>1. backend \in Backends /\ kind \in Kinds
  BY DEF Inv
<1>2. PICK type \in ClauseTypes, operator \in {"AND", "OR"}, field \in {"key", "field"},
           m \in Keys \cup Samples[kind] :
        /\ c = Comparison(type, operator, field, ClauseValue(field, m))
        /\ field = "key" => m \in Keys
        /\ field = "field" => m \in Samples[kind]
  BY DEF NewClauses
<1> DEFINE v == ClauseValue(field, m)
<1>3. type \in Comparisons \cup NullTests /\ type # "NESTED"
  BY ClauseTypesType DEF Comparisons, NullTests
<1>4. c = Comparison(type, operator, field, v)
  BY <1>2
<1>5. field = "key" => \E k \in Keys : v = KeyColumn(backend, k)
  BY <1>1, <1>2, ClauseValueIs
<1>6. field = "field" => \/ v.val \in Domain(kind) /\ v = FieldValue(kind, v.val)
                         \/ v = Error
  <2>1. CASE field = "field" /\ FieldValue(kind, m) # Error
    <3>1. m \in Given(kind)
      BY <1>1, <1>2, <2>1, SamplesType
    <3>2. m \in Domain(kind)
      BY <1>1, <2>1, <3>1, AcceptedIs
    <3>3. v = FieldValue(kind, m) /\ FieldValue(kind, m).val = m
      BY <1>1, <2>1, <3>2, ClauseValueIs, FieldIs
    <3> QED
      BY <3>2, <3>3
  <2>2. CASE field = "field" /\ FieldValue(kind, m) = Error
    BY <1>1, <2>2, ClauseValueIs
  <2> QED
    BY <2>1, <2>2
<1> HIDE DEF v
<1>7. /\ c.type = type /\ c.operator = operator /\ c.field = field /\ c.value = v
  BY <1>4 DEF Comparison
<1>8. CASE field = "field" /\ v = Error
  <2>1. c.value.type = "ERROR"
    BY <1>7, <1>8 DEF Error
  <2> QED
    BY <1>3, <1>7, <2>1 DEF NotEmpty
<1>9. CASE ~(field = "field" /\ v = Error)
  <2>1. \/ c.field = "key" /\ \E k \in Keys : c.value = KeyColumn(backend, k)
        \/ /\ c.field = "field"
           /\ c.value.val \in Domain(kind)
           /\ c.value = FieldValue(kind, c.value.val)
    BY <1>5, <1>6, <1>7, <1>9
  <2>2. c = Comparison(c.type, c.operator, c.field, c.value)
    BY <1>4, <1>7
  <2>3. c.type \in Comparisons \cup NullTests
    BY <1>3, <1>7
  <2> QED
    BY <1>7, <2>1, <2>2, <2>3, Zenon DEF MadeOf
<1> QED
  BY <1>8, <1>9

LEMMA NoneCounted == None \in -1 .. MaxObjects
BY MaxObjectsType DEF None

LEMMA AddClauseKeeps ==
  ASSUME Inv, AddClause
  PROVE  Inv'
<1>1. PICK c \in NewClauses(ClauseTypes) :
        clauseLists' = [clauseLists EXCEPT ![Top] = ListAdd(@, c)]
  BY DEF AddClause
<1>2. UNCHANGED <<setting, table, listVars>> /\ counted' = None
  BY DEF AddClause
<1>3. MadeOf(c, Top) \/ ~NotEmpty(c)
  BY NewClauseIs
<1>4. ClausesOK'
  <2> DEFINE next == ListAdd(Clauses, c)
  <2>1. /\ UNCHANGED <<backend, kind, others>>
        /\ clauseLists' = [clauseLists EXCEPT ![Top] = next]
    BY <1>1, <1>2 DEF Clauses, setting
  <2>2. next = ListAdd(Clauses, c)
    OBVIOUS
  <2> HIDE DEF next
  <2> QED
    BY <1>3, <2>1, <2>2, AddedOK
<1> QED
  BY <1>2, <1>4, NoneCounted, OnlyClauses

LEMMA AddNestedKeeps ==
  ASSUME Inv, AddNested
  PROVE  Inv'
<1>1. PICK n \in Loose, operator \in {"AND", "OR"} :
        clauseLists' = [clauseLists EXCEPT ![Top] = ListAdd(@, Nested(operator, n))]
  BY DEF AddNested
<1>2. UNCHANGED <<setting, table, listVars>> /\ counted' = None
  BY DEF AddNested
<1> DEFINE c == Nested(operator, n)
<1>3. n \in 1 .. Top - 1
  BY DEF Loose
<1>4. c.operator = operator /\ c.list = n
  BY DEF Nested
<1>5. MadeOf(c, Top)
  BY <1>3, <1>4 DEF MadeOf
<1> HIDE DEF c
<1>6. clauseLists' = [clauseLists EXCEPT ![Top] = ListAdd(@, c)]
  BY <1>1 DEF c
<1>7. ClausesOK'
  <2> DEFINE next == ListAdd(Clauses, c)
  <2>1. /\ UNCHANGED <<backend, kind, others>>
        /\ clauseLists' = [clauseLists EXCEPT ![Top] = next]
    BY <1>2, <1>6 DEF Clauses, setting
  <2>2. next = ListAdd(Clauses, c)
    OBVIOUS
  <2> HIDE DEF next
  <2> QED
    BY <1>5, <2>1, <2>2, AddedOK
<1> QED
  BY <1>2, <1>7, NoneCounted, OnlyClauses

LEMMA NewListKeeps ==
  ASSUME Inv, NewList
  PROVE  Inv'
<1>1. /\ clauseLists' = Append(clauseLists, << >>) /\ backend # "couchdb"
      /\ UNCHANGED <<setting, table, listVars>> /\ counted' = None
  BY DEF NewList
<1>2. ClausesOK
  BY DEF Inv
<1>3. /\ clauseLists \in Seq(Seq(Clause)) /\ Top = Len(clauseLists)
      /\ Top \in Nat /\ DOMAIN clauseLists = 1 .. Top
  BY <1>2, TopIs
<1> DEFINE none == << >>
<1>4. none \in Seq(Clause) /\ DOMAIN none = {}
  OBVIOUS
<1>5. clauseLists' = Append(clauseLists, none)
  BY <1>1
<1> HIDE DEF none
<1>6. /\ clauseLists' \in Seq(Seq(Clause)) /\ Len(clauseLists') = Top + 1
      /\ DOMAIN clauseLists' = 1 .. Top + 1
      /\ \A n \in 1 .. Top + 1 :
           clauseLists'[n] = IF n = Top + 1 THEN none ELSE clauseLists[n]
  BY <1>3, <1>4, <1>5, AppendProperties
<1>7. ASSUME NEW n \in DOMAIN clauseLists', NEW i \in DOMAIN clauseLists'[n]
      PROVE  MadeOf(clauseLists'[n][i], n)
  <2>1. n # Top + 1
    BY <1>4, <1>6
  <2>2. n \in DOMAIN clauseLists /\ clauseLists'[n] = clauseLists[n]
    BY <1>3, <1>6, <2>1
  <2> QED
    BY <1>2, <2>2 DEF ClausesOK
<1>8. Len(clauseLists') > 0 /\ backend' # "couchdb"
  BY <1>1, <1>3, <1>6 DEF setting
<1>9. ClausesOK'
  BY <1>1, <1>6, <1>7, <1>8 DEF ClausesOK, Top, setting, MadeOf
<1> QED
  BY <1>1, <1>9, NoneCounted, OnlyClauses

LEMMA ReadFailsKeeps ==
  ASSUME Inv, ReadFails
  PROVE  Inv'
BY NoClausesOK, NoneCounted, OnlyClauses DEF ReadFails, ClausesFreed

\* What is selected are objects, so that no more are counted than there are.
LEMMA CountKeeps ==
  ASSUME Inv, NEW all \in BOOLEAN, Count(all)
  PROVE  Inv'
<1>1. counted' \in {Cardinality(SelectedRows(all)), None} /\ ClausesFreed
      /\ UNCHANGED <<setting, table, listVars>>
  BY DEF Count
<1>2. Len(table) \in 0 .. MaxObjects /\ DOMAIN table = 1 .. Len(table)
  BY DEF Inv, TableOK
<1>3. IsFiniteSet(1 .. Len(table)) /\ Cardinality(1 .. Len(table)) = Len(table)
  <2> DEFINE N == Len(table)
  <2>1. N \in Nat
    BY <1>2, MaxObjectsType
  <2> HIDE DEF N
  <2>2. IsFiniteSet(1 .. N) /\ Cardinality(1 .. N) = IF 1 > N THEN 0 ELSE N - 1 + 1
    BY <2>1, FS_Interval
  <2>3. IsFiniteSet(1 .. N) /\ Cardinality(1 .. N) = N
    BY <2>1, <2>2
  <2> QED
    BY <2>3 DEF N
<1>4. SelectedRows(all) \in SUBSET (1 .. Len(table))
  BY <1>2 DEF SelectedRows
<1>5. /\ Cardinality(SelectedRows(all)) <= Len(table)
      /\ Cardinality(SelectedRows(all)) \in Nat
  BY <1>3, <1>4, FS_Subset, FS_CardinalityType
<1>6. counted' \in -1 .. MaxObjects
  BY <1>1, <1>2, <1>5, NoneCounted, MaxObjectsType
<1> QED
  BY <1>1, <1>6, NoClausesOK, OnlyClauses DEF ClausesFreed

----------------------------------------------------------------------------
(* Sets and their sequences                                                *)

\* A sequence of a set has each of its elements, once.
LEMMA SeqOfSet ==
  ASSUME NEW S, IsFiniteSet(S), NEW s \in SetToSeqs(S)
  PROVE  /\ s \in Seq(S) /\ Len(s) = Cardinality(S)
         /\ DOMAIN s = 1 .. Cardinality(S)
         /\ \A x \in S : \E i \in DOMAIN s : s[i] = x
<1> DEFINE N == Cardinality(S)
<1>1. N \in Nat
  BY FS_CardinalityType
<1>2. s \in [1 .. N -> S] /\ \A i, j \in 1 .. N : i # j => s[i] # s[j]
  BY DEF SetToSeqs
<1> HIDE DEF N
<1>3. IsFiniteSet(1 .. N) /\ Cardinality(1 .. N) = IF 1 > N THEN 0 ELSE N - 1 + 1
  BY <1>1, FS_Interval
<1>4. Cardinality(1 .. N) = N
  BY <1>1, <1>3
<1>5. s \in Injection(1 .. N, S)
  BY <1>2 DEF Injection, IsInjective
<1>6. s \in Surjection(1 .. N, S)
  BY <1>4, <1>5, FS_Injection DEF N
<1>7. \A x \in S : \E i \in 1 .. N : s[i] = x
  BY <1>6 DEF Surjection
<1>8. s \in Seq(S) /\ Len(s) = N /\ DOMAIN s = 1 .. N
  BY <1>1, <1>2
<1> QED
  BY <1>7, <1>8 DEF N

Ascends(s) == \A i, j \in DOMAIN s : i < j => s[i] < s[j]

\* A set with a greater element added: the greater one goes to the end.
LEMMA AppendGreater ==
  ASSUME NEW S \in SUBSET Nat, IsFiniteSet(S), NEW x \in Nat, \A y \in S : y < x,
         NEW s \in SetToSeqs(S), Ascends(s)
  PROVE  Append(s, x) \in SetToSeqs(S \cup {x}) /\ Ascends(Append(s, x))
<1> DEFINE N == Cardinality(S)
           t == Append(s, x)
<1>1. N \in Nat
  BY FS_CardinalityType
<1>2. s \in Seq(S) /\ Len(s) = N /\ DOMAIN s = 1 .. N
  BY SeqOfSet
<1>3. Cardinality(S \cup {x}) = N + 1
  <2>1. x \notin S
    OBVIOUS
  <2>2. Cardinality(S \cup {x}) = IF x \in S THEN N ELSE N + 1
    BY FS_AddElement
  <2> QED
    BY <2>1, <2>2, Zenon
<1> HIDE DEF N
<1>4. S \subseteq S \cup {x} /\ x \in S \cup {x}
  OBVIOUS
<1>5. s \in Seq(S \cup {x})
  BY <1>2, <1>4
<1>6. /\ t \in Seq(S \cup {x}) /\ Len(t) = N + 1
      /\ \A i \in 1 .. N : t[i] = s[i]
      /\ t[N + 1] = x
  BY <1>2, <1>4, <1>5, AppendProperties
<1> HIDE DEF t
<1>7. DOMAIN t = 1 .. N + 1 /\ t \in [1 .. N + 1 -> S \cup {x}]
  BY <1>1, <1>6
<1>8. ASSUME NEW i \in 1 .. N + 1, NEW j \in 1 .. N + 1, i < j
      PROVE  t[i] < t[j] /\ t[i] # t[j]
  <2>1. i \in 1 .. N /\ t[i] = s[i] /\ s[i] \in S
    BY <1>1, <1>2, <1>6, <1>8
  <2>2. CASE j = N + 1
    <3>1. t[j] = x /\ t[i] \in Nat /\ t[i] < x
      BY <1>6, <2>1, <2>2
    <3> QED
      BY <3>1
  <2>3. CASE j # N + 1
    <3>1. j \in 1 .. N /\ t[j] = s[j] /\ s[j] \in S
      BY <1>1, <1>2, <1>6, <2>3
    <3>2. s[i] < s[j]
      BY <1>2, <1>8, <2>1, <3>1 DEF Ascends
    <3>3. t[i] \in Nat /\ t[j] \in Nat /\ t[i] < t[j]
      BY <2>1, <3>1, <3>2
    <3> QED
      BY <3>3
  <2> QED
    BY <2>2, <2>3
<1>9. \A i, j \in 1 .. N + 1 : i # j => t[i] # t[j]
  <2> SUFFICES ASSUME NEW i \in 1 .. N + 1, NEW j \in 1 .. N + 1, i # j
               PROVE  t[i] # t[j]
    OBVIOUS
  <2>1. i < j \/ j < i
    BY <1>1
  <2> QED
    BY <1>8, <2>1
<1>10. t \in SetToSeqs(S \cup {x})
  BY <1>3, <1>7, <1>9 DEF SetToSeqs
<1>11. Ascends(t)
  BY <1>7, <1>8 DEF Ascends
<1> QED
  BY <1>10, <1>11 DEF t

\* The documents of a view can be sorted.
LEMMA SortedIs ==
  ASSUME NEW N \in Nat, NEW S \in SUBSET (1 .. N)
  PROVE  Sorted(S) \in SetToSeqs(S)
<1> DEFINE H == {n \in Nat : \A T \in SUBSET (1 .. n) : \E s \in SetToSeqs(T) : Ascends(s)}
<1>1. 0 \in H
  <2>1. ASSUME NEW T \in SUBSET (1 .. 0)
        PROVE  << >> \in SetToSeqs(T)
    <3>1. T = {}
      OBVIOUS
    <3>2. Cardinality(T) = 0
      BY <3>1, FS_EmptySet
    <3> QED
      BY <3>2 DEF SetToSeqs
  <2>2. Ascends(<< >>)
    BY DEF Ascends
  <2> QED
    BY <2>1, <2>2
<1>2. ASSUME NEW n \in 1 .. N, n - 1 \in H
      PROVE  n \in H
  <2>1. ASSUME NEW T \in SUBSET (1 .. n)
        PROVE  \E s \in SetToSeqs(T) : Ascends(s)
    <3> DEFINE R == T \ {n}
    <3>1. R \in SUBSET (1 .. n - 1)
      OBVIOUS
    <3>2. PICK r \in SetToSeqs(R) : Ascends(r)
      BY <1>2, <3>1
    <3>3. CASE n \in T
      <4>1. T = R \cup {n} /\ R \in SUBSET Nat /\ n \in Nat /\ \A y \in R : y < n
        BY <3>1, <3>3
      <4>2. IsFiniteSet(R)
        <5>1. IsFiniteSet(1 .. n - 1)
          BY FS_Interval
        <5> QED
          BY <3>1, <5>1, FS_Subset
      <4> HIDE DEF R
      <4>3. Append(r, n) \in SetToSeqs(T) /\ Ascends(Append(r, n))
        BY <3>2, <4>1, <4>2, AppendGreater
      <4> QED
        BY <4>3
    <3>4. CASE n \notin T
      <4>1. R = T
        BY <3>4
      <4> QED
        BY <3>2, <4>1
    <3> QED
      BY <3>3, <3>4
  <2> QED
    BY <2>1
<1> HIDE DEF H
<1>3. \A n \in 0 .. N : n \in H
  BY <1>1, <1>2, Onwards
<1>4. N \in H
  BY <1>3
<1>5. \E s \in SetToSeqs(S) : Ascends(s)
  BY <1>4 DEF H
<1> QED
  BY <1>5 DEF Sorted, Ascends

----------------------------------------------------------------------------
(* Reading and walking                                                     *)

\* The rows of a list that is read, and of the others.
LEMMA OpenShows ==
  ASSUME ListInv, NEW l \in List, NEW rows \in Seq(Row), NEW restarts, NEW size,
         Open(l, rows, restarts, size) \/ Fill(l, rows)
  PROVE  Content' = [Content EXCEPT ![l] = rows]
<1>1. CASE Open(l, rows, restarts, size)
  <2> DEFINE r == Reading(size)
             s == [open |-> TRUE, rows |-> rows, at |-> 0, restarts |-> restarts]
  <2>1. list'[l] = r /\ statement'[l] = s /\ Others(l)
    BY <1>1 DEF Open, ListInv, Others
  <2>2. ContentOf(r, s) = rows
    BY DEF ContentOf, Reading
  <2> HIDE DEF r, s
  <2> QED
    BY <2>1, <2>2, OneContent
<1>2. CASE Fill(l, rows)
  <2> DEFINE r == InMemory(rows, 0)
             s == statement[l]
  <2>1. list'[l] = r /\ statement'[l] = s /\ Others(l)
    BY <1>2 DEF Fill, ListInv, Others
  <2>2. ContentOf(r, s) = rows
    BY DEF ContentOf, InMemory
  <2> HIDE DEF r, s
  <2> QED
    BY <2>1, <2>2, OneContent
<1> QED
  BY <1>1, <1>2

\* What is known of the table.
LEMMA TableIs ==
  ASSUME Inv
  PROVE  /\ Len(table) \in Nat /\ DOMAIN table = 1 .. Len(table)
         /\ IsFiniteSet(DOMAIN table)
         /\ \A k \in DOMAIN table :
              /\ k \in Keys /\ k \in Int
              /\ table[k].given \in Domain(kind)
              /\ table[k].kept = Stored(backend, FieldValue(kind, table[k].given))
              /\ table[k].kept \in Int
              /\ ResultOf(k) \in Row
<1>1. Len(table) \in 0 .. MaxObjects /\ DOMAIN table = 1 .. Len(table)
  BY DEF Inv, TableOK
<1>2. Len(table) \in Nat
  BY <1>1, MaxObjectsType
<1>3. IsFiniteSet(1 .. Len(table))
  <2> DEFINE N == Len(table)
  <2>1. N \in Int
    BY <1>2
  <2> HIDE DEF N
  <2>2. IsFiniteSet(1 .. N)
    BY <2>1, FS_Interval
  <2> QED
    BY <2>2 DEF N
<1>4. ASSUME NEW k \in DOMAIN table
      PROVE  /\ k \in Keys /\ k \in Int
             /\ table[k].given \in Domain(kind)
             /\ table[k].kept = Stored(backend, FieldValue(kind, table[k].given))
             /\ table[k].kept \in Int
             /\ ResultOf(k) \in Row
  <2>1. k \in Keys /\ k \in Int
    BY <1>1, MaxObjectsType DEF Keys
  <2>2. table[k] \in [given : Domain(kind), kept : Int]
    <3> DEFINE D == [given : Domain(kind), kept : Int]
    <3>1. table \in Seq(D)
      BY DEF Inv, TableOK
    <3> HIDE DEF D
    <3>2. table[k] \in D
      BY <3>1
    <3> QED
      BY <3>2 DEF D
  <2>3. /\ table[k].given \in Samples[kind]
        /\ table[k].kept = Stored(backend, FieldValue(kind, table[k].given))
    BY DEF Inv, TableOK
  <2>4. backend \in Backends /\ kind \in Kinds
    BY DEF Inv
  <2>5. FieldValue(kind, table[k].given) # Error
    BY <2>2, <2>4, FieldIs
  <2>6. ResultOf(k) \in Row
    BY <2>1, <2>3, <2>4, <2>5, ResultsAreRows DEF ResultOf, Keys
  <2> QED
    BY <2>1, <2>2, <2>3, <2>6
<1> QED
  BY <1>1, <1>2, <1>3, <1>4

LEMMA ResultsAre ==
  ASSUME Inv, NEW keys \in Seq(DOMAIN table)
  PROVE  /\ Results(keys) \in Seq(Row) /\ Len(Results(keys)) = Len(keys)
         /\ DOMAIN Results(keys) = 1 .. Len(keys)
         /\ \A i \in 1 .. Len(keys) : Results(keys)[i] = ResultOf(keys[i])
<1>1. Len(keys) \in Nat /\ DOMAIN keys = 1 .. Len(keys)
      /\ \A i \in 1 .. Len(keys) : keys[i] \in DOMAIN table
  OBVIOUS
<1>2. \A i \in 1 .. Len(keys) : ResultOf(keys[i]) \in Row
  BY <1>1, TableIs
<1>3. Results(keys) = [i \in 1 .. Len(keys) |-> ResultOf(keys[i])]
  BY <1>1 DEF Results
<1> QED
  BY <1>1, <1>2, <1>3

LEMMA KeysOfTable ==
  ASSUME Inv, NEW S \in SUBSET DOMAIN table, NEW keys \in SetToSeqs(S)
  PROVE  keys \in Seq(DOMAIN table)
<1>1. IsFiniteSet(S)
  BY TableIs, FS_Subset
<1>2. keys \in Seq(S)
  BY <1>1, SeqOfSet
<1> QED
  BY <1>2

\* What a read of an SQL backend puts into the list: what is selected, once.
LEMMA SqlReads ==
  ASSUME Inv, NEW l \in List, NEW all \in BOOLEAN, SqlRead(l, all)
  PROVE  \E keys \in SetToSeqs(SelectedRows(all)) :
           /\ keys \in Seq(DOMAIN table)
           /\ \E restarts \in BOOLEAN, size \in Int : Open(l, Results(keys), restarts, size)
<1>1. PICK keys \in SetToSeqs(SelectedRows(all)) :
        Open(l, Results(keys), backend = "sqlite",
             IF backend = "sqlite" THEN 0 ELSE SizeUnknown)
  BY DEF SqlRead
<1>2. SelectedRows(all) \in SUBSET DOMAIN table
  BY DEF SelectedRows
<1>3. keys \in Seq(DOMAIN table)
  BY <1>2, KeysOfTable
<1>4. (backend = "sqlite") \in BOOLEAN
      /\ (IF backend = "sqlite" THEN 0 ELSE SizeUnknown) \in Int
  BY DEF SizeUnknown
<1> QED
  BY <1>1, <1>3, <1>4

\* What a read of CouchDB puts into the list.
LEMMA CouchReads ==
  ASSUME Inv, NEW l \in List, NEW all \in BOOLEAN, CouchRead(l, all)
  PROVE  \E keys \in Seq(DOMAIN table) :
           /\ Fill(l, Results(keys))
           /\ all => keys \in SetToSeqs(DOMAIN table)
           /\ ~all /\ OnlyIds(Clauses) =>
                keys = [i \in DOMAIN Clauses |-> Clauses[i].value.val]
           /\ ~all /\ ~OnlyIds(Clauses) => keys \in SetToSeqs(Emitted)
<1>1. Len(table) \in Nat /\ DOMAIN table = 1 .. Len(table)
  BY TableIs
<1>2. CASE all
  <2> DEFINE S == DOMAIN table
  <2>1. Sorted(S) \in SetToSeqs(S)
    BY <1>1, SortedIs
  <2>2. Fill(l, Results(Sorted(S)))
    BY <1>2 DEF CouchRead
  <2>3. Sorted(S) \in Seq(DOMAIN table)
    BY <2>1, KeysOfTable
  <2> QED
    BY <1>2, <2>1, <2>2, <2>3
<1>3. CASE ~all /\ OnlyIds(Clauses)
  <2> DEFINE keys == [i \in DOMAIN Clauses |-> Clauses[i].value.val]
  <2>1. Fill(l, Results(keys)) /\ \A i \in DOMAIN keys : keys[i] \in DOMAIN table
    BY <1>3 DEF CouchRead
  <2>2. Len(Clauses) \in Nat /\ DOMAIN Clauses = 1 .. Len(Clauses)
    BY TopIs DEF Inv
  <2>3. keys \in Seq(DOMAIN table)
    BY <2>1, <2>2
  <2> QED
    BY <1>3, <2>1, <2>3
<1>4. CASE ~all /\ ~OnlyIds(Clauses)
  <2>1. Emitted \in SUBSET DOMAIN table
    BY DEF Emitted
  <2>2. Sorted(Emitted) \in SetToSeqs(Emitted)
    BY <1>1, <2>1, SortedIs
  <2>3. Fill(l, Results(Sorted(Emitted)))
    BY <1>4 DEF CouchRead
  <2>4. Sorted(Emitted) \in Seq(DOMAIN table)
    BY <2>1, <2>2, KeysOfTable
  <2> QED
    BY <1>4, <2>2, <2>3, <2>4
<1> QED
  BY <1>2, <1>3, <1>4

\* A read is a step of the lists: one that is read has results of the table.
LEMMA ReadMakes ==
  ASSUME Inv, NEW l \in List, NEW all \in BOOLEAN, Read(l, all)
  PROVE  \E keys \in Seq(DOMAIN table) :
           /\ Results(keys) \in Seq(Row)
           /\ \/ \E restarts \in BOOLEAN, size \in Int :
                   Open(l, Results(keys), restarts, size)
              \/ Fill(l, Results(keys))
<1>1. CASE SqlRead(l, all)
  BY <1>1, SqlReads, ResultsAre
<1>2. CASE CouchRead(l, all)
  BY <1>2, CouchReads, ResultsAre
<1> QED
  BY <1>1, <1>2 DEF Read

LEMMA ReadKeeps ==
  ASSUME Inv, NEW l \in List, NEW all \in BOOLEAN, Read(l, all)
  PROVE  Inv'
<1>1. /\ clauseLists' = NoClauses /\ counted' = None
      /\ UNCHANGED <<setting, table>>
  BY DEF Read, ClausesFreed
<1>2. ListInv
  BY DEF Inv
<1>3. PICK keys \in Seq(DOMAIN table) :
        /\ Results(keys) \in Seq(Row)
        /\ \/ \E restarts \in BOOLEAN, size \in Int :
                Open(l, Results(keys), restarts, size)
           \/ Fill(l, Results(keys))
  BY ReadMakes
<1> DEFINE rows == Results(keys)
<1>4. /\ rows \in Seq(Row) /\ DOMAIN rows = 1 .. Len(keys)
      /\ \A i \in 1 .. Len(keys) : rows[i] = ResultOf(keys[i]) /\ keys[i] \in DOMAIN table
  BY ResultsAre
<1>5. \/ \E restarts \in BOOLEAN, size \in Int : Open(l, rows, restarts, size)
      \/ Fill(l, rows)
  BY <1>3
<1> HIDE DEF rows
<1>6. ListInv'
  BY <1>2, <1>4, <1>5, OpenKeeps, FillKeeps
<1>7. Content' = [Content EXCEPT ![l] = rows]
  BY <1>2, <1>4, <1>5, OpenShows
<1>8. \A k : ResultOf(k)' = ResultOf(k)
  BY <1>1 DEF ResultOf, setting
<1>9. ContentOK'
  <2>1. ASSUME NEW x \in List, NEW i \in DOMAIN Content'[x]
        PROVE  \E k \in DOMAIN table : Content'[x][i] = ResultOf(k)
    <3>1. CASE x = l
      <4>1. Content'[x] = rows
        BY <1>7, <3>1 DEF Content
      <4> QED
        BY <1>4, <2>1, <4>1
    <3>2. CASE x # l
      <4>1. Content'[x] = Content[x]
        BY <1>7, <3>2 DEF Content
      <4> QED
        BY <2>1, <4>1 DEF Inv, ContentOK
    <3> QED
      BY <3>1, <3>2
  <2> QED
    BY <1>1, <1>8, <2>1 DEF ContentOK
<1>10. TableOK'
  BY <1>1, TableKept DEF Inv
<1>11. ClausesOK'
  BY <1>1, NoClausesOK
<1>12. /\ backend' \in Backends /\ kind' \in Kinds /\ others' \in BOOLEAN
       /\ counted' \in -1 .. MaxObjects
  BY <1>1, NoneCounted DEF Inv, setting
<1> QED
  BY <1>6, <1>9, <1>10, <1>11, <1>12 DEF Inv

\* A list that was walked, loaded, copied or freed has rows some list had.
LEMMA WalkShows ==
  ASSUME ListInv, NEW l \in List, Walk(l)
  PROVE  \A x \in List : \A i \in DOMAIN Content'[x] :
           \E y \in List : \E j \in DOMAIN Content[y] : Content'[x][i] = Content[y][j]
<1> DEFINE Goal == \A x \in List : \A i \in DOMAIN Content'[x] :
                     \E y \in List : \E j \in DOMAIN Content[y] :
                       Content'[x][i] = Content[y][j]
<1>1. \A x \in List : Content[x] \in Seq(Row) /\ Yielded[x] \in Nat
  <2> SUFFICES ASSUME NEW x \in List
               PROVE  Content[x] \in Seq(Row) /\ Yielded[x] \in Nat
    OBVIOUS
  <2>1. list[x] \in ListRecord /\ statement[x] \in Statement
    BY DEF ListInv
  <2>2. /\ list[x].items \in Seq(Row) /\ list[x].pos \in Nat
        /\ statement[x].rows \in Seq(Row) /\ statement[x].at \in Nat
    BY <2>1 DEF ListRecord, Statement
  <2>3. Len(list[x].items) \in Nat
    BY <2>2
  <2> QED
    BY <2>2, <2>3, ContentIs DEF ContentOf, YieldedOf

\* Some of the rows of a list become those of a list.
<1>2. ASSUME NEW x \in List, NEW y \in List, NEW a \in Nat \ {0},
             NEW m \in 0 .. Len(Content[y]),
             Content' = [Content EXCEPT ![x] = SubSeq(Content[y], a, m)]
      PROVE  Goal
  <2> DEFINE part == SubSeq(Content[y], a, m)
  <2>1. ASSUME NEW i \in DOMAIN part
        PROVE  \E j \in DOMAIN Content[y] : part[i] = Content[y][j]
    <3>1. m \in Int /\ Content[y] \in Seq(Row) /\ Len(Content[y]) \in Nat
      BY <1>1
    <3>2. DOMAIN part = 1 .. (IF a <= m THEN m - a + 1 ELSE 0)
      BY <3>1
    <3>3. i \in 1 .. m - a + 1 /\ a + i - 1 \in 1 .. Len(Content[y])
      BY <2>1, <3>1, <3>2
    <3>4. part[i] = Content[y][a + i - 1]
      BY <3>1, <3>3
    <3> QED
      BY <3>1, <3>3, <3>4
  <2>2. Content'[x] = part /\ \A z \in List : z # x => Content'[z] = Content[z]
    BY <1>2 DEF Content
  <2> HIDE DEF part
  <2> QED
    BY <2>1, <2>2
<1>3. ASSUME UNCHANGED Content
      PROVE  Goal
  BY <1>3
<1> HIDE DEF Goal
<1>4. CASE Promise!Yield(l) \/ Promise!StartOver(l) \/ Promise!Null(l)
  <2>1. UNCHANGED Content
    BY <1>4 DEF Promise!Yield, Promise!StartOver, Promise!Null
  <2> QED
    BY <1>3, <2>1
<1>5. CASE Promise!Load(l)
  <2>1. PICK m \in 0 .. Len(Content[l]) :
          Content' = [Content EXCEPT ![l] = SubSeq(@, Yielded[l] + 1, m)]
    BY <1>5 DEF Promise!Load
  <2> DEFINE a == Yielded[l] + 1
  <2>2. a \in Nat \ {0} /\ Content' = [Content EXCEPT ![l] = SubSeq(Content[l], a, m)]
    BY <1>1, <2>1
  <2> HIDE DEF a
  <2> QED
    BY <1>2, <2>2
<1>6. CASE \E to \in List : Promise!Copy(l, to)
  <2>1. PICK to \in List, m \in 0 .. Len(Content[l]) :
          Content' = [Content EXCEPT ![to] = SubSeq(Content[l], 1, m)]
    BY <1>6 DEF Promise!Copy
  <2> QED
    BY <1>2, <2>1
<1>7. CASE Promise!Close(l)
  <2>1. Content' = [Content EXCEPT ![l] = << >>]
    BY <1>7 DEF Promise!Close
  <2>2. Content'[l] = << >> /\ \A z \in List : z # l => Content'[z] = Content[z]
    BY <2>1 DEF Content
  <2> QED
    BY <2>2 DEF Goal
<1> QED
  BY <1>4, <1>5, <1>6, <1>7, BeginPromised, ListNextPromised, FetchAllPromised,
     FreePromised, NewCopyPromised, CopyFailsPromised DEF Walk, Goal

LEMMA WalkKeeps ==
  ASSUME Inv, WalkList
  PROVE  Inv'
<1>1. PICK l \in List : Walk(l)
  BY DEF WalkList
<1>2. counted' = None /\ UNCHANGED <<setting, table, clauseLists>>
  BY DEF WalkList
<1>3. ListInv
  BY DEF Inv
<1>4. ListInv'
  BY <1>1, <1>3, ListInvStep DEF ListStep
<1>5. \A k : ResultOf(k)' = ResultOf(k)
  BY <1>2 DEF ResultOf, setting
<1>6. ContentOK'
  <2>1. ASSUME NEW x \in List, NEW i \in DOMAIN Content'[x]
        PROVE  \E k \in DOMAIN table : Content'[x][i] = ResultOf(k)
    <3>1. PICK y \in List : \E j \in DOMAIN Content[y] : Content'[x][i] = Content[y][j]
      BY <1>1, <1>3, WalkShows
    <3>2. PICK j \in DOMAIN Content[y] : Content'[x][i] = Content[y][j]
      BY <3>1
    <3> QED
      BY <3>2 DEF Inv, ContentOK
  <2> QED
    BY <1>2, <1>5, <2>1 DEF ContentOK
<1>7. TableOK' /\ ClausesOK'
  BY <1>2, TableKept, ClausesKept DEF Inv
<1>8. /\ backend' \in Backends /\ kind' \in Kinds /\ others' \in BOOLEAN
      /\ counted' \in -1 .. MaxObjects
  BY <1>2, NoneCounted DEF Inv, setting
<1> QED
  BY <1>4, <1>6, <1>7, <1>8 DEF Inv

LEMMA InvStep == Inv /\ [Next]_vars => Inv'
<1> SUFFICES ASSUME Inv, [Next]_vars PROVE Inv'
  OBVIOUS
<1>1. CASE UNCHANGED vars
  <2>1. UNCHANGED <<setting, table, listVars>> /\ UNCHANGED <<setting, clauseLists>>
        /\ counted' = counted
    BY <1>1 DEF vars
  <2>2. ClausesOK' /\ counted' \in -1 .. MaxObjects
    BY <2>1, ClausesKept DEF Inv
  <2> QED
    BY <2>1, <2>2, OnlyClauses
<1>2. CASE Next
  BY <1>2, CreateKeeps, AddClauseKeeps, NewListKeeps, AddNestedKeeps, ReadKeeps,
     ReadFailsKeeps, CountKeeps, WalkKeeps DEF Next
<1> QED
  BY <1>1, <1>2

----------------------------------------------------------------------------
(* What the invariant says                                                 *)

LEMMA TypeGiven == Inv => TypeOK
<1> SUFFICES ASSUME Inv PROVE TypeOK
  OBVIOUS
<1>1. Top > 0 /\ ValidLists
  BY ClausesAreLists DEF Inv, Top
<1>2. ListTypeOK
  BY ListInvGives DEF Inv
<1> QED
  BY <1>1, <1>2 DEF Inv, TypeOK, TableOK

LEMMA PlacesGiven == Inv => PlacesFilled
<1> SUFFICES ASSUME Inv, backend # "couchdb", Bound.ok
             PROVE  /\ FilledIn(backend, clauseLists, Where, Bound.bound)[Top][0]
                    /\ Len(Bound.bound) = PlacesOf(clauseLists)
  BY DEF PlacesFilled
<1>1. AreLists(clauseLists) /\ clauseLists # << >>
  BY ClausesAreLists DEF Inv
<1>2. CASE backend = "sqlite"
  BY <1>1, <1>2, SqlitePlacesFilled DEF Where, Bound, Top
<1>3. CASE backend = "mysql"
  BY <1>1, <1>3, MysqlPlacesFilled DEF Where, Bound, Top
<1> QED
  BY <1>2, <1>3 DEF Inv, Backends

\* No two objects have keys that are seen alike, when the keys fit an int.
LEMMA KeysDiffer ==
  ASSUME MaxObjects < Half32, backend \in Backends,
         NEW j \in Keys, NEW k \in Keys
  PROVE  /\ KeySeen(k) = k
         /\ KeyColumn(backend, j) = KeyColumn(backend, k) => j = k
<1>1. \A n \in Keys : n \in Int /\ n \in Domain("INT32")
  BY MaxObjectsType, HalvesAre DEF Keys, Domain
<1>2. \A n \in Keys : KeySeen(n) = n
  BY <1>1, NarrowFits DEF KeySeen
<1>3. \A n \in Keys : KeyColumn(backend, n).val = n
  BY <1>1, <1>2, KeyIs
<1> QED
  BY <1>2, <1>3

LEMMA FieldsGiven ==
  ASSUME MaxObjects < Half32, Inv
  PROVE  FieldsSurvive
<1> SUFFICES ASSUME NEW l \in List, NEW i \in DOMAIN Content[l], NEW k \in DOMAIN table,
                    Content[l][i].key = KeyColumn(backend, k)
             PROVE  FieldFrom(kind, Content[l][i].field)
                      = IF backend = "couchdb" /\ kind \notin {"INT64", "TEXT"}
                        THEN Error ELSE FieldValue(kind, table[k].given)
  BY Zenon DEF FieldsSurvive
<1>1. PICK j \in DOMAIN table : Content[l][i] = ResultOf(j)
  BY DEF Inv, ContentOK
<1>2. /\ Content[l][i].key = KeyColumn(backend, j)
      /\ Content[l][i].field = Column(backend, kind, table[j].kept)
  BY <1>1 DEF ResultOf, ResultFor
<1>3. backend \in Backends /\ kind \in Kinds /\ j \in Keys /\ k \in Keys
  BY TableIs DEF Inv
<1>4. j = k
  BY <1>2, <1>3, KeysDiffer
<1> DEFINE n == table[k].given
<1>5. n \in Domain(kind) /\ table[k].kept = Stored(backend, FieldValue(kind, n))
  BY TableIs
<1>6. FieldFrom(kind, Content[l][i].field)
        = FieldFrom(kind, Column(backend, kind, Stored(backend, FieldValue(kind, n))))
  BY <1>2, <1>4, <1>5
<1> HIDE DEF n
<1>7. CASE backend = "couchdb"
  <2>1. FieldFrom(kind, Column(backend, kind, Stored(backend, FieldValue(kind, n))))
          = IF kind \in {"INT64", "TEXT"} THEN FieldValue(kind, n) ELSE Error
    BY <1>3, <1>5, <1>7, CouchFieldsRoundTripOrFail
  <2> QED
    BY <1>6, <1>7, <2>1 DEF n
<1>8. CASE backend # "couchdb"
  <2>1. backend \in {"sqlite", "mysql"}
    BY <1>3, <1>8 DEF Backends
  <2>2. FieldFrom(kind, Column(backend, kind, Stored(backend, FieldValue(kind, n))))
          = FieldValue(kind, n)
    BY <1>3, <1>5, <2>1, FieldsRoundTrip
  <2> QED
    BY <1>6, <1>8, <2>2 DEF n
<1> QED
  BY <1>7, <1>8

\* The program walks through its lists, reads them, or leaves them alone.
LEMMA StepOfLists == Inv /\ [Next]_vars => [ListStep]_listVars
<1> SUFFICES ASSUME Inv, [Next]_vars PROVE ListStep \/ UNCHANGED listVars
  OBVIOUS
<1>1. CASE \E l \in List, all \in BOOLEAN : Read(l, all)
  <2>1. PICK l \in List, all \in BOOLEAN : Read(l, all)
    BY <1>1
  <2>2. PICK keys \in Seq(DOMAIN table) :
          /\ Results(keys) \in Seq(Row)
          /\ \/ \E restarts \in BOOLEAN, size \in Int :
                  Open(l, Results(keys), restarts, size)
             \/ Fill(l, Results(keys))
    BY <2>1, ReadMakes
  <2> DEFINE rows == Results(keys)
  <2>3. /\ rows \in Seq(Row)
        /\ \/ \E restarts \in BOOLEAN, size \in Int : Open(l, rows, restarts, size)
           \/ Fill(l, rows)
    BY <2>2
  <2> HIDE DEF rows
  <2> QED
    BY <2>3 DEF ListStep
<1>2. CASE WalkList
  BY <1>2 DEF WalkList, ListStep
<1>3. CASE \/ \E n \in Samples[kind] : Create(n)
           \/ AddClause \/ NewList \/ AddNested \/ ReadFails
           \/ \E all \in BOOLEAN : Count(all)
  BY <1>3 DEF Create, AddClause, NewList, AddNested, ReadFails, Count
<1>4. CASE UNCHANGED vars
  BY <1>4 DEF vars
<1> QED
  BY <1>1, <1>2, <1>3, <1>4 DEF Next

----------------------------------------------------------------------------
(* Statements and what is meant                                            *)

\* The difference of two numbers says what their comparison does.
LEMMA DifferenceSays ==
  ASSUME NEW type \in Comparisons, NEW x \in Int, NEW y \in Int, NEW o \in Int,
         x = y <=> o = 0, x < y <=> o < 0
  PROVE  Says(type, x - y) = Says(type, o)
<1>1. /\ x - y = 0 <=> o = 0
      /\ x - y < 0 <=> o < 0
      /\ x - y > 0 <=> o > 0
      /\ x - y <= 0 <=> o <= 0
      /\ x - y >= 0 <=> o >= 0
  OBVIOUS
<1>2. x - y # 0 <=> o # 0
  BY <1>1
<1> DEFINE d == x - y
<1>3. type = "EQUAL" => Says(type, d) = (d = 0) /\ Says(type, o) = (o = 0)
  BY DEF Says
<1>4. type = "NOT_EQUAL" => Says(type, d) = (d # 0) /\ Says(type, o) = (o # 0)
  BY DEF Says
<1>5. type = "LESS_THEN" => Says(type, d) = (d < 0) /\ Says(type, o) = (o < 0)
  BY DEF Says
<1>6. type = "LESS_OR_EQUAL" => Says(type, d) = (d <= 0) /\ Says(type, o) = (o <= 0)
  BY DEF Says
<1>7. type = "GREATER_OR_EQUAL" => Says(type, d) = (d >= 0) /\ Says(type, o) = (o >= 0)
  BY DEF Says
<1>8. type = "GREATER_THEN" => Says(type, d) = (d > 0) /\ Says(type, o) = (o > 0)
  BY DEF Says
<1> QED
  BY <1>1, <1>2, <1>3, <1>4, <1>5, <1>6, <1>7, <1>8 DEF Comparisons

\* Whether two numbers are equal is all that some comparisons ask.
LEMMA EqualitySays ==
  ASSUME NEW type \in {"EQUAL", "NOT_EQUAL"}, NEW x \in Int, NEW y \in Int, NEW o \in Int,
         x = y <=> o = 0
  PROVE  Says(type, x - y) = Says(type, o)
<1>1. x - y = 0 <=> o = 0
  OBVIOUS
<1>2. CASE type = "EQUAL"
  BY <1>1, <1>2 DEF Says
<1>3. CASE type = "NOT_EQUAL"
  BY <1>1, <1>3 DEF Says
<1> QED
  BY <1>2, <1>3

\* Two values of one type are compared as their numbers are.
LEMMA CmpNumbers ==
  ASSUME NEW t, t # "EMPTY", NEW x \in Int, NEW y \in Int
  PROVE  LET a == [type |-> t, val |-> x]
             b == [type |-> t, val |-> y]
         IN  /\ Comparable(a, b) /\ Cmp(a, b) \in Int
             /\ Cmp(a, b) = 0 <=> x = y
             /\ Cmp(a, b) < 0 <=> x < y
<1> DEFINE a == [type |-> t, val |-> x]
           b == [type |-> t, val |-> y]
<1>1. a.type = t /\ b.type = t /\ a.val = x /\ b.val = y
  OBVIOUS
<1> HIDE DEF a, b
<1>2. Comparable(a, b)
  BY <1>1 DEF Comparable
<1>3. Cmp(a, b) = IF x < y THEN -1 ELSE IF x > y THEN 1 ELSE 0
  BY <1>1 DEF Cmp
<1>4. Cmp(a, b) \in Int /\ (Cmp(a, b) = 0 <=> x = y) /\ (Cmp(a, b) < 0 <=> x < y)
  BY <1>3
<1> QED
  BY <1>2, <1>4 DEF a, b

\* An SQL backend keeps no two numbers of a field alike, and it keeps the number
\* itself, unless it is in the upper half of a type SQLite does not have.
LEMMA StoredSigns ==
  ASSUME backend \in {"sqlite", "mysql"}, kind \in Kinds,
         NEW x \in Domain(kind), NEW y \in Domain(kind)
  PROVE  LET sx == Stored(backend, FieldValue(kind, x))
             sy == Stored(backend, FieldValue(kind, y))
         IN  /\ sx \in Int /\ sy \in Int
             /\ sx = sy <=> x = y
             /\ backend = "mysql" \/ ~Upper(x) => sx = x
<1> DEFINE sx == Stored(backend, FieldValue(kind, x))
           sy == Stored(backend, FieldValue(kind, y))
           vx == [type |-> kind, val |-> x]
           vy == [type |-> kind, val |-> y]
<1>1. sx = Stored(backend, vx) /\ sy = Stored(backend, vy)
  BY FieldValueIs
<1>2. x \in Int /\ y \in Int
  BY NumbersAreInts
<1>3. CASE backend = "mysql"
  <2>1. sx = x /\ sy = y
    BY <1>1, <1>3 DEF Stored, MysqlBind
  <2> QED
    BY <1>2, <2>1
<1>4. CASE backend = "sqlite"
  <2>1. sx = SqliteBind(vx) /\ sy = SqliteBind(vy)
    BY <1>1, <1>4 DEF Stored
  <2>2. CASE kind = "UINT32"
    <3>1. sx = AsSigned(x, Half32) /\ sy = AsSigned(y, Half32)
      BY <2>1, <2>2 DEF SqliteBind
    <3>2. x \in 0 .. 2 * Half32 - 1 /\ y \in 0 .. 2 * Half32 - 1
      BY <2>2 DEF Domain
    <3>3. Upper(x) <=> x >= Half32
      BY <2>2 DEF Upper
    <3> HIDE DEF sx, sy
    <3>4. /\ sx \in Int /\ sy \in Int /\ (sx = sy <=> x = y)
          /\ ~(x >= Half32) => sx = x
      BY <1>2, <3>1, <3>2, HalvesAre DEF AsSigned
    <3> QED
      BY <1>4, <3>3, <3>4 DEF sx, sy
  <2>3. CASE kind = "UINT64"
    <3>1. sx = AsSigned(x, Half64) /\ sy = AsSigned(y, Half64)
      BY <2>1, <2>3 DEF SqliteBind
    <3>2. x \in 0 .. 2 * Half64 - 1 /\ y \in 0 .. 2 * Half64 - 1
      BY <2>3 DEF Domain
    <3>3. Upper(x) <=> x >= Half64
      BY <2>3 DEF Upper
    <3> HIDE DEF sx, sy
    <3>4. /\ sx \in Int /\ sy \in Int /\ (sx = sy <=> x = y)
          /\ ~(x >= Half64) => sx = x
      BY <1>2, <3>1, <3>2, HalvesAre DEF AsSigned
    <3> QED
      BY <1>4, <3>3, <3>4 DEF sx, sy
  <2>4. CASE kind \notin {"UINT32", "UINT64"}
    <3>1. sx = x /\ sy = y
      BY <2>1, <2>4 DEF SqliteBind
    <3> QED
      BY <1>2, <3>1
  <2> QED
    BY <2>2, <2>3, <2>4
<1> QED
  BY <1>3, <1>4

\* A key that is seen as it is, is kept as it is.
LEMMA KeyStored ==
  ASSUME MaxObjects < Half32, backend \in {"sqlite", "mysql"}, NEW k \in Keys
  PROVE  /\ KeyColumn(backend, k) = [type |-> KeyType, val |-> k]
         /\ Stored(backend, KeyColumn(backend, k)) = k
<1>1. backend \in Backends /\ k \in Int
  BY MaxObjectsType DEF Backends, Keys
<1>2. KeyColumn(backend, k) = [type |-> KeyType, val |-> k]
  BY <1>1, KeyIs, KeysDiffer
<1> DEFINE v == [type |-> KeyType, val |-> k]
<1>3. CASE backend = "sqlite"
  <2>1. Stored(backend, v) = SqliteBind(v) /\ v.type = "INT32" /\ v.val = k
    BY <1>3 DEF Stored, KeyType
  <2> HIDE DEF v
  <2>2. SqliteBind(v) = k
    BY <2>1 DEF SqliteBind
  <2> QED
    BY <1>2, <2>1, <2>2 DEF v
<1>4. CASE backend = "mysql"
  <2>1. Stored(backend, v) = MysqlBind(v) /\ v.val = k
    BY <1>4 DEF Stored
  <2> QED
    BY <1>2, <2>1 DEF MysqlBind
<1> QED
  BY <1>3, <1>4

\* A clause of the program that is a comparison, and what it compares with.
LEMMA ComparisonIs ==
  ASSUME Inv, NEW n \in DOMAIN clauseLists, NEW i \in DOMAIN clauseLists[n],
         NEW c, c = clauseLists[n][i], c.type # "NESTED"
  PROVE  /\ c.type \in Comparisons \cup NullTests
         /\ \/ c.field = "key" /\ \E k \in Keys : c.value = KeyColumn(backend, k)
            \/ /\ c.field = "field"
               /\ c.value.val \in Domain(kind)
               /\ c.value = FieldValue(kind, c.value.val)
<1>1. MadeOf(c, n)
  BY DEF Inv, ClausesOK
<1>2. ~(c = Nested(c.operator, c.list))
  BY DEF Nested
<1> QED
  BY <1>1, <1>2, Zenon DEF MadeOf

\* The objects of the table.
LEMMA ObjectIs ==
  ASSUME NEW k
  PROVE  /\ Object(k).key = KeyColumn(backend, k)
         /\ Object(k).field = FieldValue(kind, table[k].given)
BY DEF Object

\* The row of an object shows it, to clauses an SQL backend understands.
LEMMA RowShows ==
  ASSUME MaxObjects < Half32, Inv, backend \in {"sqlite", "mysql"},
         Understood(FALSE), NEW k \in DOMAIN table
  PROVE  Shows(backend, [key |-> k, field |-> table[k].kept], Object(k), clauseLists)
<1> DEFINE row == [key |-> k, field |-> table[k].kept]
           g == table[k].given
<1>1. ASSUME NEW n \in DOMAIN clauseLists, NEW i \in DOMAIN clauseLists[n],
             NEW c, c = clauseLists[n][i], c.type \in Comparisons
      PROVE  /\ Comparable(Object(k)[c.field], c.value)
             /\ Says(c.type, row[c.field] - Stored(backend, c.value))
                  = Says(c.type, Cmp(Object(k)[c.field], c.value))
  <2>1. backend \in Backends /\ kind \in Kinds
    BY DEF Inv
  <2>2. /\ k \in Keys /\ k \in Int /\ g \in Domain(kind)
        /\ table[k].kept = Stored(backend, FieldValue(kind, g))
    BY TableIs
  <2>3. c.type # "NESTED"
    BY <1>1 DEF Comparisons
  <2>4. CASE c.field = "key" /\ \E m \in Keys : c.value = KeyColumn(backend, m)
    <3>1. PICK m \in Keys : c.value = KeyColumn(backend, m)
      BY <2>4
    <3>2. m \in Int
      BY MaxObjectsType DEF Keys
    <3>3. /\ c.value = [type |-> KeyType, val |-> m] /\ Stored(backend, c.value) = m
          /\ Object(k).key = [type |-> KeyType, val |-> k]
      BY <2>2, <3>1, KeyStored, ObjectIs
    <3>4. KeyType # "EMPTY"
      BY DEF KeyType
    <3> DEFINE a == Object(k).key
               o == Cmp(a, c.value)
    <3>5. /\ Comparable(a, c.value) /\ o \in Int
          /\ k = m <=> o = 0
          /\ k < m <=> o < 0
      BY <2>2, <3>2, <3>3, <3>4, CmpNumbers
    <3> HIDE DEF a, o
    <3>6. Says(c.type, k - m) = Says(c.type, o)
      BY <1>1, <2>2, <3>2, <3>5, DifferenceSays
    <3>7. Object(k)[c.field] = a /\ row[c.field] = k
      BY <2>4 DEF a
    <3> QED
      BY <3>3, <3>5, <3>6, <3>7 DEF o
  <2>5. CASE /\ c.field = "field"
             /\ c.value.val \in Domain(kind)
             /\ c.value = FieldValue(kind, c.value.val)
    <3> DEFINE m == c.value.val
               a == Object(k).field
               o == Cmp(a, c.value)
               sg == Stored(backend, FieldValue(kind, g))
               sm == Stored(backend, FieldValue(kind, m))
    <3>1. g \in Int /\ m \in Int /\ m \in Domain(kind) /\ c.value = FieldValue(kind, m)
      BY <2>1, <2>2, <2>5, NumbersAreInts
    <3>2. a = [type |-> kind, val |-> g] /\ c.value = [type |-> kind, val |-> m]
      BY <2>1, <2>2, <3>1, FieldValueIs, ObjectIs
    <3>3. kind # "EMPTY"
      BY <2>1 DEF Kinds
    <3>4. /\ Comparable(a, c.value) /\ o \in Int
          /\ g = m <=> o = 0
          /\ g < m <=> o < 0
      <4> HIDE DEF g, m, a
      <4> QED
        BY <3>1, <3>2, <3>3, CmpNumbers
    <3>5. /\ sg \in Int /\ sm \in Int /\ (sg = sm <=> g = m)
          /\ backend = "mysql" \/ ~Upper(g) => sg = g
          /\ backend = "mysql" \/ ~Upper(m) => sm = m
      BY <2>1, <2>2, <3>1, StoredSigns
    <3>6. Stored(backend, c.value) = sm /\ table[k].kept = sg
      BY <2>2, <3>1
    <3>7. Object(k)[c.field] = a /\ row[c.field] = sg
      BY <2>2, <2>5
    <3>8. \/ backend = "mysql"
          \/ ~Upper(g) /\ ~Upper(m)
          \/ c.type \in {"EQUAL", "NOT_EQUAL"}
      <4>1. CASE backend = "sqlite"
        <5>1. SomeUpper => \A d \in Parts : d.type \notin Orderings
          BY <4>1 DEF Understood
        <5>2. c \in Parts
          BY <1>1 DEF Parts, Range
        <5>3. Upper(g) \/ Upper(m) => SomeUpper
          BY <2>5, <5>2 DEF SomeUpper
        <5>4. c.type \notin Orderings => c.type \in {"EQUAL", "NOT_EQUAL"}
          BY <1>1 DEF Orderings
        <5> QED
          BY <5>1, <5>2, <5>3, <5>4
      <4> QED
        BY <4>1
    <3> HIDE DEF a, o, sg, sm, m, g
    <3>9. Says(c.type, sg - sm) = Says(c.type, o)
      <4>1. CASE c.type \in {"EQUAL", "NOT_EQUAL"}
        <5>1. sg = sm <=> o = 0
          BY <3>4, <3>5
        <5> QED
          BY <3>4, <3>5, <4>1, <5>1, EqualitySays
      <4>2. CASE backend = "mysql" \/ (~Upper(g) /\ ~Upper(m))
        <5>1. sg = g /\ sm = m
          BY <3>5, <4>2
        <5> QED
          BY <1>1, <3>1, <3>4, <5>1, DifferenceSays
      <4> QED
        BY <3>8, <4>1, <4>2
    <3> QED
      BY <3>4, <3>6, <3>7, <3>9 DEF o
  <2> QED
    BY <1>1, <2>3, <2>4, <2>5, ComparisonIs
<1> HIDE DEF row
<1>2. Shows(backend, row, Object(k), clauseLists)
  BY <1>1 DEF Shows
<1> QED
  BY <1>2 DEF row

\* What is selected is what is meant.
LEMMA SelectedAreMeant ==
  ASSUME MaxObjects < Half32, Inv, backend # "couchdb", NEW all \in BOOLEAN,
         Preparable(all), Understood(all)
  PROVE  SelectedRows(all) = Meant(all)
<1>1. CASE all
  BY <1>1 DEF SelectedRows, Meant
<1>2. CASE Clauses = << >>
  BY <1>2 DEF SelectedRows, Meant
<1>3. CASE ~all
  <2>1. backend \in {"sqlite", "mysql"} /\ Bound.ok /\ Understood(FALSE)
    BY <1>3 DEF Inv, Backends, Preparable
  <2>2. AreLists(clauseLists) /\ clauseLists # << >>
    BY ClausesAreLists DEF Inv
  <2>3. FilledIn(backend, clauseLists, Build(clauseLists), Bound.bound)
          [Len(clauseLists)][0]
    BY <2>1, PlacesGiven DEF PlacesFilled, Where, Top
  <2>4. ASSUME NEW k \in DOMAIN table
        PROVE  Selects(Where, Bound.bound, [key |-> k, field |-> table[k].kept])
                 = Means(clauseLists, Object(k))
    <3> DEFINE row == [key |-> k, field |-> table[k].kept]
               bound == Bound.bound
    <3>1. Shows(backend, row, Object(k), clauseLists)
      BY <2>1, RowShows
    <3> HIDE DEF row
    <3>2. Selects(Build(clauseLists), bound, row) = Means(clauseLists, Object(k))
      BY <2>2, <2>3, <3>1, StatementSelectsMeant
    <3> QED
      BY <3>2 DEF row, Where
  <2> QED
    BY <1>3, <2>4 DEF SelectedRows, Meant
<1> QED
  BY <1>1, <1>3

----------------------------------------------------------------------------
(* Views and what is meant                                                 *)

\* The test of a document's type, and an AND, put before a list.
LEMMA JoinedAfterTrue ==
  ASSUME NEW operators \in Seq({"AND", "OR"}), NEW truth \in Seq(BOOLEAN),
         Len(operators) = Len(truth), Len(truth) > 0, operators[1] = "AND"
  PROVE  Joined(<<"AND">> \o operators, <<TRUE>> \o truth) = Joined(operators, truth)
<1> DEFINE N == Len(truth)
           o == <<"AND">> \o operators
           t == <<TRUE>> \o truth
           or(i) == i = 1 \/ operators[i] = "OR"
           in(i) == or(i) /\ \A j \in i .. N : truth[j] \/ \E k \in (i + 1) .. j : or(k)
           orAfter(i) == i = 1 \/ o[i] = "OR"
           inAfter(i) == /\ orAfter(i)
                         /\ \A j \in i .. N + 1 :
                              t[j] \/ \E k \in (i + 1) .. j : orAfter(k)
<1>1. N \in Nat /\ N > 0 /\ DOMAIN truth = 1 .. N /\ \A i \in 1 .. N : truth[i] \in BOOLEAN
  OBVIOUS
<1>2. /\ Len(t) = N + 1 /\ DOMAIN t = 1 .. N + 1 /\ t[1] = TRUE
      /\ \A i \in 1 .. N : t[i + 1] = truth[i]
  OBVIOUS
<1>3. o[1] = "AND" /\ \A i \in 1 .. N : o[i + 1] = operators[i]
  OBVIOUS
<1>4. operators[1] = "AND"
  OBVIOUS
<1> HIDE DEF o, t, N
<1>5. \A i \in 1 .. N + 1 : orAfter(i) <=> i = 1 \/ (i - 1 \in 2 .. N /\ or(i - 1))
  <2> SUFFICES ASSUME NEW i \in 1 .. N + 1
               PROVE  orAfter(i) <=> i = 1 \/ (i - 1 \in 2 .. N /\ or(i - 1))
    OBVIOUS
  <2>1. CASE i = 1
    BY <2>1
  <2>2. CASE i # 1
    <3>1. i - 1 \in 1 .. N /\ i - 1 + 1 = i
      BY <1>1, <2>2
    <3>2. o[i] = operators[i - 1]
      BY <1>3, <3>1
    <3>3. operators[i - 1] = "OR" => i - 1 # 1
      BY <1>4
    <3> QED
      BY <1>1, <2>2, <3>1, <3>2, <3>3
  <2> QED
    BY <2>1, <2>2
<1>6. \A i \in 2 .. N : or(i) <=> orAfter(i + 1)
  <2> SUFFICES ASSUME NEW i \in 2 .. N PROVE or(i) <=> orAfter(i + 1)
    OBVIOUS
  <2>1. i \in 1 .. N /\ i # 1 /\ i + 1 # 1
    BY <1>1
  <2> QED
    BY <1>3, <2>1
<1> HIDE DEF or, orAfter
<1>7. or(1) /\ orAfter(1)
  BY DEF or, orAfter

\* What a run of clauses says of those up to j, before and after.
<1>8. ASSUME NEW i \in 1 .. N, NEW j \in i .. N, truth[j] \/ \E k \in (i + 1) .. j : or(k)
      PROVE  t[j + 1] \/ \E k \in (i + 2) .. (j + 1) : orAfter(k)
  <2>1. CASE truth[j]
    BY <1>1, <1>2, <2>1
  <2>2. CASE \E k \in (i + 1) .. j : or(k)
    <3>1. PICK k \in (i + 1) .. j : or(k)
      BY <2>2
    <3>2. k \in 2 .. N /\ k + 1 \in (i + 2) .. (j + 1)
      BY <1>1, <3>1
    <3> QED
      BY <1>6, <3>1, <3>2
  <2> QED
    BY <1>8, <2>1, <2>2
<1>9. ASSUME NEW i \in 1 .. N, NEW j \in i .. N,
             t[j + 1] \/ \E k \in (i + 2) .. (j + 1) : orAfter(k)
      PROVE  truth[j] \/ \E k \in (i + 1) .. j : or(k)
  <2>1. CASE t[j + 1]
    BY <1>1, <1>2, <2>1
  <2>2. CASE \E k \in (i + 2) .. (j + 1) : orAfter(k)
    <3>1. PICK k \in (i + 2) .. (j + 1) : orAfter(k)
      BY <2>2
    <3>2. k \in 1 .. N + 1 /\ k # 1 /\ k - 1 \in (i + 1) .. j
      BY <1>1, <3>1
    <3>3. or(k - 1)
      BY <1>5, <3>1, <3>2
    <3> QED
      BY <3>2, <3>3
  <2> QED
    BY <1>9, <2>1, <2>2
<1>10. ASSUME NEW i \in 1 .. N, in(i)
       PROVE  \E a \in 1 .. N + 1 : inAfter(a)
  <2>1. CASE i = 1
    <3>1. ASSUME NEW j \in 1 .. N + 1
          PROVE  t[j] \/ \E k \in (1 + 1) .. j : orAfter(k)
      <4>1. CASE j = 1
        BY <1>2, <4>1
      <4>2. CASE j # 1
        <5> DEFINE p == j - 1
        <5>1. p \in 1 .. N /\ j = p + 1
          BY <1>1, <4>2
        <5>2. truth[p] \/ \E k \in (1 + 1) .. p : or(k)
          BY <1>10, <2>1, <5>1
        <5>3. 1 \in 1 .. N
          BY <1>1
        <5> HIDE DEF p
        <5>4. t[p + 1] \/ \E k \in (1 + 2) .. (p + 1) : orAfter(k)
          BY <1>8, <5>1, <5>2, <5>3
        <5>5. \A k \in (1 + 2) .. (p + 1) : k \in (1 + 1) .. j
          BY <5>1
        <5> QED
          BY <5>1, <5>4, <5>5
      <4> QED
        BY <4>1, <4>2
    <3>2. inAfter(1) /\ 1 \in 1 .. N + 1
      BY <1>1, <1>7, <3>1
    <3> QED
      BY <3>2
  <2>2. CASE i # 1
    <3> DEFINE a == i + 1
    <3>1. a \in 1 .. N + 1 /\ orAfter(a)
      BY <1>1, <1>6, <1>10, <2>2
    <3>2. ASSUME NEW j \in a .. N + 1
          PROVE  t[j] \/ \E k \in (a + 1) .. j : orAfter(k)
      <4> DEFINE p == j - 1
      <4>1. p \in i .. N /\ j = p + 1
        BY <1>1, <3>1
      <4>2. truth[p] \/ \E k \in (i + 1) .. p : or(k)
        BY <1>10, <4>1
      <4> HIDE DEF p
      <4>3. t[p + 1] \/ \E k \in (i + 2) .. (p + 1) : orAfter(k)
        BY <1>8, <4>1, <4>2
      <4>4. \A k \in (i + 2) .. (p + 1) : k \in (a + 1) .. j
        BY <4>1
      <4> QED
        BY <4>1, <4>3, <4>4
    <3> HIDE DEF a
    <3> QED
      BY <3>1, <3>2
  <2> QED
    BY <2>1, <2>2
<1>11. ASSUME NEW a \in 1 .. N + 1, inAfter(a)
       PROVE  \E i \in 1 .. N : in(i)
  <2>1. CASE a = 1
    <3>1. ASSUME NEW j \in 1 .. N
          PROVE  truth[j] \/ \E k \in (1 + 1) .. j : or(k)
      <4>1. j + 1 \in 1 .. N + 1 /\ 1 \in 1 .. N
        BY <1>1
      <4>2. t[j + 1] \/ \E k \in (1 + 1) .. (j + 1) : orAfter(k)
        BY <1>11, <2>1, <4>1
      <4>3. ~orAfter(2)
        <5>1. 2 \in 1 .. N + 1 /\ ~(2 - 1 \in 2 .. N)
          BY <1>1
        <5> QED
          BY <1>5, <5>1
      <4>4. t[j + 1] \/ \E k \in (1 + 2) .. (j + 1) : orAfter(k)
        BY <4>2, <4>3
      <4> QED
        BY <1>9, <4>1, <4>4
    <3>2. in(1) /\ 1 \in 1 .. N
      BY <1>1, <1>7, <3>1
    <3> QED
      BY <3>2
  <2>2. CASE a # 1
    <3> DEFINE i == a - 1
    <3>1. i \in 2 .. N /\ or(i)
      BY <1>5, <1>11, <2>2
    <3>2. ASSUME NEW j \in i .. N
          PROVE  truth[j] \/ \E k \in (i + 1) .. j : or(k)
      <4>1. j + 1 \in a .. N + 1 /\ i \in 1 .. N /\ a + 1 = i + 2
        BY <1>1, <3>1
      <4>2. t[j + 1] \/ \E k \in (a + 1) .. (j + 1) : orAfter(k)
        BY <1>11, <4>1
      <4>3. t[j + 1] \/ \E k \in (i + 2) .. (j + 1) : orAfter(k)
        BY <4>1, <4>2
      <4> HIDE DEF i
      <4> QED
        BY <1>9, <4>1, <4>3
    <3>3. i \in 1 .. N
      BY <1>1, <3>1
    <3> HIDE DEF i
    <3> QED
      BY <3>1, <3>2, <3>3
  <2> QED
    BY <2>1, <2>2
<1>12. Joined(o, t) = (\E a \in 1 .. N + 1 : inAfter(a))
  BY <1>2 DEF Joined, orAfter
<1>13. Joined(operators, truth) = (\E i \in 1 .. N : in(i))
  BY <1>1 DEF Joined, or, N
<1> HIDE DEF in, inAfter
<1>14. Joined(o, t) = Joined(operators, truth)
  BY <1>10, <1>11, <1>12, <1>13
<1> QED
  BY <1>14 DEF o, t

\* Clauses that are all joined by OR.
LEMMA JoinedByOr ==
  ASSUME NEW operators, NEW truth \in Seq(BOOLEAN),
         \A i \in 2 .. Len(truth) : operators[i] = "OR"
  PROVE  Joined(operators, truth) <=> \E i \in DOMAIN truth : truth[i]
<1> DEFINE N == Len(truth)
           or(i) == i = 1 \/ operators[i] = "OR"
           in(i) == or(i) /\ \A j \in i .. N : truth[j] \/ \E k \in (i + 1) .. j : or(k)
<1>1. N \in Nat /\ DOMAIN truth = 1 .. N
  OBVIOUS
<1>2. \A i \in 1 .. N : or(i)
  <2> SUFFICES ASSUME NEW i \in 1 .. N PROVE or(i)
    OBVIOUS
  <2>1. i = 1 \/ i \in 2 .. N
    BY <1>1
  <2> QED
    BY <2>1
<1>3. Joined(operators, truth) <=> \E i \in 1 .. N : in(i)
  BY <1>1 DEF Joined
<1> HIDE DEF N, or
<1>4. ASSUME NEW i \in 1 .. N, in(i)
      PROVE  truth[i]
  <2>1. i \in i .. N /\ \A k \in (i + 1) .. i : FALSE
    BY <1>1
  <2> QED
    BY <1>4, <2>1
<1>5. ASSUME NEW i \in 1 .. N, truth[i]
      PROVE  in(i)
  <2>1. ASSUME NEW j \in i .. N
        PROVE  truth[j] \/ \E k \in (i + 1) .. j : or(k)
    <3>1. CASE j = i
      BY <1>5, <3>1
    <3>2. CASE j # i
      <4>1. j \in (i + 1) .. j /\ j \in 1 .. N
        BY <1>1, <3>2
      <4> QED
        BY <1>2, <4>1
    <3> QED
      BY <3>1, <3>2
  <2> QED
    BY <1>2, <2>1
<1> QED
  BY <1>1, <1>3, <1>4, <1>5

\* What each clause means for an object.
Truths(object) ==
  [i \in DOMAIN Clauses |->
     ClauseMeans(Clauses[i], MeansIn(clauseLists, object), object)]

\* With CouchDB there is one list, and no clause has a list.
LEMMA CouchMeans ==
  ASSUME Inv, backend = "couchdb"
  PROVE  /\ 1 \in DOMAIN clauseLists /\ Clauses = clauseLists[1]
         /\ \A i \in DOMAIN Clauses : Clauses[i].type # "NESTED"
         /\ \A object :
              Means(clauseLists, object) = Joined(Operators(Clauses), Truths(object))
<1>1. Top = 1 /\ DOMAIN clauseLists = 1 .. Top /\ Len(clauseLists) = 1
  BY TopIs DEF Inv, ClausesOK
<1>2. 1 \in DOMAIN clauseLists /\ Clauses = clauseLists[1]
  BY <1>1 DEF Clauses
<1>3. AreLists(clauseLists)
  BY ClausesAreLists DEF Inv
<1>4. ASSUME NEW i \in DOMAIN Clauses
      PROVE  Clauses[i].type # "NESTED"
  <2>1. MadeOf(Clauses[i], 1)
    BY <1>2 DEF Inv, ClausesOK
  <2>2. 1 .. 1 - 1 = {}
    OBVIOUS
  <2>3. Clauses[i].type \in Comparisons \cup NullTests
    BY <2>1, <2>2 DEF MadeOf
  <2> QED
    BY <2>3 DEF Comparisons, NullTests
<1>5. ASSUME NEW object
      PROVE  Means(clauseLists, object) = Joined(Operators(Clauses), Truths(object))
  <2> DEFINE means == MeansIn(clauseLists, object)
  <2>1. means = [n \in DOMAIN clauseLists |->
                   Joined(Operators(clauseLists[n]),
                          [i \in DOMAIN clauseLists[n] |->
                             ClauseMeans(clauseLists[n][i], means, object)])]
    BY <1>3, MeansIs
  <2>2. Means(clauseLists, object) = means[1]
    BY <1>1 DEF Means
  <2> HIDE DEF means
  <2>3. means[1] = Joined(Operators(clauseLists[1]),
                          [i \in DOMAIN clauseLists[1] |->
                             ClauseMeans(clauseLists[1][i], means, object)])
    BY <1>2, <2>1
  <2> QED
    BY <1>2, <2>2, <2>3 DEF Truths, means
<1> QED
  BY <1>2, <1>4, <1>5

\* What the clause of a field says of a document is what it means.
LEMMA MemberMeans ==
  ASSUME Inv, backend = "couchdb", ~(kind = "UINT64" /\ SomeUpper),
         NEW i \in DOMAIN Clauses, NEW c, c = Clauses[i], c.field # "key",
         NEW k \in DOMAIN table, NEW means
  PROVE  /\ MemberSays(c, [field |-> table[k].kept]) = ClauseMeans(c, means, Object(k))
         /\ ClauseMeans(c, means, Object(k)) \in BOOLEAN
<1> DEFINE doc == [field |-> table[k].kept]
           g == table[k].given
           m == c.value.val
           a == Object(k).field
           o == Cmp(a, c.value)
<1>1. 1 \in DOMAIN clauseLists /\ Clauses = clauseLists[1] /\ c.type # "NESTED"
  BY CouchMeans
<1>2. /\ c.type \in Comparisons \cup NullTests /\ c.field = "field"
      /\ m \in Domain(kind) /\ c.value = FieldValue(kind, m)
  BY <1>1, ComparisonIs
<1>3. kind \in Kinds /\ backend \in Backends
  BY DEF Inv
<1>4. g \in Domain(kind) /\ table[k].kept = Stored(backend, FieldValue(kind, g))
  BY TableIs
<1>5. g \in Int /\ m \in Int
  BY <1>2, <1>3, <1>4, NumbersAreInts
<1>6. a = [type |-> kind, val |-> g] /\ c.value = [type |-> kind, val |-> m]
  BY <1>2, <1>3, <1>4, FieldValueIs, ObjectIs
<1>7. kind # "EMPTY"
  BY <1>3 DEF Kinds
<1>8. table[k].kept = g
  <2> DEFINE v == [type |-> kind, val |-> g]
  <2>1. table[k].kept = CouchMember(v) /\ v.type = kind /\ v.val = g
    BY <1>3, <1>4, FieldValueIs DEF Stored
  <2> HIDE DEF v
  <2>2. CASE kind # "UINT64"
    BY <2>1, <2>2 DEF CouchMember
  <2>3. CASE kind = "UINT64"
    <3>1. ~(g >= Half64)
      BY <2>3 DEF SomeUpper, Upper
    <3>2. g < Half64
      BY <1>5, <3>1, HalvesAre
    <3> QED
      BY <2>1, <2>3, <3>2 DEF CouchMember, AsSigned
  <2> QED
    BY <2>2, <2>3
<1>9. /\ Comparable(a, c.value) /\ o \in Int
      /\ g = m <=> o = 0
      /\ g < m <=> o < 0
  <2> HIDE DEF g, m, a
  <2> QED
    BY <1>5, <1>6, <1>7, CmpNumbers
<1>10. DOMAIN doc = {"field"} /\ doc["field"] = g /\ Object(k)["field"] = a
  BY <1>8
<1> HIDE DEF doc, g, m, a, o
<1>11. CASE c.type \in Comparisons
  <2>1. c.type \notin {"NESTED", "IS_NULL", "IS_NOT_NULL"}
    BY <1>11 DEF Comparisons
  <2>2. ClauseMeans(c, means, Object(k)) = (Comparable(a, c.value) /\ Says(c.type, o))
    BY <1>2, <1>10, <2>1 DEF ClauseMeans, o
  <2>3. MemberSays(c, doc) = Says(c.type, g - m)
    BY <1>2, <1>10, <2>1 DEF MemberSays, m
  <2>4. Says(c.type, g - m) = Says(c.type, o)
    BY <1>5, <1>9, <1>11, DifferenceSays, Zenon
  <2>5. Says(c.type, o) \in BOOLEAN
    BY <1>11, SaysIsTruth
  <2> QED
    BY <1>9, <2>2, <2>3, <2>4, <2>5 DEF doc
<1>12. CASE c.type \in NullTests
  <2>1. c.type = "IS_NULL" \/ c.type = "IS_NOT_NULL"
    BY <1>12 DEF NullTests
  <2>2. c.type = "IS_NULL" =>
          ClauseMeans(c, means, Object(k)) = FALSE /\ MemberSays(c, doc) = FALSE
    BY <1>2, <1>10 DEF ClauseMeans, MemberSays
  <2>3. c.type = "IS_NOT_NULL" =>
          ClauseMeans(c, means, Object(k)) = TRUE /\ MemberSays(c, doc) = TRUE
    BY <1>2, <1>10 DEF ClauseMeans, MemberSays
  <2> QED
    BY <2>1, <2>2, <2>3 DEF doc
<1> QED
  BY <1>2, <1>11, <1>12

\* A view of clauses about fields has what the clauses mean.
LEMMA EmittedAreMeant ==
  ASSUME Inv, backend = "couchdb", ~(kind = "UINT64" /\ SomeUpper),
         Clauses # << >>, Clauses[1].operator = "AND",
         \A i \in DOMAIN Clauses : Clauses[i].field # "key"
  PROVE  Emitted = Meant(FALSE)
<1>1. /\ Clauses \in Seq(Clause) /\ Len(Clauses) \in Nat
      /\ DOMAIN Clauses = 1 .. Len(Clauses)
  BY TopIs DEF Inv
<1>2. Len(Clauses) > 0
  BY <1>1
<1> DEFINE ops == Operators(Clauses)
<1>3. \A i \in 1 .. Len(Clauses) : Clauses[i].operator \in {"AND", "OR"}
  <2>1. \A i \in 1 .. Len(Clauses) : Clauses[i] \in Clause
    BY <1>1
  <2>2. \A c \in Clause : c.operator \in {"AND", "OR"}
    BY DEF Clause
  <2> QED
    BY <2>1, <2>2
<1>4. ops = [i \in 1 .. Len(Clauses) |-> Clauses[i].operator]
  BY <1>1 DEF Operators
<1>5. /\ ops \in Seq({"AND", "OR"}) /\ Len(ops) = Len(Clauses)
      /\ ops[1] = "AND"
  <2> HIDE DEF ops
  <2> QED
    BY <1>1, <1>2, <1>3, <1>4
<1> HIDE DEF ops
<1>6. ASSUME NEW k \in DOMAIN table
      PROVE  Emits(Clauses, TRUE, [field |-> table[k].kept])
               = Means(clauseLists, Object(k))
  <2> DEFINE doc == [field |-> table[k].kept]
             says == [i \in DOMAIN Clauses |-> MemberSays(Clauses[i], doc)]
             truths == Truths(Object(k))
  <2>1. \A i \in DOMAIN Clauses :
          /\ MemberSays(Clauses[i], doc)
               = ClauseMeans(Clauses[i], MeansIn(clauseLists, Object(k)), Object(k))
          /\ ClauseMeans(Clauses[i], MeansIn(clauseLists, Object(k)), Object(k))
               \in BOOLEAN
    BY MemberMeans
  <2> HIDE DEF doc
  <2>2. says = truths
    BY <2>1 DEF Truths
  <2>3. truths \in Seq(BOOLEAN) /\ Len(truths) = Len(Clauses)
    BY <1>1, <2>1 DEF Truths
  <2>4. Emits(Clauses, TRUE, doc) = Joined(<<"AND">> \o ops, <<TRUE>> \o says)
    BY DEF Emits, ops
  <2> HIDE DEF says, truths
  <2>5. Joined(<<"AND">> \o ops, <<TRUE>> \o truths) = Joined(ops, truths)
    BY <1>2, <1>5, <2>3, JoinedAfterTrue
  <2>6. Means(clauseLists, Object(k)) = Joined(ops, truths)
    BY CouchMeans DEF ops, truths
  <2> QED
    BY <2>2, <2>4, <2>5, <2>6 DEF doc
<1> QED
  BY <1>2, <1>6 DEF Emitted, Meant

\* The second kind of clauses CouchDB understands: each names another id.
NamesIds ==
  \A i \in DOMAIN Clauses :
    /\ Clauses[i].field = "key" /\ Clauses[i].type = "EQUAL"
    /\ i > 1 => Clauses[i].operator = "OR"

DifferentValues ==
  Cardinality({Clauses[i].value : i \in DOMAIN Clauses}) = Len(Clauses)

IdsOf(clauses) == [i \in DOMAIN clauses |-> clauses[i].value.val]

IdsFound == IdsOf(Clauses) \in Seq(DOMAIN table)

\* A clause about an id means the object that has it.
LEMMA IdMeans ==
  ASSUME Inv, backend = "couchdb", NEW i \in DOMAIN Clauses,
         Clauses[i].field = "key", Clauses[i].type = "EQUAL"
  PROVE  /\ Clauses[i].value = [type |-> "TEXT", val |-> Clauses[i].value.val]
         /\ Clauses[i].value.val \in Int
         /\ \A k \in DOMAIN table : \A means :
              ClauseMeans(Clauses[i], means, Object(k)) = (Clauses[i].value.val = k)
<1> DEFINE c == Clauses[i]
           m == c.value.val
<1>1. 1 \in DOMAIN clauseLists /\ Clauses = clauseLists[1] /\ c.type # "NESTED"
  BY CouchMeans
<1>2. PICK n \in Keys : c.value = KeyColumn(backend, n)
  BY <1>1, ComparisonIs
<1>3. n \in Int /\ backend \in Backends
  BY MaxObjectsType DEF Keys, Inv
<1>4. c.value = [type |-> "TEXT", val |-> n]
  BY <1>2, <1>3, KeyIs DEF KeyType, KeySeen
<1>5. c.value = [type |-> "TEXT", val |-> m] /\ m \in Int
  BY <1>3, <1>4
<1>6. ASSUME NEW k \in DOMAIN table, NEW means
      PROVE  ClauseMeans(c, means, Object(k)) = (m = k)
  <2> DEFINE a == Object(k).key
             o == Cmp(a, c.value)
  <2>1. k \in Int
    BY TableIs
  <2>2. a = [type |-> "TEXT", val |-> k]
    BY <1>3, <2>1, KeyIs, ObjectIs DEF KeyType, KeySeen
  <2>3. Comparable(a, c.value) /\ (o = 0 <=> k = m)
    <3> HIDE DEF a, m
    <3> QED
      BY <1>5, <2>1, <2>2, CmpNumbers
  <2> HIDE DEF a, o
  <2>4. ClauseMeans(c, means, Object(k)) = (Comparable(a, c.value) /\ Says("EQUAL", o))
    BY DEF ClauseMeans, a, o
  <2>5. Says("EQUAL", o) = (o = 0)
    BY DEF Says
  <2> QED
    BY <2>3, <2>4, <2>5
<1> QED
  BY <1>5, <1>6

\* As many ids as there are different values.
LEMMA DifferentIds ==
  ASSUME NEW N \in Nat, NEW V, NEW K,
         NEW f \in Surjection(1 .. N, V), NEW g \in Surjection(1 .. N, K),
         \A i \in 1 .. N : f[i] = [type |-> "TEXT", val |-> g[i]],
         Cardinality(V) = N
  PROVE  Cardinality(K) = N
<1>1. /\ IsFiniteSet(1 .. N)
      /\ Cardinality(1 .. N) = IF 1 > N THEN 0 ELSE N - 1 + 1
  BY FS_Interval
<1>2. Cardinality(1 .. N) = N
  BY <1>1
<1>4. f \in Injection(1 .. N, V)
  BY <1>1, <1>2, FS_SurjSameCardinalityImpliesInj
<1>5. \A i, j \in 1 .. N : f[i] = f[j] => i = j
  BY <1>4 DEF Injection, IsInjective
<1>6. ASSUME NEW i \in 1 .. N, NEW j \in 1 .. N, g[i] = g[j]
      PROVE  i = j
  <2>1. f[i] = f[j]
    BY <1>6
  <2> QED
    BY <1>5, <2>1
<1>7. g \in Bijection(1 .. N, K)
  BY <1>6 DEF Bijection, Surjection, Injection, IsInjective
<1>8. ExistsBijection(1 .. N, K)
  BY <1>7 DEF ExistsBijection
<1> QED
  BY <1>1, <1>2, <1>8, FS_Bijection

\* Documents that are looked up by different ids are those the clauses mean.
LEMMA IdsAreMeant ==
  ASSUME Inv, backend = "couchdb", Clauses # << >>, NamesIds, DifferentValues,
         IdsFound
  PROVE  /\ Len(IdsOf(Clauses)) = Cardinality(Meant(FALSE))
         /\ \A k \in Meant(FALSE) :
              \E i \in 1 .. Len(IdsOf(Clauses)) : IdsOf(Clauses)[i] = k
<1> DEFINE N == Len(Clauses)
           keys == IdsOf(Clauses)
           K == {keys[i] : i \in 1 .. N}
<1>1. N \in Nat /\ DOMAIN Clauses = 1 .. N
  BY TopIs DEF Inv
<1>2. \A i \in 1 .. N : keys[i] = Clauses[i].value.val
  BY <1>1 DEF IdsOf
<1>3. Len(keys) = N /\ \A i \in 1 .. N : keys[i] \in DOMAIN table
  <2>1. keys \in Seq(DOMAIN table)
    BY DEF IdsFound
  <2>2. DOMAIN keys = 1 .. N
    BY <1>1 DEF IdsOf
  <2> HIDE DEF keys, N
  <2> QED
    BY <1>1, <2>1, <2>2
<1>4. ASSUME NEW i \in 1 .. N
      PROVE  /\ Clauses[i].value = [type |-> "TEXT", val |-> keys[i]]
             /\ \A k \in DOMAIN table : \A means :
                  ClauseMeans(Clauses[i], means, Object(k)) = (keys[i] = k)
             /\ i > 1 => Operators(Clauses)[i] = "OR"
  <2>1. i \in DOMAIN Clauses
    BY <1>1
  <2>2. /\ Clauses[i].field = "key" /\ Clauses[i].type = "EQUAL"
        /\ i > 1 => Clauses[i].operator = "OR"
    BY <2>1 DEF NamesIds
  <2>3. i > 1 => Operators(Clauses)[i] = "OR"
    BY <2>1, <2>2 DEF Operators
  <2> HIDE DEF keys
  <2> QED
    BY <1>2, <2>1, <2>2, <2>3, IdMeans
<1> HIDE DEF keys
<1>5. ASSUME NEW k \in DOMAIN table
      PROVE  Means(clauseLists, Object(k)) <=> \E i \in 1 .. N : keys[i] = k
  <2> DEFINE truths == Truths(Object(k))
             ops == Operators(Clauses)
  <2> DEFINE means == MeansIn(clauseLists, Object(k))
  <2>0. ASSUME NEW i \in 1 .. N
        PROVE  ClauseMeans(Clauses[i], means, Object(k)) = (keys[i] = k)
    <3>1. \A x \in DOMAIN table : \A m :
            ClauseMeans(Clauses[i], m, Object(x)) = (keys[i] = x)
      BY <1>4
    <3> HIDE DEF means, N
    <3> QED
      BY <3>1
  <2>1. truths = [i \in 1 .. N |-> keys[i] = k]
    <3>1. truths = [i \in 1 .. N |-> ClauseMeans(Clauses[i], means, Object(k))]
      BY <1>1 DEF Truths
    <3> HIDE DEF N, means, truths
    <3> QED
      BY <2>0, <3>1
  <2>2. Means(clauseLists, Object(k)) = Joined(ops, truths)
    BY CouchMeans
  <2> HIDE DEF truths, ops, N
  <2>3. truths \in Seq(BOOLEAN) /\ Len(truths) = N /\ DOMAIN truths = 1 .. N
    BY <1>1, <2>1
  <2>4. \A i \in 2 .. N : i \in 1 .. N /\ i > 1
    BY <1>1
  <2>5. \A i \in 2 .. N : ops[i] = "OR"
    BY <1>4, <2>4 DEF ops
  <2>6. Joined(ops, truths) <=> \E i \in DOMAIN truths : truths[i]
    BY <2>3, <2>5, JoinedByOr
  <2> QED
    BY <2>1, <2>2, <2>3, <2>6
<1>6. Meant(FALSE) = {k \in DOMAIN table : Means(clauseLists, Object(k))}
  BY DEF Meant
<1>7. Meant(FALSE) = K
  BY <1>3, <1>5, <1>6
<1>8. Cardinality(K) = N
  <2> DEFINE V == {Clauses[i].value : i \in 1 .. N}
             f == [i \in 1 .. N |-> Clauses[i].value]
  <2>1. Cardinality(V) = N
    BY <1>1 DEF DifferentValues
  <2>2. f \in Surjection(1 .. N, V)
    BY DEF Surjection
  <2> DEFINE g == [i \in 1 .. N |-> keys[i]]
  <2>3. g \in Surjection(1 .. N, K)
    BY DEF Surjection
  <2>4. \A i \in 1 .. N : f[i] = [type |-> "TEXT", val |-> g[i]]
    BY <1>4
  <2> HIDE DEF N, V, f, g, K
  <2> QED
    BY <1>1, <2>1, <2>2, <2>3, <2>4, DifferentIds
<1> QED
  BY <1>3, <1>7, <1>8 DEF keys

----------------------------------------------------------------------------
(* The answers of the backends                                             *)

\* What a list that is read is made of: what is meant, each object once.
LEMMA SqlAnswers ==
  ASSUME MaxObjects < Half32, Inv, NEW l \in List, NEW all \in BOOLEAN,
         SqlRead(l, all), Understood(all)
  PROVE  \E keys \in Seq(DOMAIN table) :
           /\ Results(keys) \in Seq(Row)
           /\ \E restarts \in BOOLEAN, size \in Int : Open(l, Results(keys), restarts, size)
           /\ Len(keys) = Cardinality(Meant(all))
           /\ \A k \in Meant(all) : \E i \in 1 .. Len(keys) : keys[i] = k
<1>1. PICK keys \in SetToSeqs(SelectedRows(all)) :
        /\ keys \in Seq(DOMAIN table)
        /\ \E restarts \in BOOLEAN, size \in Int : Open(l, Results(keys), restarts, size)
  BY SqlReads
<1>2. backend # "couchdb" /\ Preparable(all)
  BY DEF SqlRead
<1>3. SelectedRows(all) = Meant(all)
  BY <1>2, SelectedAreMeant
<1>4. IsFiniteSet(Meant(all))
  BY TableIs, FS_Subset DEF Meant
<1>5. /\ Len(keys) = Cardinality(Meant(all)) /\ DOMAIN keys = 1 .. Cardinality(Meant(all))
      /\ \A k \in Meant(all) : \E i \in DOMAIN keys : keys[i] = k
  BY <1>1, <1>3, <1>4, SeqOfSet
<1>6. Results(keys) \in Seq(Row)
  BY <1>1, ResultsAre
<1> QED
  BY <1>1, <1>5, <1>6

LEMMA CouchAnswers ==
  ASSUME Inv, NEW l \in List, NEW all \in BOOLEAN, CouchRead(l, all), Understood(all)
  PROVE  \E keys \in Seq(DOMAIN table) :
           /\ Results(keys) \in Seq(Row)
           /\ Fill(l, Results(keys))
           /\ Len(keys) = Cardinality(Meant(all))
           /\ \A k \in Meant(all) : \E i \in 1 .. Len(keys) : keys[i] = k
<1>1. PICK keys \in Seq(DOMAIN table) :
        /\ Fill(l, Results(keys))
        /\ all => keys \in SetToSeqs(DOMAIN table)
        /\ ~all /\ OnlyIds(Clauses) =>
             keys = [i \in DOMAIN Clauses |-> Clauses[i].value.val]
        /\ ~all /\ ~OnlyIds(Clauses) => keys \in SetToSeqs(Emitted)
  BY CouchReads
<1>2. backend = "couchdb"
  BY DEF CouchRead
<1>3. IsFiniteSet(Meant(all))
  BY TableIs, FS_Subset DEF Meant
<1>4. ASSUME keys \in SetToSeqs(Meant(all))
      PROVE  /\ Len(keys) = Cardinality(Meant(all))
             /\ \A k \in Meant(all) : \E i \in 1 .. Len(keys) : keys[i] = k
  <2>1. /\ Len(keys) = Cardinality(Meant(all))
        /\ DOMAIN keys = 1 .. Cardinality(Meant(all))
        /\ \A k \in Meant(all) : \E i \in DOMAIN keys : keys[i] = k
    BY <1>3, <1>4, SeqOfSet
  <2> QED
    BY <2>1
<1>5. /\ Len(keys) = Cardinality(Meant(all))
      /\ \A k \in Meant(all) : \E i \in 1 .. Len(keys) : keys[i] = k
  <2>1. CASE all
    <3>1. Meant(all) = DOMAIN table
      BY <2>1 DEF Meant
    <3> QED
      BY <1>1, <1>4, <2>1, <3>1
  <2>2. CASE ~all
    <3>1. Meant(all) = Meant(FALSE)
      BY <2>2
    <3>2. /\ Clauses # << >>
          /\ \/ /\ \A i \in DOMAIN Clauses : Clauses[i].field # "key"
                /\ Clauses[1].operator = "AND"
                /\ ~(kind = "UINT64" /\ SomeUpper)
             \/ NamesIds /\ DifferentValues
      BY <1>2, <2>2 DEF Understood, NamesIds, DifferentValues
    <3>3. 1 \in DOMAIN Clauses
      <4>1. Clauses \in Seq(Clause)
        BY TopIs DEF Inv
      <4> QED
        BY <3>2, <4>1
    <3>4. CASE /\ \A i \in DOMAIN Clauses : Clauses[i].field # "key"
               /\ Clauses[1].operator = "AND"
               /\ ~(kind = "UINT64" /\ SomeUpper)
      <4>1. ~OnlyIds(Clauses)
        BY <3>3, <3>4 DEF OnlyIds
      <4>2. Emitted = Meant(FALSE)
        BY <1>2, <3>2, <3>4, EmittedAreMeant
      <4> QED
        BY <1>1, <1>4, <2>2, <3>1, <4>1, <4>2
    <3>5. CASE NamesIds /\ DifferentValues
      <4>1. OnlyIds(Clauses)
        BY <3>5 DEF OnlyIds, NamesIds
      <4>2. keys = IdsOf(Clauses)
        BY <1>1, <2>2, <4>1 DEF IdsOf
      <4>3. IdsFound
        BY <4>2 DEF IdsFound
      <4> QED
        BY <1>2, <3>1, <3>2, <3>5, <4>2, <4>3, IdsAreMeant
    <3> QED
      BY <3>2, <3>4, <3>5
  <2> QED
    BY <2>1, <2>2
<1>6. Results(keys) \in Seq(Row)
  BY ResultsAre
<1> QED
  BY <1>1, <1>5, <1>6

\* A list that is read has what is meant.
LEMMA ReadExact ==
  ASSUME MaxObjects < Half32, Inv, NEW l \in List, NEW all \in BOOLEAN,
         Read(l, all), Understood(all)
  PROVE  /\ Len(Content'[l]) = Cardinality(Meant(all))
         /\ \A k \in Meant(all) :
              \E i \in DOMAIN Content'[l] : Content'[l][i].key = KeyColumn(backend, k)
<1>1. PICK keys \in Seq(DOMAIN table) :
        /\ Results(keys) \in Seq(Row)
        /\ \/ \E restarts \in BOOLEAN, size \in Int : Open(l, Results(keys), restarts, size)
           \/ Fill(l, Results(keys))
        /\ Len(keys) = Cardinality(Meant(all))
        /\ \A k \in Meant(all) : \E i \in 1 .. Len(keys) : keys[i] = k
  BY SqlAnswers, CouchAnswers DEF Read
<1> DEFINE rows == Results(keys)
<1>2. ListInv /\ l \in DOMAIN Content
  BY DEF Inv, Content
<1>3. Content' = [Content EXCEPT ![l] = rows]
  <2> HIDE DEF rows
  <2>1. CASE \E restarts \in BOOLEAN, size \in Int : Open(l, rows, restarts, size)
    <3>1. PICK restarts \in BOOLEAN, size \in Int : Open(l, rows, restarts, size)
      BY <2>1
    <3> QED
      BY <1>1, <1>2, <3>1, OpenShows DEF rows
  <2>2. CASE Fill(l, rows)
    BY <1>1, <1>2, <2>2, OpenShows DEF rows
  <2> QED
    BY <1>1, <2>1, <2>2 DEF rows
<1>4. Content'[l] = rows
  BY <1>2, <1>3
<1>5. /\ Len(rows) = Len(keys) /\ DOMAIN rows = 1 .. Len(keys)
      /\ \A i \in 1 .. Len(keys) : rows[i] = ResultOf(keys[i])
  BY ResultsAre
<1>6. \A k : ResultOf(k).key = KeyColumn(backend, k)
  BY DEF ResultOf, ResultFor
<1> HIDE DEF rows
<1>7. ASSUME NEW k \in Meant(all)
      PROVE  \E i \in DOMAIN rows : rows[i].key = KeyColumn(backend, k)
  <2>1. PICK i \in 1 .. Len(keys) : keys[i] = k
    BY <1>1
  <2>2. rows[i] = ResultOf(k)
    BY <1>5, <2>1
  <2>3. rows[i].key = KeyColumn(backend, k)
    BY <1>6, <2>2
  <2> QED
    BY <1>5, <2>3
<1> QED
  BY <1>1, <1>4, <1>5, <1>7

\* A count is the number of what is meant.
LEMMA CountExact ==
  ASSUME MaxObjects < Half32, Inv, NEW all \in BOOLEAN, Count(all), Understood(all)
  PROVE  counted' \in {None, Cardinality(Meant(all))}
<1>1. CASE /\ backend # "couchdb" /\ Preparable(all)
           /\ counted' = Cardinality(SelectedRows(all))
  BY <1>1, SelectedAreMeant
<1>2. CASE counted' = None
  BY <1>2
<1> QED
  BY <1>1, <1>2 DEF Count

----------------------------------------------------------------------------
(* The theorems about the program                                          *)

(***************************************************************************)
(* Whatever the program calls, its clauses were made by libdbo_clause_new  *)
(* and its setters and their lists come before them, the table keeps of    *)
(* each object what was stored for its number, and each result in a list   *)
(* is that of an object of the table.                                      *)
(***************************************************************************)
THEOREM InvAlways == Spec => []Inv
BY InvInit, InvStep, PTL DEF Spec

(***************************************************************************)
(* The objects, clause lists and result lists of a program stay what they  *)
(* are: every clause has a value or a list made before its own, and no     *)
(* more objects are counted than there are.                                *)
(***************************************************************************)
THEOREM TypeAlways == Spec => []TypeOK
BY InvAlways, TypeGiven, PTL

(***************************************************************************)
(* Whatever clauses a program adds, nested to any depth, bind_clause gives *)
(* each place that build_clause has written the value of its own clause    *)
(* and no other value, or it fails.                                        *)
(***************************************************************************)
THEOREM PlacesFilledAlways == Spec => []PlacesFilled
BY InvAlways, PlacesGiven, PTL

(***************************************************************************)
(* However it was read, walked to, loaded and copied, a result makes an    *)
(* object with the number the object was created with, or none: as long as *)
(* the keys fit the int that SQLite's primary key is read into.            *)
(***************************************************************************)
THEOREM FieldsSurviveAlways ==
  ASSUME MaxObjects < Half32
  PROVE  Spec => []FieldsSurvive
<1>1. Inv => FieldsSurvive
  BY FieldsGiven
<1> QED
  BY <1>1, InvAlways, PTL

(***************************************************************************)
(* What the program does with its result lists is what ListSpec allows:    *)
(* the reads of the three backends make no lists but those.                *)
(***************************************************************************)
THEOREM ReadsAreLists == Spec => ListSpec
<1>1. Init => ListInit
  BY DEF Init
<1>2. Inv /\ [Next]_vars => [ListStep]_listVars
  BY StepOfLists
<1> QED
  BY <1>1, <1>2, InvAlways, PTL DEF Spec, ListSpec

(***************************************************************************)
(* So the program's results are owned once, its lists tell their sizes,    *)
(* and they keep the promise of RowList, over any of the backends.         *)
(***************************************************************************)
THEOREM ReadsKeepRows == Spec => []OwnedOnce /\ []SizeTells /\ KeepsRows
BY ReadsAreLists, OwnedOnceAlways, SizeTellsAlways, KeepsRowsAlways, PTL

(***************************************************************************)
(* A list that is read for clauses the backend understands has exactly the *)
(* objects they mean, and a count is their number: for any clauses, nested *)
(* to any depth, over tables of any size below the int a key is read into. *)
(***************************************************************************)
THEOREM AnswersAreExactAlways ==
  ASSUME MaxObjects < Half32
  PROVE  Spec => AnswersAreExact
<1> DEFINE Exact(all) ==
             Understood(all) =>
               /\ \A l \in List :
                    ~list[l].made /\ list'[l].made /\ Read(l, all) =>
                      /\ Len(Content'[l]) = Cardinality(Meant(all))
                      /\ \A k \in Meant(all) :
                           \E i \in DOMAIN Content'[l] :
                             Content'[l][i].key = KeyColumn(backend, k)
               /\ Count(all) => counted' \in {None, Cardinality(Meant(all))}
           AllExact == \A all \in BOOLEAN : Exact(all)
<1>1. ASSUME Inv
      PROVE  AllExact
  BY <1>1, ReadExact, CountExact
<1>2. Inv /\ [Next]_vars => [AllExact]_vars
  BY <1>1
<1> QED
  BY <1>2, InvAlways, PTL DEF Spec, AnswersAreExact

=============================================================================
