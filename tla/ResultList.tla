----------------------------- MODULE ResultList -----------------------------
(***************************************************************************)
(* The result lists of libdbo_result.c: lists in memory, lists that read   *)
(* their rows from a statement of a backend one at a time, and how the     *)
(* latter become the former.                                               *)
(***************************************************************************)
EXTENDS Integers, Sequences

CONSTANTS
  List,          \* the lists a program has at a time
  Row,           \* the results
  NoRow          \* NULL

ASSUME NoRowType == NoRow \notin Row

VARIABLES
  list,          \* the libdbo_result_list_t of each list
  statement,     \* the statement behind a list's next function
  answer,        \* what begin or next has returned last, NULL at first
  live           \* results made for a list and not freed yet

listVars == <<list, statement, answer, live>>

\* The size of a list whose size is not known: (size_t)-1.
SizeUnknown == -1

\* A list in memory has a position in its items, 0 for NULL; one that reads
\* from a statement holds the result it has returned last.
NoList ==
  [made |-> FALSE, items |-> << >>, pos |-> 0, begun |-> FALSE,
   next |-> FALSE, held |-> NoRow, size |-> 0]

Reading(size) ==
  [made |-> TRUE, items |-> << >>, pos |-> 0, begun |-> FALSE,
   next |-> TRUE, held |-> NoRow, size |-> size]

InMemory(items, pos) ==
  [made |-> TRUE, items |-> items, pos |-> pos, begun |-> FALSE,
   next |-> FALSE, held |-> NoRow, size |-> Len(items)]

\* at is the number of rows the statement has been stepped past, one more at
\* the end.  An SQLite statement restarts when it is stepped after its end.
NoStatement == [open |-> FALSE, rows |-> << >>, at |-> 0, restarts |-> FALSE]

ListTypeOK ==
  /\ list \in [List -> [made : BOOLEAN, items : Seq(Row), pos : Nat,
                        begun : BOOLEAN, next : BOOLEAN,
                        held : Row \cup {NoRow}, size : Int]]
  /\ statement \in [List -> [open : BOOLEAN, rows : Seq(Row), at : Nat,
                             restarts : BOOLEAN]]
  /\ answer \in [List -> Row \cup {NoRow}]
  /\ live \in [List -> Nat]

ListInit ==
  /\ list = [l \in List |-> NoList]
  /\ statement = [l \in List |-> NoStatement]
  /\ answer = [l \in List |-> NoRow]
  /\ live = [l \in List |-> 0]

----------------------------------------------------------------------------
(* Making lists                                                            *)

\* A read of SQLite or MySQL: libdbo_result_list_new, and _set_next with the
\* statement and the size the backend knows.
Open(l, rows, restarts, size) ==
  /\ ~list[l].made
  /\ list' = [list EXCEPT ![l] = Reading(size)]
  /\ statement' = [statement EXCEPT ![l] =
                     [open |-> TRUE, rows |-> rows, at |-> 0,
                      restarts |-> restarts]]
  /\ UNCHANGED <<answer, live>>

\* A read of CouchDB: its results are added one by one.
Fill(l, rows) ==
  /\ ~list[l].made
  /\ list' = [list EXCEPT ![l] = InMemory(rows, 0)]
  /\ live' = [live EXCEPT ![l] = @ + Len(rows)]
  /\ UNCHANGED <<statement, answer>>

----------------------------------------------------------------------------
(* The next function of a statement                                        *)

\* Where a statement is after its end or after a failure.
Over(s) == IF s.restarts THEN 0 ELSE Len(s.rows) + 1

\* What the next function can return, and where the statement is then: the next
\* row, or NULL when the row cannot be made into a result, at the end, and when
\* the database fails.
Fetches(s) ==
  (IF s.at < Len(s.rows)
   THEN {[row |-> s.rows[s.at + 1], at |-> s.at + 1],
         [row |-> NoRow, at |-> s.at + 1]}
   ELSE {})
    \cup {[row |-> NoRow, at |-> Over(s)]}

\* The next function is called, after the result it has returned before was
\* freed.
Fetch(l) ==
  \E f \in Fetches(statement[l]) :
    /\ list' = [list EXCEPT ![l].held = f.row]
    /\ statement' = [statement EXCEPT ![l].at = f.at]
    /\ answer' = [answer EXCEPT ![l] = f.row]
    /\ live' = [live EXCEPT ![l] =
                  (@ - (IF list[l].held # NoRow THEN 1 ELSE 0))
                    + (IF f.row # NoRow THEN 1 ELSE 0)]

----------------------------------------------------------------------------
(* Walking through a list                                                  *)

\* A list in memory goes to a position of its items.
GoTo(l, p) ==
  /\ list' = [list EXCEPT ![l].pos = p, ![l].begun = TRUE]
  /\ answer' = [answer EXCEPT ![l] =
                  IF p = 0 THEN NoRow ELSE list[l].items[p]]
  /\ UNCHANGED <<statement, live>>

\* A list that reads from a statement is only begun when it holds no result:
\* before its first one and after a NULL.
Begin(l) ==
  /\ list[l].made
  /\ \/ /\ list[l].next /\ list[l].held # NoRow
        /\ answer' = [answer EXCEPT ![l] = NoRow]
        /\ UNCHANGED <<list, statement, live>>
     \/ /\ list[l].next /\ list[l].held = NoRow
        /\ Fetch(l)
     \/ /\ ~list[l].next
        /\ GoTo(l, IF list[l].items = << >> THEN 0 ELSE 1)

\* Mutant: a copy goes on where the list it is made of was.
FollowingCurrent(r) ==
  IF r.items = << >> \/ (r.begun /\ r.pos = 0) \/ r.pos = Len(r.items) THEN 0
  ELSE r.pos + 1

\* The position after the one a list in memory is at, which is its first before
\* the list is begun.
Following(r) ==
  IF ~r.begun THEN (IF r.items = << >> THEN 0 ELSE 1)
  ELSE IF r.pos = 0 \/ r.pos = Len(r.items) THEN 0
  ELSE r.pos + 1

ListNext(l) ==
  /\ list[l].made
  /\ IF list[l].next THEN Fetch(l) ELSE GoTo(l, Following(list[l]))

----------------------------------------------------------------------------
(* Loading, copying and freeing                                            *)

\* Mutant: the size is not reset.
FetchAllKeepingSize(l) ==
  /\ list[l].made
  /\ list[l].next /\ list[l].held = NoRow
  /\ LET s == statement[l] IN
     \E m \in 0 .. Len(s.rows) :
       LET rows == SubSeq(s.rows, s.at + 1, m) IN
       /\ list' = [list EXCEPT ![l] =
                     [InMemory(rows, 0) EXCEPT !.size =
                        list[l].size + Len(rows)]]
       /\ live' = [live EXCEPT ![l] = @ + Len(rows)]
  /\ statement' = [statement EXCEPT ![l] = NoStatement]
  /\ UNCHANGED answer

\* The next function is called until it returns NULL, which is taken for the
\* end, and its statement is finished.  Refused while a result is held.
FetchAll(l) ==
  /\ list[l].made
  /\ list[l].next /\ list[l].held = NoRow
  /\ LET s == statement[l] IN
     \E m \in 0 .. Len(s.rows) :
       LET rows == SubSeq(s.rows, s.at + 1, m) IN
       /\ list' = [list EXCEPT ![l] = InMemory(rows, 0)]
       /\ live' = [live EXCEPT ![l] = @ + Len(rows)]
  /\ statement' = [statement EXCEPT ![l] = NoStatement]
  /\ UNCHANGED answer

\* libdbo_result_list_new_copy: only a list in memory can be copied.  A copy is
\* not begun, wherever the list it is made of is.
NewCopy(l, to) ==
  /\ list[l].made /\ ~list[l].next /\ ~list[to].made
  /\ list' = [list EXCEPT ![to] = InMemory(list[l].items, list[l].pos)]
  /\ live' = [live EXCEPT ![to] = @ + Len(list[l].items)]
  /\ UNCHANGED <<statement, answer>>

\* libdbo_result_list_copy into an empty list that fails on its way leaves the
\* results copied so far in it.
CopyFails(l, to) ==
  /\ list[l].made /\ ~list[l].next /\ ~list[to].made
  /\ \E m \in 0 .. Len(list[l].items) - 1 :
       /\ list' = [list EXCEPT ![to] =
                     InMemory(SubSeq(list[l].items, 1, m),
                              IF list[l].pos <= m THEN list[l].pos ELSE 0)]
       /\ live' = [live EXCEPT ![to] = @ + m]
  /\ UNCHANGED <<statement, answer>>

\* Mutant: the result a list holds is freed only when the list is in memory.
FreeForgettingHeld(l) ==
  /\ list[l].made
  /\ live' = [live EXCEPT ![l] = @ - Len(list[l].items)]
  /\ list' = [list EXCEPT ![l] = NoList]
  /\ statement' = [statement EXCEPT ![l] = NoStatement]
  /\ answer' = [answer EXCEPT ![l] = NoRow]

\* The items are freed, and of a list with a next function the statement and
\* the result it holds.
Free(l) ==
  /\ list[l].made
  /\ live' = [live EXCEPT ![l] =
                @ - (Len(list[l].items)
                      + IF list[l].next /\ list[l].held # NoRow THEN 1 ELSE 0)]
  /\ list' = [list EXCEPT ![l] = NoList]
  /\ statement' = [statement EXCEPT ![l] =
                     IF list[l].next THEN NoStatement ELSE @]
  /\ answer' = [answer EXCEPT ![l] = NoRow]

Walk(l) ==
  \/ Begin(l) \/ ListNext(l) \/ FetchAll(l) \/ Free(l)
  \/ \E to \in List : NewCopy(l, to) \/ CopyFails(l, to)

ListStep ==
  \E l \in List :
    \/ \E rows \in Seq(Row), restarts \in BOOLEAN, size \in Int :
         Open(l, rows, restarts, size)
    \/ \E rows \in Seq(Row) : Fill(l, rows)
    \/ Walk(l)

ListSpec == ListInit /\ [][ListStep]_listVars

----------------------------------------------------------------------------
(* Properties                                                              *)

(***************************************************************************)
(* Every result that was made is an item of its list or the one the list   *)
(* holds, and a statement is open exactly when its list can still read     *)
(* from it: nothing is freed twice or never, however a list was walked,    *)
(* loaded and copied.                                                      *)
(***************************************************************************)
OwnedOnce ==
  \A l \in List :
    /\ live[l] = Len(list[l].items) + (IF list[l].held # NoRow THEN 1 ELSE 0)
    /\ statement[l].open <=> list[l].next

(***************************************************************************)
(* libdbo_result_list_size tells the number of results of a list in        *)
(* memory, whatever the backend said of its size before it was loaded, and *)
(* the position of the list is one of them.                                *)
(***************************************************************************)
SizeTells ==
  \A l \in List :
    ~list[l].next =>
      /\ list[l].size = Len(list[l].items)
      /\ list[l].pos \in 0 .. Len(list[l].items)

\* The rows a list has, and how many of them it has yielded.
Content ==
  [l \in List |->
     IF list[l].next THEN statement[l].rows ELSE list[l].items]

Yielded ==
  [l \in List |->
     IF list[l].next THEN statement[l].at
     ELSE IF ~list[l].begun THEN 0
     ELSE IF list[l].pos = 0 THEN Len(list[l].items) + 1
     ELSE list[l].pos]

Promise == INSTANCE RowList WITH content <- Content, pos <- Yielded

(***************************************************************************)
(* A list yields its rows one by one and in order; a row is lost or seen   *)
(* again only where begin or next has returned NULL, which the program     *)
(* cannot tell from the end.                                               *)
(***************************************************************************)
KeepsRows == Promise!Init /\ [][Promise!Next]_(Promise!vars)

=============================================================================
