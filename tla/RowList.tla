------------------------------ MODULE RowList ------------------------------
(***************************************************************************)
(* What a result list promises, however it gets its rows: it yields them   *)
(* one by one and in their order.  A NULL is the end of the list, or a     *)
(* failure; only there a row can be lost, and only there, or when the list *)
(* is begun again, the rows start over.                                    *)
(***************************************************************************)
EXTENDS Naturals, Sequences

CONSTANTS List, Row, NoRow

VARIABLES
  content,       \* the rows of each list
  pos,           \* how many of them have been yielded; one more at the end
  answer         \* what begin or next has returned last

vars == <<content, pos, answer>>

Init ==
  /\ content = [l \in List |-> << >>]
  /\ pos = [l \in List |-> 0]
  /\ answer = [l \in List |-> NoRow]

\* A read.
Open(l) ==
  /\ content[l] = << >>
  /\ content'[l] \in Seq(Row)
  /\ content' = [content EXCEPT ![l] = content'[l]]
  /\ pos' = [pos EXCEPT ![l] = 0]
  /\ answer' = [answer EXCEPT ![l] = NoRow]

Yield(l) ==
  /\ pos[l] < Len(content[l])
  /\ pos' = [pos EXCEPT ![l] = @ + 1]
  /\ answer' = [answer EXCEPT ![l] = content[l][pos[l] + 1]]
  /\ UNCHANGED content

\* Begin.
StartOver(l) ==
  /\ content[l] # << >>
  /\ pos' = [pos EXCEPT ![l] = 1]
  /\ answer' = [answer EXCEPT ![l] = content[l][1]]
  /\ UNCHANGED content

\* The end or a failure, after which the list is over, or has lost a row, or
\* starts over; or a call that is refused.
Null(l) ==
  /\ \E p \in {0, pos[l], pos[l] + 1, Len(content[l]) + 1} :
       pos' = [pos EXCEPT ![l] = p]
  /\ answer' = [answer EXCEPT ![l] = NoRow]
  /\ UNCHANGED content

\* The rows to come are loaded into memory, up to a failure.
Load(l) ==
  /\ \E m \in 0 .. Len(content[l]) :
       content' = [content EXCEPT ![l] = SubSeq(@, pos[l] + 1, m)]
  /\ pos' = [pos EXCEPT ![l] = 0]
  /\ UNCHANGED answer

\* A list without rows gets those of another one, up to a failure.
Copy(l, to) ==
  /\ content[to] = << >>
  /\ \E m \in 0 .. Len(content[l]) :
       content' = [content EXCEPT ![to] = SubSeq(content[l], 1, m)]
  /\ pos' = [pos EXCEPT ![to] = 0]
  /\ UNCHANGED answer

Close(l) ==
  /\ content' = [content EXCEPT ![l] = << >>]
  /\ pos' = [pos EXCEPT ![l] = 0]
  /\ answer' = [answer EXCEPT ![l] = NoRow]

Next ==
  \E l \in List :
    \/ Open(l) \/ Yield(l) \/ StartOver(l) \/ Null(l) \/ Load(l) \/ Close(l)
    \/ \E to \in List : Copy(l, to)

Spec == Init /\ [][Next]_vars

=============================================================================
