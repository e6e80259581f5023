----------------------------- MODULE Conditions -----------------------------
(***************************************************************************)
(* Clause lists (libdbo_clause.c) and what each backend makes of them: the *)
(* WHERE of a statement with a place for each value and the binds for the  *)
(* places, or the map function of a view.                                  *)
(*                                                                         *)
(* A clause has a type, the operator between the clause before it and      *)
(* itself, a field and a value, or else a list of clauses.  The lists are  *)
(* numbered, each after the lists that its clauses have: the last one is   *)
(* the one a backend is given.  What the code does by calling itself for   *)
(* the list of a clause is a function of the number of the list.           *)
(***************************************************************************)
EXTENDS Columns, Sequences, SequencesExt

Comparisons ==
  {"EQUAL", "NOT_EQUAL", "LESS_THEN", "LESS_OR_EQUAL", "GREATER_OR_EQUAL",
   "GREATER_THEN"}

NullTests == {"IS_NULL", "IS_NOT_NULL"}

Orderings == Comparisons \ {"EQUAL", "NOT_EQUAL"}

\* The clause_list of a clause without one.
NoClauseList == 0

\* A clause of a generated object, "key" or "field" being the field's name.
Comparison(type, operator, field, value) ==
  [type |-> type, operator |-> operator, field |-> field, value |-> value,
   list |-> NoClauseList]

\* A clause with a list has neither a field nor a value.
Nested(operator, list) ==
  [type |-> "NESTED", operator |-> operator, field |-> "none", value |-> Empty,
   list |-> list]

\* libdbo_clause_not_empty, which is asked by libdbo_clause_list_add: every
\* clause but a nested one needs a value, IS_NULL as well.
NotEmpty(clause) ==
  IF clause.type = "NESTED" THEN clause.list # NoClauseList
  ELSE clause.field # "none" /\ clause.value.type \notin {"EMPTY", "ERROR"}

\* libdbo_clause_list_add
ListAdd(list, clause) ==
  IF NotEmpty(clause) THEN Append(list, clause) ELSE list

----------------------------------------------------------------------------
(* The truth of a list                                                     *)

\* What a comparison says of the order of the field and the value.
Says(type, order) ==
  CASE type = "EQUAL"            -> order = 0
    [] type = "NOT_EQUAL"        -> order # 0
    [] type = "LESS_THEN"        -> order < 0
    [] type = "LESS_OR_EQUAL"    -> order <= 0
    [] type = "GREATER_OR_EQUAL" -> order >= 0
    [] type = "GREATER_THEN"     -> order > 0

\* AND binds closer than OR, in SQL as in JavaScript: one of the runs of
\* clauses between the ORs is true.
Joined(operators, truth) ==
  LET or(i) == i = 1 \/ operators[i] = "OR" IN
  \E i \in DOMAIN truth :
    /\ or(i)
    /\ \A j \in i .. Len(truth) :
         truth[j] \/ \E k \in (i + 1) .. j : or(k)

Operators(list) == [i \in DOMAIN list |-> list[i].operator]

\* What a clause means for an object, given what the lists mean.  The fields
\* are values, libdbo_value_cmp is their order, and none is ever missing.
ClauseMeans(c, means, object) ==
  CASE c.type = "NESTED"      -> means[c.list]
    [] c.type = "IS_NULL"     -> FALSE
    [] c.type = "IS_NOT_NULL" -> TRUE
    [] OTHER -> /\ Comparable(object[c.field], c.value)
                /\ Says(c.type, Cmp(object[c.field], c.value))

\* What each list means.  The operator of a first clause means nothing.
MeansIn(lists, object) ==
  LET means[n \in DOMAIN lists] ==
        Joined(Operators(lists[n]),
               [i \in DOMAIN lists[n] |->
                  ClauseMeans(lists[n][i], means, object)])
  IN  means

Means(lists, object) == MeansIn(lists, object)[Len(lists)]

----------------------------------------------------------------------------
(* The WHERE of a statement (build_clause)                                 *)

\* The places a clause has in the statement, given those of the lists.
Places(clause, places) ==
  CASE clause.type = "NESTED"      -> places[clause.list]
    [] clause.type \in Comparisons -> 1
    [] OTHER                       -> 0

\* The places of the first clauses of a list.
PlacesUpTo(list, places) ==
  LET upTo[i \in 0 .. Len(list)] ==
        IF i = 0 THEN 0 ELSE upTo[i - 1] + Places(list[i], places)
  IN  upTo

PlacesIn(lists) ==
  LET places[n \in DOMAIN lists] ==
        PlacesUpTo(lists[n], places)[Len(lists[n])]
  IN  places

\* The places of a statement.
PlacesOf(lists) == PlacesIn(lists)[Len(lists)]

\* The statement's conditions.  A place is a question mark and has no number:
\* it is counted through the text, from the places before it in its list.
Build(lists) ==
  [n \in DOMAIN lists |->
     [i \in DOMAIN lists[n] |->
        [type |-> lists[n][i].type, operator |-> lists[n][i].operator,
         field |-> lists[n][i].field, list |-> lists[n][i].list,
         before |-> PlacesUpTo(lists[n], PlacesIn(lists))[i - 1]]]]

\* The parentheses of an empty list are no SQL.
IsSql(lists) ==
  \A n \in DOMAIN lists : \A i \in DOMAIN lists[n] :
    lists[n][i].type = "NESTED" => lists[lists[n][i].list] # << >>

\* A condition holds for a row, given the places before its list, the values
\* bound to the places, and which lists hold.  No column is NULL.
Holds(c, selects, before, bound, row) ==
  CASE c.type = "NESTED"      -> selects[c.list][before + c.before]
    [] c.type = "IS_NULL"     -> FALSE
    [] c.type = "IS_NOT_NULL" -> TRUE
    [] OTHER -> Says(c.type, row[c.field] - bound[before + c.before + 1])

SelectsIn(where, bound, row) ==
  LET selects[n \in DOMAIN where] ==
        [before \in Nat |->
           Joined(Operators(where[n]),
                  [i \in DOMAIN where[n] |->
                     Holds(where[n][i], selects, before, bound, row)])]
  IN  selects

\* Mutant: a nested list is written without its parentheses.
SelectsUnnested(where, bound, row) ==
  LET In(c) ==
        [i \in DOMAIN where[c.list] |->
           LET inner == where[c.list][i] IN
           [inner EXCEPT !.before = @ + c.before,
                         !.operator = IF i = 1 THEN c.operator ELSE @]]
      top == where[Len(where)]
      conditions ==
        FlattenSeq([i \in DOMAIN top |->
          IF top[i].type = "NESTED" THEN In(top[i]) ELSE <<top[i]>>])
  IN  Joined(Operators(conditions),
             [i \in DOMAIN conditions |->
                Holds(conditions[i], SelectsIn(where, bound, row), 0, bound, row)])

\* The statement selects a row.
Selects(where, bound, row) == SelectsIn(where, bound, row)[Len(where)][0]

----------------------------------------------------------------------------
(* The binds (bind_clause)                                                 *)

\* Mutant: the position of a nested list is its own, and the list around it
\* goes on where it was.
SqliteTakesByValue(c, bound, binds) ==
  CASE c.type = "NESTED"      -> SubSeq(binds[c.list][bound], 1, Len(bound))
    [] c.type \in Comparisons -> Append(bound, SqliteBind(c.value))
    [] OTHER                  -> bound

\* The values SQLite is given for the places so far: a position runs through
\* the list and the lists in it, and only comparisons take a place.
SqliteTakes(c, bound, binds) ==
  CASE c.type = "NESTED"      -> binds[c.list][bound]
    [] c.type \in Comparisons -> Append(bound, SqliteBind(c.value))
    [] OTHER                  -> bound

SqliteWalk(list, bound, binds) ==
  LET walk[i \in 0 .. Len(list)] ==
        IF i = 0 THEN bound ELSE SqliteTakes(list[i], walk[i - 1], binds)
  IN  walk

SqliteBinds(lists) ==
  LET binds[n \in DOMAIN lists] ==
        [bound \in Seq(Int) |->
           SqliteWalk(lists[n], bound, binds)[Len(lists[n])]]
  IN  binds

\* The binds of MySQL are made for the places beforehand, and the position is a
\* pointer into them, which is NULL behind the last.
MysqlBinding == [ok : BOOLEAN, at : Nat \ {0}, bound : Seq(Int)]

NoBind == [ok |-> FALSE, at |-> 1, bound |-> << >>]

NoneLeft(b) == ~b.ok \/ b.at > Len(b.bound)

Skip(b) == [b EXCEPT !.at = @ + 1]

\* Every clause needs a bind and takes it, also those that have no place, and a
\* nested list takes one before its own clauses.
MysqlTakes(c, b, binds) ==
  IF NoneLeft(b) THEN NoBind
  ELSE CASE c.type = "NESTED"      -> binds[c.list][Skip(b)]
         [] c.type \in Comparisons ->
              Skip([b EXCEPT !.bound = ReplaceAt(@, b.at, MysqlBind(c.value))])
         [] OTHER                  -> Skip(b)

MysqlWalk(list, b, binds) ==
  LET walk[i \in 0 .. Len(list)] ==
        IF i = 0 THEN b ELSE MysqlTakes(list[i], walk[i - 1], binds)
  IN  walk

\* A list that is entered without a bind left is an error.
MysqlBinds(lists) ==
  LET binds[n \in DOMAIN lists] ==
        [b \in MysqlBinding |->
           IF NoneLeft(b) THEN NoBind
           ELSE MysqlWalk(lists[n], b, binds)[Len(lists[n])]]
  IN  binds

\* The binds of a statement's conditions.
Binds(backend, lists) ==
  IF backend = "sqlite"
  THEN [ok |-> TRUE, at |-> 1, bound |-> SqliteBinds(lists)[Len(lists)][<< >>]]
  ELSE MysqlBinds(lists)[Len(lists)]
         [[ok |-> TRUE, at |-> 1, bound |-> [i \in 1 .. PlacesOf(lists) |-> 0]]]

\* The value of a clause is in its place, given the places before its list and
\* which lists are filled.
InPlace(backend, c, condition, filled, before, bound) ==
  LET place == before + condition.before + 1 IN
  CASE c.type = "NESTED"      -> filled[c.list][before + condition.before]
    [] c.type \in Comparisons -> /\ place \in DOMAIN bound
                                 /\ bound[place] = Stored(backend, c.value)
    [] OTHER                  -> TRUE

\* The values of a list, and of the lists in it, are in the places of the
\* statement that belong to their clauses.
FilledIn(backend, lists, where, bound) ==
  LET filled[n \in DOMAIN lists] ==
        [before \in Nat |->
           \A i \in DOMAIN lists[n] :
             InPlace(backend, lists[n][i], where[n][i], filled, before, bound)]
  IN  filled

----------------------------------------------------------------------------
(* The map function of a view (build_map_function)                         *)

\* JavaScript takes a member the document does not have for undefined: it
\* equals nothing but null, and has no order.
UndefinedSays(type) == type \in {"NOT_EQUAL", "IS_NULL"}

MemberSays(clause, doc) ==
  CASE clause.field \notin DOMAIN doc -> UndefinedSays(clause.type)
    [] clause.type = "IS_NULL"     -> FALSE
    [] clause.type = "IS_NOT_NULL" -> TRUE
    [] OTHER -> Says(clause.type, doc[clause.field] - clause.value.val)

\* The view has a document: the test of its type is followed by the operator of
\* the first clause.  doc has the members the clauses name, which the key is
\* not among.
Emits(list, isObject, doc) ==
  Joined(<<"AND">> \o Operators(list),
         <<isObject>> \o [i \in DOMAIN list |-> MemberSays(list[i], doc)])

\* An enumeration value cannot be written into a map function.
IsMapFunction(list) ==
  \A i \in DOMAIN list :
    list[i].type \in Comparisons => list[i].value.type # "ENUM"

\* The clauses only name the primary key; so they do when there are none.
OnlyIds(list) == \A i \in DOMAIN list : list[i].field = "key"

=============================================================================
