------------------------------- MODULE Reads -------------------------------
(***************************************************************************)
(* A program that creates objects, builds clause lists, and reads, counts  *)
(* and walks through what it has read, over any of the backends.  The      *)
(* parts are Conditions (with Columns and Values) and ResultList.          *)
(*                                                                         *)
(* The objects have a primary key and a field of one kind.  Their keys are *)
(* the positions in the table.                                             *)
(***************************************************************************)
EXTENDS Conditions, ResultList, FiniteSets

CONSTANTS
  Samples,       \* the numbers given to fields of each kind
  ClauseTypes,   \* types of the clauses the program makes
  InnerTypes,    \* types of the clauses in a list within a list
  MaxObjects,    \* bound: objects in the table
  MaxClauses,    \* bound, for each kind: clauses in a list
  MaxLists       \* bound, for each kind: clause lists, those within included

\* The numbers a field can be given: an enumeration is an int in C.
Given(kind) == IF kind = "ENUM" THEN Domain("INT32") ELSE Domain(kind)

\* The result of an object with a field of one kind.
ResultFor(backend, kind, key, kept) ==
  [key |-> KeyColumn(backend, key), field |-> Column(backend, kind, kept)]

ASSUME SamplesType ==
  \A kind \in Kinds : \A n \in Samples[kind] : n \in Given(kind)
ASSUME ClauseTypesType ==
  ClauseTypes \cup InnerTypes \subseteq Comparisons \cup NullTests
ASSUME MaxObjectsType == MaxObjects \in Nat
ASSUME ResultsAreRows ==
  \A backend \in Backends, kind \in Kinds : \A n \in Samples[kind] :
    FieldValue(kind, n) # Error =>
      \A key \in 1 .. MaxObjects :
        ResultFor(backend, kind, key, Stored(backend, FieldValue(kind, n))) \in Row

VARIABLES
  backend,       \* which backend the program is configured for
  kind,          \* the type of the field
  others,        \* has the CouchDB database documents of another table?
  table,         \* the objects: the number given and what is kept of it
  clauseLists,   \* the clause lists of the program, the last to be given to a call
  counted        \* what a count has set, if the last call was one and returned OK

setting == <<backend, kind, others>>
vars == <<setting, table, clauseLists, counted, listVars>>

None == -1

Keys == 1 .. MaxObjects

\* The program has an empty list.
NoClauses == << << >> >>

Init ==
  /\ backend \in Backends
  /\ kind \in Kinds
  /\ others \in (IF backend = "couchdb" THEN BOOLEAN ELSE {FALSE})
  /\ table = << >>
  /\ clauseLists = NoClauses
  /\ counted = None
  /\ ListInit

----------------------------------------------------------------------------
(* The program                                                             *)

\* No list is in use.  That the table and the clauses are only made then, and
\* the clauses for a full table, are bounds.
NoneInUse == \A l \in List : ~list[l].made

\* The _create of a generated object.  That no two have the same number is a
\* bound.
Create(n) ==
  /\ NoneInUse /\ clauseLists = NoClauses
  /\ Len(table) < MaxObjects
  /\ \A k \in DOMAIN table : table[k].given # n
  /\ LET value == FieldValue(kind, n) IN
     /\ value # Error
     /\ table' = Append(table, [given |-> n, kept |-> Stored(backend, value)])
  /\ counted' = None
  /\ UNCHANGED <<setting, clauseLists, listVars>>

\* The value of a clause: that of a key comes from a result, and is copied.
ClauseValue(field, n) ==
  IF field = "key" THEN Copy(Empty, KeyColumn(backend, n))
  ELSE FieldValue(kind, n)

\* The clauses a program can make with libdbo_clause_new and its setters, or
\* with the _clause functions of a generated object for the fields.
NewClauses(types) ==
  LET make(field, n) ==
        {Comparison(type, operator, field, ClauseValue(field, n)) :
           type \in types, operator \in {"AND", "OR"}}
  IN  (UNION {make("key", n) : n \in Keys})
        \cup (UNION {make("field", n) : n \in Samples[kind]})

\* The list the program is adding to, which it will give to the backend or make
\* the list of a clause.
Top == Len(clauseLists)

Clauses == clauseLists[Top]

\* The lists to be put into a clause yet.
Loose ==
  {n \in 1 .. Top - 1 :
     ~\E m \in DOMAIN clauseLists : \E i \in DOMAIN clauseLists[m] :
        clauseLists[m][i].list = n}

MayBuild == NoneInUse /\ Len(table) = MaxObjects

\* There is a bound on the clauses of a list, and room is kept for the lists.
AddClause ==
  /\ MayBuild
  /\ Len(Clauses) + Cardinality(Loose) < MaxClauses[kind]
  /\ \E c \in NewClauses(ClauseTypes) :
       clauseLists' = [clauseLists EXCEPT ![Top] = ListAdd(@, c)]
  /\ counted' = None
  /\ UNCHANGED <<setting, table, listVars>>

\* libdbo_clause_list_new for the list around others, which may be empty and
\* have but some types of clauses (a bound).  CouchDB is given no nested list:
\* its read takes the field of every clause to strcmp.
NewList ==
  /\ MayBuild /\ backend # "couchdb"
  /\ Top < MaxLists[kind]
  /\ \A i \in DOMAIN Clauses : Clauses[i].type \in InnerTypes \cup {"NESTED"}
  /\ clauseLists' = Append(clauseLists, << >>)
  /\ counted' = None
  /\ UNCHANGED <<setting, table, listVars>>

\* libdbo_clause_set_list, and the clause is added.
AddNested ==
  /\ MayBuild
  /\ Len(Clauses) < MaxClauses[kind]
  /\ \E n \in Loose, operator \in {"AND", "OR"} :
       clauseLists' = [clauseLists EXCEPT ![Top] = ListAdd(@, Nested(operator, n))]
  /\ counted' = None
  /\ UNCHANGED <<setting, table, listVars>>

----------------------------------------------------------------------------
(* The SQL backends                                                        *)

Where == Build(clauseLists)

Bound == Binds(backend, clauseLists)

\* The statement of a read or count can be made.  all is a NULL for the list;
\* an empty list leaves MySQL without a bind, which is an error.
Preparable(all) == all \/ (IsSql(clauseLists) /\ Bound.ok)

\* MySQL takes no command while the rows of another one are not fetched.
InSync ==
  backend = "mysql" =>
    \A l \in List : statement[l].open => statement[l].at > Len(statement[l].rows)

SelectedRows(all) ==
  {k \in DOMAIN table :
     \/ all \/ Clauses = << >>
     \/ Selects(Where, Bound.bound, [key |-> k, field |-> table[k].kept])}

\* The result of a row or of a document.
ResultOf(k) == ResultFor(backend, kind, k, table[k].kept)

Results(keys) == [i \in DOMAIN keys |-> ResultOf(keys[i])]

\* The rows come in any order: the statement names none.  MySQL is asked for
\* the size before the rows have been fetched.
SqlRead(l, all) ==
  /\ backend # "couchdb"
  /\ Preparable(all) /\ InSync
  /\ \E keys \in SetToSeqs(SelectedRows(all)) :
       Open(l, Results(keys), backend = "sqlite",
            IF backend = "sqlite" THEN 0 ELSE SizeUnknown)

----------------------------------------------------------------------------
(* The CouchDB backend                                                     *)

\* The documents of a view, which is sorted by their ids.
Emitted ==
  {k \in DOMAIN table : Emits(Clauses, TRUE, [field |-> table[k].kept])}

\* A document of another table has none of the members.
EmitsOthers == others /\ Emits(Clauses, FALSE, [m \in {} |-> 0])

Sorted(keys) ==
  CHOOSE s \in SetToSeqs(keys) : \A i, j \in DOMAIN s : i < j => s[i] < s[j]

\* A document by its id for each clause, whatever the clause says of it, when
\* there are only ids; the view of the application for a NULL, and a view that
\* is made of the clauses for the others.  A document that is not found or not
\* one of the table fails the read.
CouchRead(l, all) ==
  /\ backend = "couchdb"
  /\ \/ /\ all
        /\ Fill(l, Results(Sorted(DOMAIN table)))
     \/ /\ ~all /\ OnlyIds(Clauses)
        /\ LET keys == [i \in DOMAIN Clauses |-> Clauses[i].value.val] IN
           /\ \A i \in DOMAIN keys : keys[i] \in DOMAIN table
           /\ Fill(l, Results(keys))
     \/ /\ ~all /\ ~OnlyIds(Clauses)
        /\ IsMapFunction(Clauses) /\ ~EmitsOthers
        /\ Fill(l, Results(Sorted(Emitted)))

----------------------------------------------------------------------------
(* Reading, counting and walking                                           *)

\* The program frees its clause lists after the call, as generated functions do.
ClausesFreed == clauseLists' = NoClauses

\* libdbo_object_read; all is a NULL for the clause list.  A read may always
\* fail, and a list is only made by one that does not.
Read(l, all) ==
  /\ Loose = {}
  /\ all => clauseLists = NoClauses
  /\ SqlRead(l, all) \/ CouchRead(l, all)
  /\ ClausesFreed
  /\ counted' = None
  /\ UNCHANGED <<setting, table>>

ReadFails ==
  /\ clauseLists # NoClauses
  /\ ClausesFreed
  /\ counted' = None
  /\ UNCHANGED <<setting, table, listVars>>

\* libdbo_object_count, which CouchDB does not have.
Count(all) ==
  /\ Loose = {}
  /\ all => clauseLists = NoClauses
  /\ \/ /\ backend # "couchdb" /\ Preparable(all) /\ InSync
        /\ counted' = Cardinality(SelectedRows(all))
     \/ counted' = None
  /\ ClausesFreed
  /\ UNCHANGED <<setting, table, listVars>>

WalkList ==
  /\ \E l \in List : Walk(l)
  /\ counted' = None
  /\ UNCHANGED <<setting, table, clauseLists>>

Next ==
  \/ \E n \in Samples[kind] : Create(n)
  \/ AddClause \/ NewList \/ AddNested
  \/ \E l \in List, all \in BOOLEAN : Read(l, all)
  \/ ReadFails
  \/ \E all \in BOOLEAN : Count(all)
  \/ WalkList

Spec == Init /\ [][Next]_vars

----------------------------------------------------------------------------
(* Properties                                                              *)

\* The lists of the clauses come before them, so that no list is its own.
ValidLists ==
  \A n \in DOMAIN clauseLists : \A i \in DOMAIN clauseLists[n] :
    LET c == clauseLists[n][i] IN
    /\ NotEmpty(c)
    /\ c.type = "NESTED" => c.list \in 1 .. n - 1

TypeOK ==
  /\ backend \in Backends /\ kind \in Kinds /\ others \in BOOLEAN
  /\ table \in Seq([given : Domain(kind), kept : Int])
  /\ Top > 0 /\ ValidLists
  /\ counted \in -1 .. MaxObjects
  /\ ListTypeOK

(***************************************************************************)
(* The places of a statement are counted in one walk through the clauses   *)
(* and the values bound in another: when the binds succeed every place has *)
(* the value of its own clause, also behind a clause without a value and   *)
(* around a nested list, and no value is left over.                        *)
(***************************************************************************)
PlacesFilled ==
  backend # "couchdb" /\ Bound.ok =>
    /\ FilledIn(backend, clauseLists, Where, Bound.bound)[Top][0]
    /\ Len(Bound.bound) = PlacesOf(clauseLists)

\* An object as the program has made it.
Object(k) == [key |-> KeyColumn(backend, k), field |-> FieldValue(kind, table[k].given)]

Meant(all) ==
  {k \in DOMAIN table : all \/ Clauses = << >> \/ Means(clauseLists, Object(k))}

\* A number in the upper half of an unsigned type.
Upper(n) ==
  \/ kind = "UINT32" /\ n >= Half32
  \/ kind = "UINT64" /\ n >= Half64

\* The clauses of all the lists.
Parts == UNION {Range(clauseLists[n]) : n \in DOMAIN clauseLists}

SomeUpper ==
  \/ \E k \in DOMAIN table : Upper(table[k].given)
  \/ \E c \in Parts : c.field = "field" /\ Upper(c.value.val)

\* The clause lists a backend understands.  SQLite has no unsigned integers,
\* so it gets their order wrong, and CouchDB gets signed ones.  CouchDB looks up
\* ids whatever the clauses say, has no member for the key in a view, and writes
\* the operator of the first clause.
Understood(all) ==
  CASE all -> TRUE
    [] backend = "mysql" -> TRUE
    [] backend = "sqlite" ->
         SomeUpper => \A c \in Parts : c.type \notin Orderings
    [] backend = "couchdb" ->
         /\ Clauses # << >>
         /\ \/ /\ \A i \in DOMAIN Clauses : Clauses[i].field # "key"
               /\ Clauses[1].operator = "AND"
               /\ ~(kind = "UINT64" /\ SomeUpper)
            \/ /\ \A i \in DOMAIN Clauses :
                    /\ Clauses[i].field = "key" /\ Clauses[i].type = "EQUAL"
                    /\ i > 1 => Clauses[i].operator = "OR"
               /\ Cardinality({Clauses[i].value : i \in DOMAIN Clauses})
                    = Len(Clauses)

(***************************************************************************)
(* A list that is returned for clauses the backend understands has exactly *)
(* the objects the clauses mean, each of them once, and a count that is    *)
(* returned is their number: with parentheses, with the first operator     *)
(* left out, over documents of other tables, and for numbers of any width. *)
(***************************************************************************)
AnswersAreExact ==
  [][\A all \in BOOLEAN :
       Understood(all) =>
         /\ \A l \in List :
              ~list[l].made /\ list'[l].made /\ Read(l, all) =>
                /\ Len(Content'[l]) = Cardinality(Meant(all))
                /\ \A k \in Meant(all) :
                     \E i \in DOMAIN Content'[l] :
                       Content'[l][i].key = KeyColumn(backend, k)
         /\ Count(all) => counted' \in {None, Cardinality(Meant(all))}]_vars

(***************************************************************************)
(* The generated object that is made of a result has the number the object *)
(* was created with, for every type of field and at the ends of its range. *)
(* With CouchDB, whose numbers all come back as int64, the object is       *)
(* refused unless the field is an int64 or a text.                         *)
(***************************************************************************)
FieldsSurvive ==
  \A l \in List : \A i \in DOMAIN Content[l] : \A k \in DOMAIN table :
    Content[l][i].key = KeyColumn(backend, k) =>
      LET field == FieldFrom(kind, Content[l][i].field) IN
      IF backend = "couchdb" /\ kind \notin {"INT64", "TEXT"}
      THEN field = Error
      ELSE field = FieldValue(kind, table[k].given)

=============================================================================
