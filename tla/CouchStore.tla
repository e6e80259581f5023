------------------------------ MODULE CouchStore ------------------------------
(***************************************************************************)
(* Create, read, update and delete of objects through                      *)
(* libdbo_backend_couchdb.c, by threads with a connection each.            *)
(*                                                                         *)
(* An operation is one HTTP request, except that a read by a clause first  *)
(* puts a view into the database.  A request is executed by the server in  *)
(* one step, and it or its answer can be lost.  The body of a POST or a    *)
(* PUT stays with the connection until a request has been answered.        *)
(*                                                                         *)
(* CouchDB itself compares revisions.  _rev is taken for a number that is  *)
(* raised with every change of a document, and the object keeps it as      *)
(* backend meta data.                                                      *)
(***************************************************************************)
EXTENDS Naturals

CONSTANTS
  Client,      \* threads, each with a connection and the object it works on
  Value,       \* what a field can hold
  NumFields,   \* fields of an object, besides primary key and revision
  MaxKey,      \* bound: how many documents are ever created
  MaxRev       \* bound: no update is begun of a document changed that often

ASSUME BoundsType == MaxKey \in Nat /\ MaxRev \in Nat
ASSUME FieldsType == NumFields \in Nat /\ NumFields > 0 /\ Value # {}

VARIABLES
  docs,      \* the documents
  write,     \* backend_couchdb->write, the body of a request
  obj,       \* the id and the revision each thread has read
  call,      \* the call a thread is in, or made last
  pc,        \* how far that call is
  found,     \* the document in the answer to a GET
  code,      \* the status of the answer
  result,    \* what the last call returned
  given,     \* the values the caller of the running call gave
  applied    \* history: has this call's request changed a document?

vars == <<docs, write, obj, call, pc, found, code, result, given, applied>>

----------------------------------------------------------------------------
(* Types                                                                   *)

Key == 1 .. MaxKey
Field == 1 .. NumFields
Values == [Field -> Value]
SomeValue == CHOOSE v \in Value : TRUE

Doc == [live : BOOLEAN, rev : Nat, fields : Values]
NoDoc == [live |-> FALSE, rev |-> 0, fields |-> [f \in Field |-> SomeValue]]

Nil == [key |-> 0, rev |-> 0]
Obj == [key : Key, rev : Nat]

Writes == {"create", "update", "delete"}

\* The JSON text of an object, or of a view.
NoBody == [kind |-> "none", rev |-> 0]
View == [kind |-> "view", rev |-> 0, fields |-> NoDoc.fields]
Body == [kind : {"object"}, rev : Nat, fields : Values]

TypeOK ==
  /\ docs \in [Key -> Doc]
  /\ write \in [Client -> Body \cup {View, NoBody}]
  /\ obj \in [Client -> Obj \cup {Nil}]
  /\ call \in [Client -> Writes \cup {"none", "read", "find"}]
  /\ pc \in [Client -> {"idle", "viewing", "sent", "answered", "lost"}]
  /\ found \in [Client -> Obj \cup {Nil}]
  /\ code \in [Client -> {"none", "done", "refused", "not found"}]
  /\ result \in [Client -> {"none", "ok", "error"}]
  /\ given \in [Client -> Values]
  /\ applied \in [Client -> BOOLEAN]

Init ==
  /\ docs = [k \in Key |-> NoDoc]
  /\ write = [c \in Client |-> NoBody]
  /\ obj = [c \in Client |-> Nil]
  /\ call = [c \in Client |-> "none"]
  /\ pc = [c \in Client |-> "idle"]
  /\ found = [c \in Client |-> Nil]
  /\ code = [c \in Client |-> "none"]
  /\ result = [c \in Client |-> "none"]
  /\ given = [c \in Client |-> NoDoc.fields]
  /\ applied = [c \in Client |-> FALSE]

----------------------------------------------------------------------------
(* The handlers, up to the request                                         *)

\* Mutant: the first field is left out.
FieldsButOne(values) == [f \in Field \ {1} |-> values[f]]

\* The JSON members made of a set of values: value_pos stays at the first.
Members(values) == [f \in Field |-> values[1]]

\* Mutant: a body that is still there is sent instead of the new one.
Reused(c, body) ==
  IF body = NoBody \/ write[c] # NoBody THEN {write[c]} ELSE {body}

\* What the connection has to send after json_dumps: nothing when an earlier
\* body is still there, and then there is no request.
Dumped(c, body) ==
  IF body = NoBody THEN {write[c]}
  ELSE IF write[c] = NoBody THEN {body}
  ELSE {}

\* __db_backend_couchdb_request, up to the transfer.
Request(c, body, next) ==
  \E w \in Dumped(c, body) :
    /\ write' = [write EXCEPT ![c] = w]
    /\ pc' = [pc EXCEPT ![c] = next]

\* A call gets to its (first) request, or fails before it.
Begin(c, op, values, body, next) ==
  /\ pc[c] = "idle"
  /\ call' = [call EXCEPT ![c] = op]
  /\ applied' = [applied EXCEPT ![c] = FALSE]
  /\ \/ /\ Request(c, body, next)
        /\ given' = [given EXCEPT ![c] = values]
        /\ result' = [result EXCEPT ![c] = "none"]
     \/ /\ result' = [result EXCEPT ![c] = "error"]
        /\ UNCHANGED <<pc, write, given>>
  /\ UNCHANGED <<docs, obj, found, code>>

Create(c, values) ==
  Begin(c, "create", values,
           [kind |-> "object", rev |-> 0, fields |-> Members(values)], "sent")

\* An object that has no revision from the database cannot be updated.
Update(c, values) ==
  /\ obj[c] # Nil
  /\ docs[obj[c].key].rev < MaxRev
  /\ Begin(c, "update", values,
           [kind |-> "object", rev |-> obj[c].rev, fields |-> Members(values)],
           "sent")

Delete(c) ==
  /\ obj[c] # Nil
  /\ Begin(c, "delete", NoDoc.fields, NoBody, "sent")

\* By primary key, or all objects: a GET.
Read(c) == Begin(c, "read", NoDoc.fields, NoBody, "sent")

\* By another field: a PUT of the view, then a GET.
Find(c) == Begin(c, "find", NoDoc.fields, View, "viewing")

----------------------------------------------------------------------------
(* CouchDB and the network                                                 *)

\* The server has answered, which c gets to know or not.
Answer(c, status) ==
  /\ code' = [code EXCEPT ![c] = status]
  /\ \E heard \in {"answered", "lost"} : pc' = [pc EXCEPT ![c] = heard]
  /\ UNCHANGED <<write, obj, call, result, given>>

\* A POST makes a document with an id of its own.
Post(c) ==
  /\ pc[c] = "sent" /\ call[c] = "create"
  /\ \E k \in Key :
       /\ docs[k].rev = 0
       /\ \A j \in Key : j < k => docs[j].rev > 0
       /\ docs' = [docs EXCEPT ![k] = [live |-> TRUE, rev |-> 1,
                                       fields |-> write[c].fields]]
  /\ Answer(c, "done")
  /\ applied' = [applied EXCEPT ![c] = TRUE]
  /\ UNCHANGED found

\* A PUT or a DELETE of the current revision.
Current(c, rev) == docs[obj[c].key].live /\ docs[obj[c].key].rev = rev

Put(c) ==
  /\ pc[c] = "sent" /\ call[c] = "update"
  /\ Current(c, write[c].rev)
  /\ docs' = [docs EXCEPT ![obj[c].key] = [live |-> TRUE, rev |-> @.rev + 1,
                                           fields |-> write[c].fields]]
  /\ Answer(c, "done")
  /\ applied' = [applied EXCEPT ![c] = TRUE]
  /\ UNCHANGED found

Remove(c) ==
  /\ pc[c] = "sent" /\ call[c] = "delete"
  /\ Current(c, obj[c].rev)
  /\ docs' = [docs EXCEPT ![obj[c].key].live = FALSE,
                          ![obj[c].key].rev = @ + 1]
  /\ Answer(c, "done")
  /\ applied' = [applied EXCEPT ![c] = TRUE]
  /\ UNCHANGED found

\* Of another revision, of a document that has been deleted, or for a reason
\* of the server's own.
Refuse(c) ==
  /\ pc[c] = "sent" /\ call[c] \in Writes
  /\ Answer(c, "refused")
  /\ UNCHANGED <<docs, found, applied>>

\* A GET by id, of an id that has been in use, or through a view.  The object is
\* made from the first of the results.
Get(c) ==
  /\ pc[c] = "sent" /\ call[c] \in {"read", "find"}
  /\ \/ \E k \in Key :
          /\ docs[k].live
          /\ found' = [found EXCEPT ![c] = [key |-> k, rev |-> docs[k].rev]]
          /\ Answer(c, "done")
     \/ /\ found' = [found EXCEPT ![c] = Nil]
        /\ Answer(c, "not found")
  /\ UNCHANGED <<docs, applied>>

\* A view that is there already is a conflict, which is as good.
PutView(c) ==
  /\ pc[c] = "viewing"
  /\ \/ pc' = [pc EXCEPT ![c] = "sent"]
        /\ write' = [write EXCEPT ![c] = NoBody]
        /\ UNCHANGED <<obj, call, code, result, given>>
     \/ Answer(c, "refused")
  /\ UNCHANGED <<docs, found, applied>>

\* The request does not reach the server.
Lose(c) ==
  /\ pc[c] \in {"viewing", "sent"}
  /\ pc' = [pc EXCEPT ![c] = "lost"]
  /\ UNCHANGED <<docs, write, obj, call, found, code, result, given, applied>>

----------------------------------------------------------------------------
(* What a handler does with the answer                                     *)

\* The answer and the arguments end with the call.
Forget(c) ==
  /\ found' = [found EXCEPT ![c] = Nil]
  /\ code' = [code EXCEPT ![c] = "none"]
  /\ given' = [given EXCEPT ![c] = NoDoc.fields]

\* Mutant: a conflict is as good for an object as it is for a view.
AlsoRefused(status) == status \in {"done", "refused"}

Success(status) == status = "done"

\* The answer is there: the body is freed.
ReturnAnswer(c) ==
  /\ pc[c] = "answered"
  /\ pc' = [pc EXCEPT ![c] = "idle"]
  /\ write' = [write EXCEPT ![c] = NoBody]
  /\ result' = [result EXCEPT ![c] = IF Success(code[c]) THEN "ok" ELSE "error"]
  /\ obj' = [obj EXCEPT ![c] = IF call[c] \in {"read", "find"} /\ found[c] # Nil
                                 THEN found[c] ELSE @]
  /\ UNCHANGED <<docs, call, applied>>
  /\ Forget(c)

\* Mutant: curl_easy_perform's status is not looked at.
ReturnRegardless(c) ==
  /\ pc[c] = "lost"
  /\ pc' = [pc EXCEPT ![c] = "idle"]
  /\ result' = [result EXCEPT ![c] = "ok"]
  /\ UNCHANGED <<docs, write, obj, call, applied>>
  /\ Forget(c)

\* curl_easy_perform has failed: the body stays.
ReturnFailure(c) ==
  /\ pc[c] = "lost"
  /\ pc' = [pc EXCEPT ![c] = "idle"]
  /\ result' = [result EXCEPT ![c] = "error"]
  /\ UNCHANGED <<docs, write, obj, call, applied>>
  /\ Forget(c)

----------------------------------------------------------------------------

Call(c) ==
  \/ \E values \in Values : Create(c, values) \/ Update(c, values)
  \/ Delete(c) \/ Read(c) \/ Find(c)
  \/ ReturnAnswer(c) \/ ReturnFailure(c)

Serve(c) ==
  \/ Post(c) \/ Put(c) \/ Remove(c) \/ Refuse(c)
  \/ Get(c) \/ PutView(c) \/ Lose(c)

Next == \E c \in Client : Call(c) \/ Serve(c)

Spec == Init /\ [][Next]_vars

----------------------------------------------------------------------------
(* Properties                                                              *)

(***************************************************************************)
(* A create, an update or a delete returns OK only when its own request    *)
(* has changed the database, and returns an error after an answer only     *)
(* when it has not.                                                        *)
(***************************************************************************)
OutcomeIsTrue ==
  \A c \in Client :
    call[c] \in Writes =>
      /\ pc[c] = "idle" /\ result[c] = "ok" => applied[c]
      /\ pc[c] = "answered" /\ ~Success(code[c]) => ~applied[c]

(***************************************************************************)
(* object.h: "the value_set has the values for each field".  A document    *)
(* that is created or updated holds the values its caller gave, whatever   *)
(* requests of that connection have failed before.                         *)
(***************************************************************************)
ValuesStored ==
  [][\A c \in Client, k \in Key :
       (applied'[c] /\ ~applied[c] /\ docs'[k] # docs[k] /\ docs'[k].live) =>
         docs'[k].fields = given[c]]_vars

(***************************************************************************)
(* The refinement: a call takes effect when the server executes it, and    *)
(* what it will return is decided by whether the answer is heard.          *)
(***************************************************************************)
Outcome(c) ==
  CASE pc[c] = "idle" -> result[c]
    [] pc[c] = "lost" -> "error"
    [] pc[c] = "answered" -> IF Success(code[c]) THEN "ok" ELSE "error"
    [] OTHER -> "none"

Holds(c) == IF pc[c] = "answered" /\ found[c] # Nil THEN found[c] ELSE obj[c]

(***************************************************************************)
(* The CouchDB backend keeps the promise about revisions as far as calls   *)
(* whose answer is lost allow.                                             *)
(***************************************************************************)
Promise == INSTANCE RevisionStore WITH
  Object <- Key,
  MayLose <- TRUE,
  version <- [k \in Key |-> docs[k].rev],
  live <- [k \in Key |-> docs[k].live],
  held <- [c \in Client |->
             IF Holds(c) = Nil THEN [object |-> "nothing"]
             ELSE [object |-> Holds(c).key, version |-> Holds(c).rev]],
  outcome <- [c \in Client |-> Outcome(c)]

KeepsPromise == Promise!Spec

=============================================================================
