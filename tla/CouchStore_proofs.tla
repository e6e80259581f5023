-------------------------- MODULE CouchStore_proofs --------------------------
(***************************************************************************)
(* Proofs about CouchStore, for any number of threads, documents, fields   *)
(* and values.                                                             *)
(***************************************************************************)
EXTENDS CouchStore, TLAPS

----------------------------------------------------------------------------
(* The inductive invariant                                                 *)

\* A document is in an answer only while the call that asked for it runs.
FoundMatches ==
  \A c \in Client : found[c] # Nil =>
    call[c] \in {"read", "find"} /\ pc[c] \in {"answered", "lost"}

\* What is sent is the body of the running call, with the revision the thread
\* has read.
SentMatches ==
  \A c \in Client :
    /\ call[c] \in {"update", "delete"} => obj[c] # Nil
    /\ pc[c] = "viewing" => call[c] = "find"
    /\ pc[c] = "sent" /\ call[c] \in {"create", "update"} =>
         write[c] \in Body /\ write[c].fields = Members(given[c])
    /\ pc[c] = "sent" /\ call[c] = "update" => write[c].rev = obj[c].rev

\* The answer tells whether the request has changed a document.
AnswerTells ==
  \A c \in Client : call[c] \in Writes =>
    /\ pc[c] = "sent" => ~applied[c]
    /\ pc[c] = "answered" /\ Success(code[c]) => applied[c]

StoreInv == TypeOK /\ FoundMatches /\ SentMatches /\ AnswerTells /\ OutcomeIsTrue

----------------------------------------------------------------------------
(* Types                                                                   *)

\* The default of a field is a value, so the defaults of all are values.
LEMMA DefaultsType == NoDoc.fields \in Values /\ NoDoc \in Doc
<1>1. SomeValue \in Value
  BY FieldsType DEF SomeValue
<1> QED
  BY <1>1 DEF NoDoc, Doc, Values

\* Values of the caller make a body, whichever of them is used.
LEMMA MembersType ==
  ASSUME NEW values \in Values
  PROVE  Members(values) \in Values
BY FieldsType DEF Members, Values, Field

\* A call sends the body it has made, or stops with its arguments not taken.
LEMMA BeginType ==
  ASSUME TypeOK, NEW c \in Client,
         NEW op \in Writes \cup {"read", "find"},
         NEW values \in Values,
         NEW body \in Body \cup {View, NoBody},
         NEW next \in {"sent", "viewing"},
         Begin(c, op, values, body, next)
  PROVE  TypeOK'
<1>1. \A w \in Dumped(c, body) : w \in Body \cup {View, NoBody}
  <2>1. write[c] \in Body \cup {View, NoBody}
    BY DEF TypeOK
  <2> QED
    BY <2>1 DEF Dumped
<1>2. call' \in [Client -> Writes \cup {"none", "read", "find"}]
  BY DEF Begin, TypeOK
<1>3. write' \in [Client -> Body \cup {View, NoBody}]
  BY <1>1 DEF Begin, Request, TypeOK
<1>4. result' \in [Client -> {"none", "ok", "error"}]
  BY DEF Begin, TypeOK
<1>5. pc' \in [Client -> {"idle", "viewing", "sent", "answered", "lost"}]
  <2>1. pc' = pc \/ pc' = [pc EXCEPT ![c] = next]
    BY DEF Begin, Request
  <2> QED
    BY <2>1 DEF TypeOK
<1>6. given' \in [Client -> Values] /\ applied' \in [Client -> BOOLEAN]
  BY DEF Begin, TypeOK
<1> QED
  BY <1>2, <1>3, <1>4, <1>5, <1>6 DEF Begin, TypeOK

\* An answer changes the status and how far the call is, and nothing else of
\* the client.
LEMMA AnswerType ==
  ASSUME TypeOK, NEW c \in Client, NEW status \in {"done", "refused", "not found"},
         Answer(c, status)
  PROVE  /\ code' \in [Client -> {"none", "done", "refused", "not found"}]
         /\ pc' \in [Client -> {"idle", "viewing", "sent", "answered", "lost"}]
         /\ UNCHANGED <<write, obj, call, result, given>>
BY ZenonT(40) DEF Answer, TypeOK

\* An update or a delete is of an object that was read.
LEMMA ChangeOfHeld ==
  ASSUME TypeOK, SentMatches, NEW c \in Client, call[c] \in {"update", "delete"}
  PROVE  /\ obj[c] \in Obj /\ obj[c].key \in Key /\ obj[c].rev \in Nat
         /\ docs[obj[c].key] \in Doc /\ docs[obj[c].key].rev + 1 \in Nat
<1>1. obj[c] \in Obj
  BY ZenonT(40) DEF TypeOK, SentMatches
<1>2. obj[c].key \in Key /\ obj[c].rev \in Nat
  BY <1>1 DEF Obj
<1>3. docs[obj[c].key] \in Doc
  BY <1>2 DEF TypeOK
<1> QED
  BY <1>1, <1>2, <1>3 DEF Doc

(***************************************************************************)
(* Every step of every handler in libdbo_backend_couchdb.c, and every      *)
(* answer of the server, keeps the types.                                  *)
(***************************************************************************)
LEMMA TypeStep == TypeOK /\ SentMatches /\ [Next]_vars => TypeOK'
<1> USE BoundsType
<1> SUFFICES ASSUME TypeOK, SentMatches, [Next]_vars PROVE TypeOK'
  OBVIOUS
<1>1. CASE UNCHANGED vars
  BY <1>1 DEF TypeOK, vars
<1>2. ASSUME NEW c \in Client, Call(c) PROVE TypeOK'
  <2>1. ASSUME NEW values \in Values, Create(c, values) PROVE TypeOK'
    <3>1. [kind |-> "object", rev |-> 0, fields |-> Members(values)] \in Body
      BY MembersType DEF Body
    <3> QED
      BY <2>1, <3>1, BeginType DEF Create, Writes
  <2>2. ASSUME NEW values \in Values, Update(c, values) PROVE TypeOK'
    <3>1. obj[c].rev \in Nat
      BY <2>2, ZenonT(40) DEF Update, TypeOK, Obj
    <3>2. [kind |-> "object", rev |-> obj[c].rev, fields |-> Members(values)]
            \in Body
      BY <3>1, MembersType DEF Body
    <3> QED
      BY <2>2, <3>2, BeginType DEF Update, Writes
  <2>3. CASE Delete(c) \/ Read(c) \/ Find(c)
    BY <2>3, BeginType, DefaultsType DEF Delete, Read, Find, Writes
  <2>4. CASE ReturnAnswer(c)
    BY <2>4, DefaultsType DEF ReturnAnswer, Forget, TypeOK
  <2>5. CASE ReturnFailure(c)
    BY <2>5, DefaultsType DEF ReturnFailure, Forget, TypeOK
  <2> QED
    BY <1>2, <2>1, <2>2, <2>3, <2>4, <2>5 DEF Call
<1>3. ASSUME NEW c \in Client, Serve(c) PROVE TypeOK'
  <2>1. CASE Post(c)
    <3>1. PICK k \in Key :
             docs' = [docs EXCEPT ![k] = [live |-> TRUE, rev |-> 1,
                                          fields |-> write[c].fields]]
      BY <2>1 DEF Post
    <3>2. write[c].fields \in Values
      BY <2>1 DEF Post, SentMatches, Body
    <3>3. docs' \in [Key -> Doc]
      BY <3>1, <3>2 DEF TypeOK, Doc
    <3> QED
      BY <2>1, <3>3, AnswerType DEF Post, TypeOK
  <2>2. CASE Put(c)
    <3> DEFINE k == obj[c].key
    <3>1. k \in Key /\ docs[k] \in Doc /\ docs[k].rev + 1 \in Nat
      BY <2>2, ChangeOfHeld DEF Put
    <3>2. write[c].fields \in Values
      BY <2>2 DEF Put, SentMatches, Body
    <3>3. docs' = [docs EXCEPT ![k] = [live |-> TRUE, rev |-> docs[k].rev + 1,
                                       fields |-> write[c].fields]]
      BY <2>2, <3>1 DEF Put, TypeOK
    <3> HIDE DEF k
    <3>4. docs' \in [Key -> Doc]
      BY <3>1, <3>2, <3>3 DEF TypeOK, Doc
    <3> QED
      BY <2>2, <3>4, AnswerType DEF Put, TypeOK
  <2>3. CASE Remove(c)
    <3> DEFINE k == obj[c].key
    <3>1. k \in Key /\ docs[k] \in Doc /\ docs[k].rev + 1 \in Nat
      BY <2>3, ChangeOfHeld DEF Remove
    <3>2. docs' \in [Key -> Doc]
      BY <2>3, <3>1 DEF Remove, TypeOK, Doc
    <3> QED
      BY <2>3, <3>2, AnswerType DEF Remove, TypeOK
  <2>4. CASE Refuse(c)
    BY <2>4, AnswerType DEF Refuse, TypeOK
  <2>5. CASE Get(c)
    <3>1. \A k \in Key : [key |-> k, rev |-> docs[k].rev] \in Obj
      BY DEF TypeOK, Doc, Obj
    <3>2. PICK o \in Obj \cup {Nil}, status \in {"done", "not found"} :
             found' = [found EXCEPT ![c] = o] /\ Answer(c, status)
      BY <2>5, <3>1 DEF Get
    <3>3. found' \in [Client -> Obj \cup {Nil}]
      BY <3>2 DEF TypeOK
    <3> QED
      BY <2>5, <3>2, <3>3, AnswerType DEF Get, TypeOK
  <2>6. CASE PutView(c)
    <3>1. CASE /\ pc' = [pc EXCEPT ![c] = "sent"]
               /\ write' = [write EXCEPT ![c] = NoBody]
               /\ UNCHANGED <<obj, call, code, result, given>>
      BY <2>6, <3>1 DEF PutView, TypeOK
    <3>2. CASE Answer(c, "refused")
      BY <2>6, <3>2, AnswerType DEF PutView, TypeOK
    <3> QED
      BY <2>6, <3>1, <3>2 DEF PutView
  <2>7. CASE Lose(c)
    BY <2>7 DEF Lose, TypeOK
  <2> QED
    BY <1>3, <2>1, <2>2, <2>3, <2>4, <2>5, <2>6, <2>7 DEF Serve
<1> QED
  BY <1>1, <1>2, <1>3 DEF Next

----------------------------------------------------------------------------
(* What the database knows and what the threads know                       *)

\* A step of c leaves what it says of the other threads as it was.
LEMMA OthersKeep ==
  ASSUME StoreInv, NEW c \in Client,
         \A d \in Client : d # c =>
           /\ write'[d] = write[d] /\ obj'[d] = obj[d] /\ call'[d] = call[d]
           /\ pc'[d] = pc[d] /\ found'[d] = found[d] /\ code'[d] = code[d]
           /\ result'[d] = result[d] /\ given'[d] = given[d]
           /\ applied'[d] = applied[d],
         found'[c] # Nil =>
           call'[c] \in {"read", "find"} /\ pc'[c] \in {"answered", "lost"},
         call'[c] \in {"update", "delete"} => obj'[c] # Nil,
         pc'[c] = "viewing" => call'[c] = "find",
         pc'[c] = "sent" /\ call'[c] \in {"create", "update"} =>
           /\ write'[c] \in Body
           /\ write'[c].fields = Members(given'[c])
           /\ call'[c] = "update" => write'[c].rev = obj'[c].rev,
         call'[c] \in Writes =>
           /\ pc'[c] = "sent" => ~applied'[c]
           /\ pc'[c] = "answered" => (Success(code'[c]) <=> applied'[c])
           /\ pc'[c] = "idle" /\ result'[c] = "ok" => applied'[c]
  PROVE  FoundMatches' /\ SentMatches' /\ AnswerTells' /\ OutcomeIsTrue'
<1>1. FoundMatches'
  BY DEF StoreInv, FoundMatches
<1>2. SentMatches'
  BY DEF StoreInv, SentMatches
<1>3. AnswerTells'
  BY DEF StoreInv, AnswerTells, Success
<1>4. OutcomeIsTrue'
  BY DEF StoreInv, OutcomeIsTrue, Success
<1> QED
  BY <1>1, <1>2, <1>3, <1>4

\* A call starts with nothing changed and nothing found, and what it sends is
\* its own body.
LEMMA BeginStep ==
  ASSUME StoreInv, NEW c \in Client,
         NEW op \in Writes \cup {"read", "find"},
         NEW values \in Values,
         NEW body \in Body \cup {View, NoBody},
         NEW next \in {"sent", "viewing"},
         Begin(c, op, values, body, next),
         next = "viewing" => op = "find",
         op \in {"update", "delete"} => obj[c] # Nil,
         op \in {"create", "update"} =>
           body \in Body /\ body # NoBody /\ body.fields = Members(values),
         op = "update" => body.rev = obj[c].rev
  PROVE  FoundMatches' /\ SentMatches' /\ AnswerTells' /\ OutcomeIsTrue'
<1> USE DEF StoreInv
<1>1. /\ call'[c] = op /\ ~applied'[c]
      /\ obj' = obj /\ found' = found /\ code' = code
      /\ found[c] = Nil
  BY DEF Begin, TypeOK, FoundMatches
<1>2. CASE Request(c, body, next) /\ given' = [given EXCEPT ![c] = values]
             /\ result' = [result EXCEPT ![c] = "none"]
  <2>1. PICK w \in Dumped(c, body) :
           /\ write' = [write EXCEPT ![c] = w]
           /\ pc' = [pc EXCEPT ![c] = next]
    BY <1>2 DEF Request
  <2>2. write'[c] = w /\ pc'[c] = next /\ given'[c] = values /\ result'[c] = "none"
    BY <2>1, <1>2 DEF TypeOK
  <2>3. op \in {"create", "update"} => w = body
    BY DEF Dumped
  <2>4. \A d \in Client : d # c =>
          /\ write'[d] = write[d] /\ obj'[d] = obj[d] /\ call'[d] = call[d]
          /\ pc'[d] = pc[d] /\ found'[d] = found[d] /\ code'[d] = code[d]
          /\ result'[d] = result[d] /\ given'[d] = given[d]
          /\ applied'[d] = applied[d]
    BY <1>1, <1>2, <2>1 DEF Begin, TypeOK
  <2> QED
    BY <1>1, <2>2, <2>3, <2>4, OthersKeep
<1>3. CASE UNCHANGED <<pc, write, given>> /\ result' = [result EXCEPT ![c] = "error"]
  <2>1. pc'[c] = "idle" /\ result'[c] = "error"
    BY <1>3 DEF Begin, TypeOK
  <2>2. \A d \in Client : d # c =>
          /\ write'[d] = write[d] /\ obj'[d] = obj[d] /\ call'[d] = call[d]
          /\ pc'[d] = pc[d] /\ found'[d] = found[d] /\ code'[d] = code[d]
          /\ result'[d] = result[d] /\ given'[d] = given[d]
          /\ applied'[d] = applied[d]
    BY <1>1, <1>3 DEF Begin, TypeOK
  <2> QED
    BY <1>1, <2>1, <2>2, OthersKeep
<1> QED
  BY <1>2, <1>3 DEF Begin

\* An answer to a request that was sent, with what it has done.
LEMMA AnswerStep ==
  ASSUME StoreInv, NEW c \in Client,
         NEW status \in {"done", "refused", "not found"},
         Answer(c, status),
         \A d \in Client : d # c => found'[d] = found[d] /\ applied'[d] = applied[d],
         found'[c] # Nil => call[c] \in {"read", "find"},
         call[c] \in Writes => (status = "done" <=> applied'[c])
  PROVE  FoundMatches' /\ SentMatches' /\ AnswerTells' /\ OutcomeIsTrue'
<1> USE DEF StoreInv
<1>1. PICK heard \in {"answered", "lost"} : pc' = [pc EXCEPT ![c] = heard]
  BY DEF Answer
<1>2. /\ pc'[c] = heard /\ code'[c] = status
      /\ UNCHANGED <<write, obj, call, result, given>>
  BY <1>1 DEF Answer, TypeOK
<1>3. \A d \in Client : d # c => pc'[d] = pc[d] /\ code'[d] = code[d]
  BY <1>1 DEF Answer, TypeOK
<1>4. call[c] \in {"update", "delete"} => obj[c] # Nil
  BY DEF SentMatches
<1> QED
  BY <1>2, <1>3, <1>4, OthersKeep DEF Success

(***************************************************************************)
(* Each step of a handler or of the server keeps what a thread knows of    *)
(* its request in step with what the request has done.                     *)
(***************************************************************************)
LEMMA StoreStep == StoreInv /\ [Next]_vars => StoreInv'
<1> USE BoundsType
<1> SUFFICES ASSUME StoreInv, [Next]_vars PROVE StoreInv'
  OBVIOUS
<1>u. TypeOK /\ SentMatches
  BY DEF StoreInv
<1>t. TypeOK'
  BY <1>u, TypeStep
<1> SUFFICES FoundMatches' /\ SentMatches' /\ AnswerTells' /\ OutcomeIsTrue'
  BY <1>u, <1>t DEF StoreInv
<1>1. CASE UNCHANGED vars
  BY <1>1 DEF vars, StoreInv, FoundMatches, SentMatches, AnswerTells, OutcomeIsTrue
<1>2. ASSUME NEW c \in Client, Call(c)
      PROVE  FoundMatches' /\ SentMatches' /\ AnswerTells' /\ OutcomeIsTrue'
  <2>1. ASSUME NEW values \in Values, Create(c, values)
        PROVE  FoundMatches' /\ SentMatches' /\ AnswerTells' /\ OutcomeIsTrue'
    <3> DEFINE body == [kind |-> "object", rev |-> 0, fields |-> Members(values)]
    <3>1. body \in Body /\ body # NoBody /\ body.fields = Members(values)
      BY MembersType DEF Body, NoBody
    <3>2. Begin(c, "create", values, body, "sent")
      BY <2>1 DEF Create
    <3> HIDE DEF body
    <3> QED
      BY <3>1, <3>2, BeginStep DEF Writes
  <2>2. ASSUME NEW values \in Values, Update(c, values)
        PROVE  FoundMatches' /\ SentMatches' /\ AnswerTells' /\ OutcomeIsTrue'
    <3> DEFINE body == [kind |-> "object", rev |-> obj[c].rev, fields |-> Members(values)]
    <3>1. obj[c] # Nil /\ obj[c].rev \in Nat
      BY <1>u, <2>2 DEF Update, TypeOK, Obj
    <3>2. /\ body \in Body /\ body # NoBody /\ body.fields = Members(values)
          /\ body.rev = obj[c].rev
      BY <3>1, MembersType DEF Body, NoBody
    <3>3. Begin(c, "update", values, body, "sent")
      BY <2>2 DEF Update
    <3> HIDE DEF body
    <3> QED
      BY <3>1, <3>2, <3>3, BeginStep DEF Writes
  <2>3. CASE Delete(c)
    BY <2>3, BeginStep, DefaultsType DEF Delete, Writes
  <2>4. CASE Read(c)
    BY <2>4, BeginStep, DefaultsType DEF Read, Writes
  <2>5. CASE Find(c)
    BY <2>5, BeginStep, DefaultsType DEF Find, Writes
  <2>6. CASE ReturnAnswer(c)
    <3>1. /\ pc'[c] = "idle" /\ found'[c] = Nil /\ call' = call /\ applied' = applied
          /\ result'[c] = IF Success(code[c]) THEN "ok" ELSE "error"
          /\ obj'[c] = IF call[c] \in {"read", "find"} /\ found[c] # Nil
                         THEN found[c] ELSE obj[c]
      BY <1>u, <2>6 DEF ReturnAnswer, Forget, TypeOK
    <3>2. call[c] \in {"update", "delete"} => obj'[c] # Nil
      BY <3>1 DEF StoreInv, SentMatches
    <3>3. call[c] \in Writes /\ result'[c] = "ok" => applied[c]
      BY <2>6, <3>1 DEF StoreInv, AnswerTells, ReturnAnswer
    <3>4. \A d \in Client : d # c =>
            /\ write'[d] = write[d] /\ obj'[d] = obj[d] /\ call'[d] = call[d]
            /\ pc'[d] = pc[d] /\ found'[d] = found[d] /\ code'[d] = code[d]
            /\ result'[d] = result[d] /\ given'[d] = given[d]
            /\ applied'[d] = applied[d]
      BY <1>u, <2>6 DEF ReturnAnswer, Forget, TypeOK
    <3> QED
      BY <3>1, <3>2, <3>3, <3>4, OthersKeep
  <2>7. CASE ReturnFailure(c)
    <3>1. /\ pc'[c] = "idle" /\ found'[c] = Nil /\ call' = call /\ applied' = applied
          /\ result'[c] = "error" /\ obj' = obj /\ write' = write
      BY <1>u, <2>7 DEF ReturnFailure, Forget, TypeOK
    <3>2. call[c] \in {"update", "delete"} => obj[c] # Nil
      BY DEF StoreInv, SentMatches
    <3>3. \A d \in Client : d # c =>
            /\ pc'[d] = pc[d] /\ found'[d] = found[d] /\ code'[d] = code[d]
            /\ result'[d] = result[d] /\ given'[d] = given[d]
      BY <1>u, <2>7 DEF ReturnFailure, Forget, TypeOK
    <3> QED
      BY <3>1, <3>2, <3>3, OthersKeep
  <2> QED
    BY <1>2, <2>1, <2>2, <2>3, <2>4, <2>5, <2>6, <2>7 DEF Call
<1>3. ASSUME NEW c \in Client, Serve(c)
      PROVE  FoundMatches' /\ SentMatches' /\ AnswerTells' /\ OutcomeIsTrue'
  <2>1. CASE Post(c) \/ Put(c) \/ Remove(c)
    <3>1. /\ Answer(c, "done") /\ pc[c] = "sent"
          /\ applied' = [applied EXCEPT ![c] = TRUE] /\ found' = found
      BY <2>1 DEF Post, Put, Remove
    <3>2. found[c] = Nil /\ applied'[c]
      BY <1>u, <3>1 DEF StoreInv, FoundMatches, TypeOK
    <3>3. \A d \in Client : d # c => applied'[d] = applied[d]
      BY <1>u, <3>1 DEF TypeOK
    <3> QED
      BY <3>1, <3>2, <3>3, AnswerStep
  <2>2. CASE Refuse(c)
    <3>1. /\ Answer(c, "refused") /\ found[c] = Nil /\ ~applied[c]
          /\ UNCHANGED <<found, applied>>
      BY <2>2 DEF Refuse, StoreInv, FoundMatches, AnswerTells
    <3> QED
      BY <3>1, AnswerStep
  <2>3. CASE Get(c)
    <3>1. PICK status \in {"done", "not found"} : Answer(c, status)
      BY <2>3 DEF Get
    <3>2. /\ call[c] \in {"read", "find"} /\ call[c] \notin Writes
          /\ applied' = applied
          /\ \A d \in Client : d # c => found'[d] = found[d]
      BY <1>u, <2>3 DEF Get, TypeOK, Writes
    <3> QED
      BY <3>1, <3>2, AnswerStep
  <2>4. CASE PutView(c)
    <3>1. call[c] = "find" /\ call[c] \notin Writes /\ found[c] = Nil
      BY <2>4 DEF PutView, StoreInv, SentMatches, FoundMatches, Writes
    <3>2. CASE Answer(c, "refused")
      BY <2>4, <3>1, <3>2, AnswerStep DEF PutView
    <3>3. CASE /\ pc' = [pc EXCEPT ![c] = "sent"]
               /\ write' = [write EXCEPT ![c] = NoBody]
               /\ UNCHANGED <<obj, call, code, result, given>>
      <4>1. /\ pc'[c] = "sent" /\ UNCHANGED <<found, applied>>
            /\ \A d \in Client : d # c => pc'[d] = pc[d] /\ write'[d] = write[d]
        BY <1>u, <2>4, <3>3 DEF PutView, TypeOK
      <4> QED
        BY <3>1, <3>3, <4>1, OthersKeep
    <3> QED
      BY <2>4, <3>2, <3>3 DEF PutView
  <2>5. CASE Lose(c)
    <3>1. /\ pc'[c] = "lost" /\ pc[c] \in {"viewing", "sent"}
          /\ UNCHANGED <<write, obj, call, found, code, result, given, applied>>
          /\ \A d \in Client : d # c => pc'[d] = pc[d]
      BY <1>u, <2>5 DEF Lose, TypeOK
    <3>2. /\ found[c] = Nil
          /\ call[c] \in {"update", "delete"} => obj[c] # Nil
      BY <3>1 DEF StoreInv, FoundMatches, SentMatches
    <3> QED
      BY <3>1, <3>2, OthersKeep
  <2> QED
    BY <1>3, <2>1, <2>2, <2>3, <2>4, <2>5 DEF Serve
<1> QED
  BY <1>1, <1>2, <1>3 DEF Next

\* What the threads know of their requests is in step throughout.
LEMMA StoreInvariant == Spec => []StoreInv
<1>1. Init => StoreInv
  <2> SUFFICES ASSUME Init PROVE StoreInv
    OBVIOUS
  <2>1. TypeOK
    BY DefaultsType DEF Init, TypeOK
  <2>2. FoundMatches /\ SentMatches /\ AnswerTells /\ OutcomeIsTrue
    BY DEF Init, FoundMatches, SentMatches, AnswerTells, OutcomeIsTrue, Writes
  <2> QED
    BY <2>1, <2>2 DEF StoreInv
<1> QED
  BY <1>1, StoreStep, PTL DEF Spec

(***************************************************************************)
(* The state of the store is well formed in every behaviour.               *)
(***************************************************************************)
THEOREM TypeCorrect == Spec => []TypeOK
<1>1. StoreInv => TypeOK
  BY DEF StoreInv
<1> QED
  BY <1>1, StoreInvariant, PTL

(***************************************************************************)
(* A create, update or delete returns OK only when its own request has     *)
(* changed the database, whatever other threads do and whatever is lost.   *)
(***************************************************************************)
THEOREM OutcomesAreTrue == Spec => []OutcomeIsTrue
<1>1. StoreInv => OutcomeIsTrue
  BY DEF StoreInv
<1> QED
  BY <1>1, StoreInvariant, PTL

----------------------------------------------------------------------------
(* What is stored                                                          *)

\* A document that is created or updated holds what the JSON members were made
\* of.
MembersStored ==
  [][\A c \in Client, k \in Key :
       (applied'[c] /\ ~applied[c] /\ docs'[k] # docs[k] /\ docs'[k].live) =>
         docs'[k].fields = Members(given[c])]_vars

\* Only the server changes the history of a client.
LEMMA AppliedByServer ==
  ASSUME TypeOK, Next, NEW c \in Client, applied'[c], ~applied[c]
  PROVE  Post(c) \/ Put(c) \/ Remove(c)
<1>1. ASSUME NEW d \in Client, Call(d) PROVE FALSE
  <2>1. applied' = applied \/ applied' = [applied EXCEPT ![d] = FALSE]
    BY <1>1 DEF Call, Create, Update, Delete, Read, Find, Begin, ReturnAnswer,
                ReturnFailure
  <2> QED
    BY <2>1 DEF TypeOK
<1>2. ASSUME NEW d \in Client, Serve(d), ~(Post(d) \/ Put(d) \/ Remove(d)) PROVE FALSE
  BY <1>2 DEF Serve, Refuse, Get, PutView, Lose
<1>3. ASSUME NEW d \in Client, d # c, Post(d) \/ Put(d) \/ Remove(d) PROVE FALSE
  BY <1>3 DEF Post, Put, Remove, TypeOK
<1> QED
  BY <1>1, <1>2, <1>3 DEF Next

(***************************************************************************)
(* What a create or an update stores is made of the arguments of that call *)
(* alone: no body of an earlier, failed request is ever sent in its place. *)
(***************************************************************************)
THEOREM StoredFromArguments == Spec => MembersStored
<1>1. StoreInv /\ [Next]_vars =>
        [\A c \in Client, k \in Key :
           (applied'[c] /\ ~applied[c] /\ docs'[k] # docs[k] /\ docs'[k].live) =>
             docs'[k].fields = Members(given[c])]_vars
  <2> SUFFICES ASSUME StoreInv, Next, NEW c \in Client, NEW k \in Key,
                      applied'[c], ~applied[c], docs'[k] # docs[k], docs'[k].live
               PROVE  docs'[k].fields = Members(given[c])
    BY DEF vars
  <2>t. TypeOK /\ SentMatches
    BY DEF StoreInv
  <2>1. CASE Post(c)
    <3>1. PICK j \in Key :
             docs' = [docs EXCEPT ![j] = [live |-> TRUE, rev |-> 1,
                                          fields |-> write[c].fields]]
      BY <2>1 DEF Post
    <3>2. j = k /\ docs'[k].fields = write[c].fields
      BY <2>t, <3>1 DEF TypeOK
    <3> QED
      BY <2>t, <2>1, <3>2 DEF Post, SentMatches
  <2>2. CASE Put(c)
    <3> DEFINE j == obj[c].key
               new == [live |-> TRUE, rev |-> docs[j].rev + 1,
                       fields |-> write[c].fields]
    <3>1. j \in Key
      BY <2>t, <2>2, ChangeOfHeld DEF Put
    <3>2. docs' = [docs EXCEPT ![j] = new]
      BY <2>t, <2>2, <3>1 DEF Put, TypeOK
    <3>3. new.fields = write[c].fields
      OBVIOUS
    <3> HIDE DEF j, new
    <3>4. j = k /\ docs'[k] = new
      BY <2>t, <3>1, <3>2 DEF TypeOK
    <3> QED
      BY <2>t, <2>2, <3>3, <3>4 DEF Put, SentMatches
  <2>3. CASE Remove(c)
    <3>1. obj[c].key \in Key /\ docs[obj[c].key] \in Doc
      BY <2>t, <2>3, ChangeOfHeld DEF Remove
    <3>2. ~docs'[obj[c].key].live
      BY <2>t, <2>3, <3>1 DEF Remove, TypeOK, Doc
    <3>3. \A j \in Key : j # obj[c].key => docs'[j] = docs[j]
      BY <2>t, <2>3, <3>1 DEF Remove, TypeOK
    <3> QED
      BY <3>2, <3>3
  <2> QED
    BY <2>t, <2>1, <2>2, <2>3, AppliedByServer
<1> QED
  BY <1>1, StoreInvariant, PTL DEF Spec, MembersStored

(***************************************************************************)
(* Objects of one field are stored as their caller gave them.  Of several  *)
(* fields, all get the value of the first: the run couch_fields shows it.  *)
(***************************************************************************)
THEOREM OneFieldStored == NumFields = 1 => (Spec => ValuesStored)
<1> SUFFICES ASSUME NumFields = 1 PROVE Spec => ValuesStored
  OBVIOUS
<1>1. \A values \in Values : Members(values) = values
  <2> SUFFICES ASSUME NEW values \in Values PROVE Members(values) = values
    OBVIOUS
  <2>1. Field = {1}
    BY DEF Field
  <2> QED
    BY <2>1 DEF Members, Values
<1>2. StoreInv /\ [\A c \in Client, k \in Key :
           (applied'[c] /\ ~applied[c] /\ docs'[k] # docs[k] /\ docs'[k].live) =>
             docs'[k].fields = Members(given[c])]_vars
      => [\A c \in Client, k \in Key :
           (applied'[c] /\ ~applied[c] /\ docs'[k] # docs[k] /\ docs'[k].live) =>
             docs'[k].fields = given[c]]_vars
  BY <1>1 DEF StoreInv, TypeOK
<1> QED
  BY <1>2, StoredFromArguments, StoreInvariant, PTL DEF ValuesStored, MembersStored

----------------------------------------------------------------------------
(* The refinement                                                          *)

\* The abstract state, as the instance substitutes it.
AbsVersion == [k \in Key |-> docs[k].rev]
AbsLive == [k \in Key |-> docs[k].live]
HeldBy(c) == IF Holds(c) = Nil THEN [object |-> "nothing"]
             ELSE [object |-> Holds(c).key, version |-> Holds(c).rev]
AbsHeld == [c \in Client |-> HeldBy(c)]
AbsOutcome == [c \in Client |-> Outcome(c)]

AbsVars == <<AbsVersion, AbsLive, AbsHeld, AbsOutcome>>

\* A step of c leaves what the promise says of the other threads alone.
LEMMA AbsOfOne ==
  ASSUME NEW c \in Client,
         \A d \in Client : d # c =>
           /\ pc'[d] = pc[d] /\ result'[d] = result[d] /\ code'[d] = code[d]
           /\ obj'[d] = obj[d] /\ found'[d] = found[d]
  PROVE  /\ AbsOutcome' = [AbsOutcome EXCEPT ![c] = Outcome(c)']
         /\ AbsHeld' = [AbsHeld EXCEPT ![c] = HeldBy(c)']
<1>1. \A d \in Client : d # c => Outcome(d)' = Outcome(d)
  BY DEF Outcome
<1>2. \A d \in Client : d # c => HeldBy(d)' = HeldBy(d)
  BY DEF HeldBy, Holds
<1> QED
  BY <1>1, <1>2 DEF AbsOutcome, AbsHeld

\* A step of c that changes no document and nothing c holds starts its call,
\* lets it fail, or is none of the promise.
LEMMA QuietStep ==
  ASSUME NEW c \in Client,
         \A d \in Client : d # c =>
           /\ pc'[d] = pc[d] /\ result'[d] = result[d] /\ code'[d] = code[d]
           /\ obj'[d] = obj[d] /\ found'[d] = found[d],
         docs' = docs,
         HeldBy(c)' = HeldBy(c),
         Outcome(c)' \in {"none", "error", Outcome(c)}
  PROVE  Promise!Next \/ UNCHANGED AbsVars
<1>1. AbsOutcome' = [AbsOutcome EXCEPT ![c] = Outcome(c)']
  BY AbsOfOne
<1>2. AbsHeld' = [AbsHeld EXCEPT ![c] = HeldBy(c)']
  BY AbsOfOne
<1>3. AbsHeld' = AbsHeld
  BY <1>2 DEF AbsHeld
<1>4. AbsVersion' = AbsVersion /\ AbsLive' = AbsLive
  BY DEF AbsVersion, AbsLive
<1>5. CASE Outcome(c)' = Outcome(c)
  <2>1. AbsOutcome' = AbsOutcome
    BY <1>1, <1>5 DEF AbsOutcome
  <2> QED
    BY <1>3, <1>4, <2>1 DEF AbsVars
<1>6. CASE Outcome(c)' = "none"
  <2>1. Promise!Start(c)
    BY <1>1, <1>3, <1>4, <1>6 DEF Promise!Start, AbsVersion, AbsLive, AbsHeld,
                                  AbsOutcome, HeldBy
  <2> QED
    BY <2>1 DEF Promise!Next
<1>7. CASE Outcome(c)' = "error"
  <2>1. Promise!Fail(c)
    BY <1>1, <1>3, <1>4, <1>7 DEF Promise!Fail, AbsVersion, AbsLive, AbsHeld,
                                  AbsOutcome, HeldBy
  <2> QED
    BY <2>1 DEF Promise!Next
<1> QED
  BY <1>5, <1>6, <1>7

\* An answer decides the outcome, and only a lost one hides what was done.
LEMMA AnswerOutcome ==
  ASSUME TypeOK, NEW c \in Client, NEW status \in {"done", "refused", "not found"},
         Answer(c, status)
  PROVE  /\ \/ pc'[c] = "answered"
               /\ Outcome(c)' = IF status = "done" THEN "ok" ELSE "error"
            \/ pc'[c] = "lost" /\ Outcome(c)' = "error"
         /\ code'[c] = status
         /\ \A d \in Client : d # c => pc'[d] = pc[d] /\ code'[d] = code[d]
         /\ UNCHANGED <<write, obj, call, result, given>>
<1>1. PICK heard \in {"answered", "lost"} : pc' = [pc EXCEPT ![c] = heard]
  BY DEF Answer
<1>2. /\ pc'[c] = heard /\ code'[c] = status
      /\ \A d \in Client : d # c => pc'[d] = pc[d] /\ code'[d] = code[d]
      /\ UNCHANGED <<write, obj, call, result, given>>
  BY <1>1 DEF Answer, TypeOK
<1> QED
  BY <1>2 DEF Outcome, Success

\* A PUT or a DELETE of the current revision changes the version that was read,
\* whether or not c hears of it.
LEMMA ChangeStep ==
  ASSUME StoreInv, NEW c \in Client, NEW k \in Key, NEW stays \in BOOLEAN,
         obj[c] \in Obj, k = obj[c].key,
         call[c] \notin {"read", "find"},
         docs[k].live, docs[k].rev = obj[c].rev,
         docs'[k].rev = docs[k].rev + 1, docs'[k].live = stays,
         \A j \in Key : j # k => docs'[j] = docs[j],
         Answer(c, "done"), found' = found
  PROVE  Promise!Next
<1>1. /\ AbsOutcome' = [AbsOutcome EXCEPT ![c] = Outcome(c)']
      /\ Outcome(c)' \in {"ok", "error"}
  BY AnswerOutcome, AbsOfOne DEF StoreInv
<1>2. obj' = obj /\ found[c] = Nil /\ found'[c] = Nil
  BY AnswerOutcome DEF StoreInv, FoundMatches
<1>3. AbsHeld' = AbsHeld
  <2>1. AbsHeld' = [AbsHeld EXCEPT ![c] = HeldBy(c)']
    BY AnswerOutcome, AbsOfOne DEF StoreInv
  <2>2. HeldBy(c)' = HeldBy(c)
    BY <1>2 DEF HeldBy, Holds
  <2> QED
    BY <2>1, <2>2 DEF AbsHeld
<1>4. AbsVersion' = [AbsVersion EXCEPT ![k] = @ + 1]
  BY DEF AbsVersion
<1>5. AbsLive' = [AbsLive EXCEPT ![k] = stays]
  BY DEF AbsLive
<1>6. AbsHeld[c] = [object |-> k, version |-> obj[c].rev]
  <2>1. obj[c] # Nil
    BY DEF Obj, Nil, Key
  <2> QED
    BY <1>2, <2>1 DEF AbsHeld, HeldBy, Holds
<1>7. Promise!Changed(c, stays)
  <2>1. AbsHeld[c] # Promise!Nothing /\ AbsHeld[c].object = k
        /\ AbsHeld[c].version = obj[c].rev
    BY <1>6 DEF Promise!Nothing
  <2>2. AbsLive[k] /\ AbsVersion[k] = obj[c].rev
    BY DEF AbsLive, AbsVersion
  <2> QED
    BY <1>3, <1>4, <1>5, <2>1, <2>2
       DEF Promise!Changed, AbsVersion, AbsLive, AbsHeld, HeldBy
<1>8. CASE Outcome(c)' = "ok"
  <2>1. Promise!Change(c, stays)
    BY <1>1, <1>7, <1>8 DEF Promise!Change, AbsOutcome
  <2> QED
    BY <2>1 DEF Promise!Next
<1>9. CASE Outcome(c)' = "error"
  <2>1. Promise!Lose(c)
    BY <1>1, <1>7, <1>9 DEF Promise!Lose, AbsOutcome
  <2> QED
    BY <2>1 DEF Promise!Next
<1> QED
  BY <1>1, <1>8, <1>9

\* A call that gets to its request has no outcome yet, one that does not has
\* failed.
LEMMA BeginQuiet ==
  ASSUME StoreInv, NEW c \in Client,
         NEW op, NEW values, NEW body,
         NEW next \in {"sent", "viewing"},
         Begin(c, op, values, body, next)
  PROVE  Promise!Next \/ UNCHANGED AbsVars
<1>1. docs' = docs /\ obj' = obj /\ found' = found /\ code' = code /\ found[c] = Nil
  BY DEF Begin, StoreInv, FoundMatches
<1>2. HeldBy(c)' = HeldBy(c)
  BY <1>1 DEF HeldBy, Holds
<1>3. \/ pc' = [pc EXCEPT ![c] = next] /\ result' = [result EXCEPT ![c] = "none"]
      \/ pc' = pc /\ pc[c] = "idle" /\ result' = [result EXCEPT ![c] = "error"]
  BY DEF Begin, Request
<1>4. Outcome(c)' \in {"none", "error"}
  BY <1>3 DEF Outcome, StoreInv, TypeOK
<1>5. \A d \in Client : d # c => pc'[d] = pc[d] /\ result'[d] = result[d]
  BY <1>3 DEF StoreInv, TypeOK
<1> QED
  BY <1>1, <1>2, <1>4, <1>5, QuietStep

(***************************************************************************)
(* Every step of a handler and of the server is a step of the promise, or  *)
(* changes nothing the promise speaks of.                                  *)
(***************************************************************************)
LEMMA PromiseStep == StoreInv /\ [Next]_vars => [Promise!Next]_(Promise!vars)
<1> USE BoundsType
<1> SUFFICES ASSUME StoreInv, [Next]_vars
             PROVE  Promise!Next \/ UNCHANGED AbsVars
  BY DEF Promise!vars, AbsVars, AbsVersion, AbsLive, AbsHeld, AbsOutcome, HeldBy
<1>u. TypeOK /\ SentMatches
  BY DEF StoreInv
<1>1. CASE UNCHANGED vars
  BY <1>1 DEF vars, AbsVars, AbsVersion, AbsLive, AbsHeld, AbsOutcome, HeldBy,
              Holds, Outcome
<1>2. ASSUME NEW c \in Client, Call(c) PROVE Promise!Next \/ UNCHANGED AbsVars
  <2>1. CASE \E values \in Values : Create(c, values) \/ Update(c, values)
    BY <2>1, BeginQuiet DEF Create, Update
  <2>2. CASE Delete(c) \/ Read(c) \/ Find(c)
    BY <2>2, BeginQuiet DEF Delete, Read, Find
  <2>3. CASE ReturnAnswer(c)
    <3>1. /\ pc[c] = "answered" /\ pc'[c] = "idle" /\ docs' = docs
          /\ result'[c] = IF Success(code[c]) THEN "ok" ELSE "error"
          /\ obj'[c] = IF call[c] \in {"read", "find"} /\ found[c] # Nil
                         THEN found[c] ELSE obj[c]
      BY <1>u, <2>3 DEF ReturnAnswer, TypeOK
    <3>2. \A d \in Client : d # c =>
            /\ obj'[d] = obj[d] /\ pc'[d] = pc[d] /\ found'[d] = found[d]
            /\ code'[d] = code[d] /\ result'[d] = result[d]
      BY <1>u, <2>3 DEF ReturnAnswer, Forget, TypeOK
    <3>3. Outcome(c)' = Outcome(c)
      BY <3>1 DEF Outcome
    <3>4. Holds(c)' = Holds(c)
      BY <3>1 DEF Holds, StoreInv, FoundMatches
    <3> QED
      BY <3>1, <3>2, <3>3, <3>4, QuietStep DEF HeldBy
  <2>4. CASE ReturnFailure(c)
    <3>1. /\ pc[c] = "lost" /\ pc'[c] = "idle" /\ docs' = docs
          /\ result'[c] = "error" /\ obj' = obj
      BY <1>u, <2>4 DEF ReturnFailure, TypeOK
    <3>2. \A d \in Client : d # c =>
            /\ pc'[d] = pc[d] /\ found'[d] = found[d]
            /\ code'[d] = code[d] /\ result'[d] = result[d]
      BY <1>u, <2>4 DEF ReturnFailure, Forget, TypeOK
    <3>3. Outcome(c)' = "error"
      BY <3>1 DEF Outcome
    <3>4. Holds(c)' = Holds(c)
      BY <3>1 DEF Holds
    <3> QED
      BY <3>1, <3>2, <3>3, <3>4, QuietStep DEF HeldBy
  <2> QED
    BY <1>2, <2>1, <2>2, <2>3, <2>4 DEF Call
<1>3. ASSUME NEW c \in Client, Serve(c) PROVE Promise!Next \/ UNCHANGED AbsVars
  <2>1. CASE Post(c)
    <3> DEFINE new == [live |-> TRUE, rev |-> 1, fields |-> write[c].fields]
    <3>1. PICK k \in Key : docs[k].rev = 0 /\ docs' = [docs EXCEPT ![k] = new]
      BY <2>1 DEF Post
    <3>2. new.live = TRUE /\ new.rev = 1
      OBVIOUS
    <3> HIDE DEF new
    <3>3. docs'[k] = new /\ \A j \in Key : j # k => docs'[j] = docs[j]
      BY <1>u, <3>1 DEF TypeOK
    <3>4. /\ AbsVersion[k] = 0
          /\ AbsVersion' = [AbsVersion EXCEPT ![k] = 1]
          /\ AbsLive' = [AbsLive EXCEPT ![k] = TRUE]
      <4>1. docs'[k].live = TRUE /\ docs'[k].rev = 1
        BY <3>2, <3>3
      <4>2. AbsVersion' = [AbsVersion EXCEPT ![k] = 1]
        BY <3>3, <4>1 DEF AbsVersion
      <4>3. AbsLive' = [AbsLive EXCEPT ![k] = TRUE]
        BY <3>3, <4>1 DEF AbsLive
      <4> QED
        BY <3>1, <4>2, <4>3 DEF AbsVersion
    <3>5. /\ Answer(c, "done") /\ found' = found /\ found[c] = Nil
      BY <2>1 DEF Post, StoreInv, FoundMatches
    <3>6. /\ AbsOutcome' = [AbsOutcome EXCEPT ![c] = Outcome(c)']
          /\ AbsHeld' = [AbsHeld EXCEPT ![c] = HeldBy(c)']
          /\ Outcome(c)' \in {"ok", "error"}
      BY <1>u, <3>5, AnswerOutcome, AbsOfOne
    <3>7. HeldBy(c)' = HeldBy(c)
      BY <1>u, <3>5, AnswerOutcome DEF HeldBy, Holds
    <3>8. AbsHeld' = AbsHeld
      BY <3>6, <3>7 DEF AbsHeld
    <3>9. Promise!Made(k)
      BY <3>4, <3>8 DEF Promise!Made, AbsVersion, AbsLive, AbsHeld, HeldBy
    <3>10. CASE Outcome(c)' = "ok"
      BY <3>6, <3>9, <3>10 DEF Promise!Next, Promise!Create, AbsOutcome
    <3>11. CASE Outcome(c)' = "error"
      BY <3>6, <3>9, <3>11 DEF Promise!Next, Promise!Lose, AbsOutcome
    <3> QED
      BY <3>6, <3>10, <3>11
  <2>2. CASE Put(c)
    <3> DEFINE k == obj[c].key
               new == [live |-> TRUE, rev |-> docs[k].rev + 1,
                       fields |-> write[c].fields]
    <3>1. obj[c] \in Obj /\ k \in Key /\ write[c].rev = obj[c].rev
      BY <1>u, <2>2, ChangeOfHeld DEF Put, SentMatches
    <3>2. docs' = [docs EXCEPT ![k] = new]
      BY <1>u, <2>2, <3>1 DEF Put, TypeOK
    <3>3. new.live = TRUE /\ new.rev = docs[k].rev + 1
      OBVIOUS
    <3>4. /\ docs[k].live /\ docs[k].rev = obj[c].rev
          /\ Answer(c, "done") /\ found' = found
          /\ call[c] \notin {"read", "find"}
      BY <2>2, <3>1 DEF Put, Current
    <3> HIDE DEF k, new
    <3>5. docs'[k] = new /\ \A j \in Key : j # k => docs'[j] = docs[j]
      BY <1>u, <3>1, <3>2 DEF TypeOK
    <3>6. k = obj[c].key
      BY DEF k
    <3> QED
      BY <3>1, <3>3, <3>4, <3>5, <3>6, ChangeStep
  <2>3. CASE Remove(c)
    <3> DEFINE k == obj[c].key
    <3>1. obj[c] \in Obj /\ k \in Key /\ docs[k] \in Doc
      BY <1>u, <2>3, ChangeOfHeld DEF Remove
    <3>2. docs'[k].live = FALSE /\ docs'[k].rev = docs[k].rev + 1
      BY <1>u, <2>3, <3>1 DEF Remove, TypeOK, Doc
    <3>3. \A j \in Key : j # k => docs'[j] = docs[j]
      BY <1>u, <2>3, <3>1 DEF Remove, TypeOK
    <3>4. /\ docs[k].live /\ docs[k].rev = obj[c].rev
          /\ Answer(c, "done") /\ found' = found
          /\ call[c] \notin {"read", "find"}
      BY <2>3, <3>1 DEF Remove, Current
    <3> QED
      BY <3>1, <3>2, <3>3, <3>4, ChangeStep
  <2>4. CASE Refuse(c)
    <3>1. /\ Answer(c, "refused") /\ docs' = docs /\ found' = found
          /\ found[c] = Nil
      BY <2>4 DEF Refuse, StoreInv, FoundMatches
    <3>2. HeldBy(c)' = HeldBy(c)
      BY <1>u, <3>1, AnswerOutcome DEF HeldBy, Holds
    <3> QED
      BY <1>u, <3>1, <3>2, AnswerOutcome, QuietStep
  <2>5. CASE Get(c)
    <3>1. docs' = docs /\ pc[c] = "sent"
      BY <2>5 DEF Get
    <3>2. ASSUME NEW k \in Key, docs[k].live,
                 found' = [found EXCEPT ![c] = [key |-> k, rev |-> docs[k].rev]],
                 Answer(c, "done")
          PROVE  Promise!Next \/ UNCHANGED AbsVars
      <4> DEFINE o == [key |-> k, rev |-> docs[k].rev]
      <4>1. found'[c] = o /\ \A d \in Client : d # c => found'[d] = found[d]
        BY <1>u, <3>2 DEF TypeOK
      <4>2. o # Nil
        BY DEF Nil, Key
      <4>3. CASE pc'[c] = "lost"
        <5>1. Outcome(c)' = "error" /\ HeldBy(c)' = HeldBy(c)
          BY <1>u, <3>1, <3>2, <4>3, AnswerOutcome DEF HeldBy, Holds
        <5> QED
          BY <1>u, <3>1, <3>2, <4>1, <5>1, AnswerOutcome, QuietStep
      <4>4. CASE pc'[c] = "answered"
        <5>1. Outcome(c)' = "ok"
          BY <1>u, <3>2, <4>4, AnswerOutcome
        <5>2. HeldBy(c)' = [object |-> k, version |-> docs[k].rev]
          BY <4>1, <4>2, <4>4 DEF HeldBy, Holds
        <5>3. /\ AbsOutcome' = [AbsOutcome EXCEPT ![c] = Outcome(c)']
              /\ AbsHeld' = [AbsHeld EXCEPT ![c] = HeldBy(c)']
          BY <1>u, <3>2, <4>1, AnswerOutcome, AbsOfOne
        <5>4. /\ AbsVersion' = AbsVersion /\ AbsLive' = AbsLive
              /\ AbsLive[k] /\ AbsVersion[k] = docs[k].rev
          BY <3>1, <3>2 DEF AbsVersion, AbsLive
        <5>5. Promise!Fetch(c, k)
          BY <5>1, <5>2, <5>3, <5>4
             DEF Promise!Fetch, AbsVersion, AbsLive, AbsHeld, AbsOutcome, HeldBy
        <5> QED
          BY <5>5 DEF Promise!Next
      <4> QED
        BY <1>u, <3>2, <4>3, <4>4, AnswerOutcome
    <3>3. CASE found' = [found EXCEPT ![c] = Nil] /\ Answer(c, "not found")
      <4>1. found'[c] = Nil /\ \A d \in Client : d # c => found'[d] = found[d]
        BY <1>u, <3>3 DEF TypeOK
      <4>2. HeldBy(c)' = HeldBy(c)
        BY <1>u, <3>1, <3>3, <4>1, AnswerOutcome DEF HeldBy, Holds
      <4> QED
        BY <1>u, <3>1, <3>3, <4>1, <4>2, AnswerOutcome, QuietStep
    <3> QED
      BY <2>5, <3>2, <3>3 DEF Get
  <2>6. CASE PutView(c)
    <3>1. docs' = docs /\ found' = found /\ pc[c] = "viewing" /\ found[c] = Nil
      BY <2>6 DEF PutView, StoreInv, FoundMatches
    <3>2. CASE Answer(c, "refused")
      <4>1. HeldBy(c)' = HeldBy(c)
        BY <1>u, <3>1, <3>2, AnswerOutcome DEF HeldBy, Holds
      <4> QED
        BY <1>u, <3>1, <3>2, <4>1, AnswerOutcome, QuietStep
    <3>3. CASE pc' = [pc EXCEPT ![c] = "sent"] /\ UNCHANGED <<obj, code, result>>
      <4>1. pc'[c] = "sent" /\ \A d \in Client : d # c => pc'[d] = pc[d]
        BY <1>u, <3>3 DEF TypeOK
      <4>2. Outcome(c)' = "none" /\ HeldBy(c)' = HeldBy(c)
        BY <3>1, <3>3, <4>1 DEF Outcome, HeldBy, Holds
      <4> QED
        BY <3>1, <3>3, <4>1, <4>2, QuietStep
    <3> QED
      BY <2>6, <3>2, <3>3 DEF PutView
  <2>7. CASE Lose(c)
    <3>1. /\ pc'[c] = "lost" /\ pc[c] \in {"viewing", "sent"}
          /\ UNCHANGED <<docs, obj, found, code, result>>
          /\ \A d \in Client : d # c => pc'[d] = pc[d]
      BY <1>u, <2>7 DEF Lose, TypeOK
    <3>2. Outcome(c)' = "error" /\ HeldBy(c)' = HeldBy(c)
      BY <3>1 DEF Outcome, HeldBy, Holds
    <3> QED
      BY <3>1, <3>2, QuietStep
  <2> QED
    BY <1>3, <2>1, <2>2, <2>3, <2>4, <2>5, <2>6, <2>7 DEF Serve
<1> QED
  BY <1>1, <1>2, <1>3 DEF Next

(***************************************************************************)
(* The CouchDB backend keeps the promise of README.md, "Object Revisions": *)
(* whatever requests and answers the network loses, an update or a delete  *)
(* takes effect only on the version its thread has read.                   *)
(***************************************************************************)
THEOREM RefinesRevisionStore == Spec => KeepsPromise
<1>1. Init => Promise!Init
  BY DEF Init, Promise!Init, Promise!Nothing, NoDoc, Outcome, Holds
<1> QED
  BY <1>1, PromiseStep, StoreInvariant, PTL DEF Spec, KeepsPromise, Promise!Spec

=============================================================================
