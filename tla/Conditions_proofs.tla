-------------------------- MODULE Conditions_proofs --------------------------
(***************************************************************************)
(* What a field of an object is worth after it was stored and read, what   *)
(* the walks through a clause list count and bind, and that a statement    *)
(* selects what its clauses mean: for integers of any width, any set of    *)
(* enumerators, and lists of any length that are nested to any depth.      *)
(***************************************************************************)
EXTENDS Conditions, WellFoundedInduction, SequenceTheorems, FiniteSetTheorems, TLAPS

----------------------------------------------------------------------------
(* Recursive functions                                                     *)

\* Every set of natural numbers has a least one.
LEMMA LeastNumber ==
  ASSUME NEW T \in SUBSET Nat, T # {}
  PROVE  \E x \in T : \A y \in T : x <= y
<1> DEFINE R == OpToRel(<, Nat)
<1>1. IsWellFoundedOn(R, Nat)
  BY NatLessThanWellFounded, Zenon
<1>2. \A x, y \in Nat : y < x => <<y, x>> \in R
  BY DEF OpToRel
<1> HIDE DEF R
<1>3. PICK x \in T : \A y \in T : <<y, x>> \notin R
  BY <1>1, WFMin
<1>4. \A y \in T : ~(y < x)
  BY <1>2, <1>3
<1> QED
  BY <1>4

\* A step makes a value of those before it.
Steps(step, a, N, S) ==
  \A n \in a .. N : \A r \in [a .. n - 1 -> S] : step[n][r] \in S

Follows(f, step, a, N) ==
  \A n \in a .. N : f[n] = step[n][[m \in a .. n - 1 |-> f[m]]]

\* There is the function that a step defines.
LEMMA Recursion ==
  ASSUME NEW a \in Nat, NEW N \in Nat, a <= N + 1, NEW S, NEW step,
         Steps(step, a, N, S)
  PROVE  \E f \in [a .. N -> S] : Follows(f, step, a, N)
<1> USE DEF Steps, Follows
<1> DEFINE Sofar(k, f) ==
             /\ f \in [a .. a + k - 1 -> S]
             /\ \A n \in a .. a + k - 1 : f[n] = step[n][[m \in a .. n - 1 |-> f[m]]]
           T == {k \in 0 .. N + 1 - a : ~\E f : Sofar(k, f)}
<1>1. SUFFICES T = {}
  <2>1. N + 1 - a \in 0 .. N + 1 - a /\ a + (N + 1 - a) - 1 = N
    OBVIOUS
  <2>2. \E f : Sofar(N + 1 - a, f)
    BY <1>1, <2>1
  <2> QED
    BY <2>1, <2>2
<1>2. SUFFICES ASSUME T # {} PROVE FALSE
  OBVIOUS
<1>3. PICK k \in T : \A y \in T : k <= y
  <2>1. T \in SUBSET Nat
    OBVIOUS
  <2> QED
    BY <1>2, <2>1, LeastNumber
<1>4. k # 0
  <2>1. Sofar(0, [n \in a .. a - 1 |-> 0])
    OBVIOUS
  <2> QED
    BY <1>3, <2>1
<1> DEFINE j == k - 1
<1>5. j \in 0 .. N + 1 - a /\ j \notin T /\ k = j + 1 /\ j \in Nat
  <2>1. k \in 0 .. N + 1 - a
    BY <1>3
  <2>2. j \in 0 .. N + 1 - a /\ k = j + 1 /\ j \in Nat
    BY <1>4, <2>1
  <2> HIDE DEF T, j
  <2>3. j \notin T
    BY <1>3, <2>1, <2>2
  <2> QED
    BY <2>2, <2>3
<1> HIDE DEF j
<1>6. PICK f : Sofar(j, f)
  BY <1>5
<1> DEFINE x == a + j
           g == [n \in a .. x |-> IF n = x THEN step[x][f] ELSE f[n]]
<1>7. x \in a .. N /\ a .. a + k - 1 = a .. x /\ a + j - 1 = x - 1 /\ x \in Nat
  BY <1>3, <1>5
<1> HIDE DEF x
<1>8. f \in [a .. x - 1 -> S]
  BY <1>6, <1>7
<1>9. step[x][f] \in S
  BY <1>7, <1>8
<1>10. g \in [a .. x -> S]
  BY <1>7, <1>8, <1>9
<1>11. ASSUME NEW n \in a .. x
       PROVE  g[n] = step[n][[m \in a .. n - 1 |-> g[m]]]
  <2>1. [m \in a .. n - 1 |-> g[m]] = [m \in a .. n - 1 |-> f[m]]
    BY <1>7
  <2>2. CASE n = x
    <3>1. [m \in a .. n - 1 |-> f[m]] = f
      BY <1>8, <2>2
    <3> QED
      BY <2>1, <2>2, <3>1, <1>7
  <2>3. CASE n # x
    <3>1. n \in a .. x - 1
      BY <2>3, <1>7
    <3>2. f[n] = step[n][[m \in a .. n - 1 |-> f[m]]]
      BY <1>6, <1>7, <3>1
    <3> QED
      BY <2>1, <2>3, <3>2
  <2> QED
    BY <2>2, <2>3
<1>12. Sofar(k, g)
  BY <1>7, <1>10, <1>11
<1>13. ~\E h : Sofar(k, h)
  BY <1>3
<1> HIDE DEF Sofar
<1> QED
  BY <1>12, <1>13, Zenon

\* What holds at a number when it holds before it holds up to any number.
LEMMA Upwards ==
  ASSUME NEW a \in Nat, NEW N \in Int, NEW H,
         \A n \in a .. N : (\A m \in a .. n - 1 : m \in H) => n \in H
  PROVE  \A n \in a .. N : n \in H
<1> DEFINE T == {n \in a .. N : n \notin H}
<1> SUFFICES ASSUME T # {} PROVE FALSE
  OBVIOUS
<1>1. T \in SUBSET Nat
  OBVIOUS
<1>2. PICK n \in T : \A y \in T : n <= y
  BY <1>1, LeastNumber
<1>3. n \in a .. N /\ n \notin H
  BY <1>2
<1>4. ASSUME NEW m \in a .. n - 1 PROVE m \in H
  <2>1. m \in a .. N /\ ~(n <= m)
    BY <1>3
  <2> QED
    BY <1>2, <2>1
<1> QED
  BY <1>3, <1>4

\* What holds at first, and goes on to hold, holds all along.
LEMMA Onwards ==
  ASSUME NEW N \in Nat, NEW H, 0 \in H, \A i \in 1 .. N : i - 1 \in H => i \in H
  PROVE  \A i \in 0 .. N : i \in H
<1>1. ASSUME NEW n \in 0 .. N, \A m \in 0 .. n - 1 : m \in H
      PROVE  n \in H
  <2>1. CASE n = 0
    BY <2>1
  <2>2. CASE n # 0
    <3>1. n - 1 \in 0 .. n - 1 /\ n \in 1 .. N
      BY <2>2
    <3> QED
      BY <1>1, <3>1
  <2> QED
    BY <2>1, <2>2
<1>2. 0 \in Nat /\ N \in Int
  OBVIOUS
<1> QED
  BY <1>1, <1>2, Upwards, Zenon

\* A walk takes a step for each number, from where the last one has led.
Walks(next, N, S) ==
  \A i \in 1 .. N : \A s \in S : next[i][s] \in S

Walked(w, next, N) ==
  \A i \in 1 .. N : w[i] = next[i][w[i - 1]]

LEMMA WalkExists ==
  ASSUME NEW N \in Nat, NEW S, NEW base \in S, NEW next, Walks(next, N, S)
  PROVE  \E w \in [0 .. N -> S] : w[0] = base /\ Walked(w, next, N)
<1> DEFINE step == [n \in 0 .. N |-> [r \in [0 .. n - 1 -> S] |->
                      IF n = 0 THEN base ELSE next[n][r[n - 1]]]]
<1>1. Steps(step, 0, N, S)
  <2> SUFFICES ASSUME NEW n \in 0 .. N, NEW r \in [0 .. n - 1 -> S]
               PROVE  step[n][r] \in S
    BY DEF Steps
  <2>1. CASE n = 0
    BY <2>1
  <2>2. CASE n # 0
    <3>1. n - 1 \in 0 .. n - 1 /\ n \in 1 .. N
      BY <2>2
    <3>2. r[n - 1] \in S
      BY <3>1
    <3> QED
      BY <2>2, <3>1, <3>2 DEF Walks
  <2> QED
    BY <2>1, <2>2
<1>2. PICK w \in [0 .. N -> S] : Follows(w, step, 0, N)
  <2> HIDE DEF step
  <2>1. 0 \in Nat /\ 0 <= N + 1
    OBVIOUS
  <2> QED
    BY <1>1, <2>1, Recursion, Zenon
<1>3. ASSUME NEW n \in 0 .. N
      PROVE  w[n] = IF n = 0 THEN base ELSE next[n][w[n - 1]]
  <2> DEFINE r == [m \in 0 .. n - 1 |-> w[m]]
  <2>1. r \in [0 .. n - 1 -> S]
    OBVIOUS
  <2>2. w[n] = step[n][r]
    BY <1>2 DEF Follows
  <2>3. step[n][r] = IF n = 0 THEN base ELSE next[n][r[n - 1]]
    BY <2>1
  <2>4. n # 0 => r[n - 1] = w[n - 1]
    OBVIOUS
  <2> HIDE DEF r, step
  <2> QED
    BY <2>2, <2>3, <2>4
<1>4. w[0] = base
  BY <1>3
<1>5. Walked(w, next, N)
  BY <1>3 DEF Walked
<1> QED
  BY <1>4, <1>5

----------------------------------------------------------------------------
(* Columns                                                                 *)


\* The halves are what AsSigned and AsUnsigned count in, so neither loses a bit.
LEMMA SignsInverse ==
  ASSUME NEW half \in Nat, NEW n \in 0 .. 2 * half - 1
  PROVE  /\ AsSigned(n, half) \in -half .. half - 1
         /\ AsUnsigned(AsSigned(n, half), half) = n
BY DEF AsSigned, AsUnsigned

\* An integer that fits an int32 is not changed by sqlite3_column_int.
LEMMA NarrowFits ==
  ASSUME NEW n \in Domain("INT32")
  PROVE  Narrow(n) = n
BY DEF Narrow

\* The value a program makes of a field is accepted and has the type asked for.
LEMMA FieldValueIs ==
  ASSUME NEW kind \in Kinds, NEW n \in Domain(kind)
  PROVE  FieldValue(kind, n) = [type |-> kind, val |-> n]
BY DEF FieldValue, FromEnumValue, From, Domain, Kinds

\* SQLite: the integer that is bound fits the function that reads the column.
LEMMA SqliteRoundTrip ==
  ASSUME NEW kind \in Kinds, NEW n \in Domain(kind)
  PROVE  LET value == [type |-> kind, val |-> n] IN
         FieldFrom(kind, SqliteColumn(kind, SqliteBind(value))) = value
<1> DEFINE value == [type |-> kind, val |-> n]
<1> USE HalvesType, EnumSetType
<1>1. CASE kind = "UINT32"
  <2>1. n \in 0 .. 2 * Half32 - 1
    BY <1>1 DEF Domain
  <2>2. AsSigned(n, Half32) \in Domain("INT32")
    BY <2>1, SignsInverse DEF Domain
  <2>3. Narrow(AsSigned(n, Half32)) = AsSigned(n, Half32)
    BY <2>2, NarrowFits
  <2>4. AsUnsigned(AsSigned(n, Half32), Half32) = n
    BY <2>1, SignsInverse
  <2> QED
    BY <1>1, <2>3, <2>4 DEF SqliteColumn, SqliteBind, FieldFrom, To, From, Empty
<1>2. CASE kind = "UINT64"
  <2>1. n \in 0 .. 2 * Half64 - 1
    BY <1>2 DEF Domain
  <2>2. AsUnsigned(AsSigned(n, Half64), Half64) = n
    BY <2>1, SignsInverse
  <2> QED
    BY <1>2, <2>2 DEF SqliteColumn, SqliteBind, FieldFrom, To, From, Empty
<1>3. CASE kind \in {"INT32", "ENUM"}
  <2>1. n \in Domain("INT32")
    BY <1>3 DEF Domain
  <2>2. Narrow(n) = n
    BY <2>1, NarrowFits
  <2>3. kind = "ENUM" => n \in EnumSet
    BY DEF Domain
  <2> QED
    BY <1>3, <2>2, <2>3
    DEF SqliteColumn, SqliteBind, FieldFrom, To, ToEnumValue, From, Empty
<1>4. CASE kind \in {"INT64", "TEXT"}
  BY <1>4 DEF SqliteColumn, SqliteBind, FieldFrom, To, From, Empty
<1> QED
  BY <1>1, <1>2, <1>3, <1>4 DEF Kinds

\* MySQL: the buffer has the sign and the width of the field.
LEMMA MysqlRoundTrip ==
  ASSUME NEW kind \in Kinds, NEW n \in Domain(kind)
  PROVE  LET value == [type |-> kind, val |-> n] IN
         FieldFrom(kind, MysqlColumn(kind, MysqlBind(value))) = value
<1>1. CASE kind = "ENUM"
  <2>1. n \in EnumSet
    BY <1>1 DEF Domain
  <2> QED
    BY <1>1, <2>1
    DEF MysqlColumn, MysqlBuffer, MysqlBind, FieldFrom, ToEnumValue, From, Empty
<1>2. CASE kind # "ENUM"
  BY <1>2 DEF MysqlColumn, MysqlBuffer, MysqlBind, FieldFrom, To, From, Empty
<1> QED
  BY <1>1, <1>2

(***************************************************************************)
(* An object that is read from an SQL backend has the very values it was   *)
(* created with, for every type of field and every value of the type: what *)
(* the handlers bind, and what they make of the columns, are inverse.      *)
(***************************************************************************)
THEOREM FieldsRoundTrip ==
  ASSUME NEW backend \in {"sqlite", "mysql"},
         NEW kind \in Kinds, NEW n \in Domain(kind)
  PROVE  FieldFrom(kind, Column(backend, kind, Stored(backend, FieldValue(kind, n))))
           = FieldValue(kind, n)
<1>1. FieldValue(kind, n) = [type |-> kind, val |-> n]
  BY FieldValueIs
<1>2. CASE backend = "sqlite"
  BY <1>1, <1>2, SqliteRoundTrip DEF Column, Stored
<1>3. CASE backend = "mysql"
  BY <1>1, <1>3, MysqlRoundTrip DEF Column, Stored
<1> QED
  BY <1>2, <1>3

(***************************************************************************)
(* A document's number comes back as an int64, whatever it was: from       *)
(* CouchDB an object is made only when its field is an int64 or a text,    *)
(* and then it has the value it was created with.                          *)
(***************************************************************************)
THEOREM CouchFieldsRoundTripOrFail ==
  ASSUME NEW kind \in Kinds, NEW n \in Domain(kind)
  PROVE  FieldFrom(kind, Column("couchdb", kind, Stored("couchdb", FieldValue(kind, n))))
           = IF kind \in {"INT64", "TEXT"} THEN FieldValue(kind, n) ELSE Error
<1>1. FieldValue(kind, n) = [type |-> kind, val |-> n]
  BY FieldValueIs
<1>2. Stored("couchdb", FieldValue(kind, n))
        = CouchMember([type |-> kind, val |-> n])
  BY <1>1 DEF Stored
<1>3. CASE kind \in {"INT64", "TEXT"}
  BY <1>1, <1>2, <1>3
  DEF Column, CouchColumn, CouchMember, FieldFrom, To, From, Empty
<1>4. CASE kind \in {"INT32", "UINT32", "UINT64"}
  BY <1>2, <1>4 DEF Column, CouchColumn, FieldFrom, To, From, Empty
<1>5. CASE kind = "ENUM"
  BY <1>2, <1>5 DEF Column, CouchColumn, FieldFrom, ToEnumValue, From, Empty
<1> QED
  BY <1>3, <1>4, <1>5 DEF Kinds

----------------------------------------------------------------------------
(* Comparing values                                                        *)

\* The values a program can hold.
Value == {v \in [type : Types, val : Int] : v.val \in Domain(v.type)}

\* An empty value is less than any other, and equal to another empty one.
LEMMA EmptyIsLeast ==
  ASSUME NEW a \in Value, NEW b \in Value
  PROVE  /\ a.type = "EMPTY" => Cmp(a, b) = IF b.type = "EMPTY" THEN 0 ELSE -1
         /\ a.type # "EMPTY" /\ b.type = "EMPTY" => Cmp(a, b) = 1
         /\ a.type # "EMPTY" /\ b.type # "EMPTY" =>
              Cmp(a, b) = IF a.val < b.val THEN -1 ELSE IF a.val > b.val THEN 1 ELSE 0
BY DEF Cmp, Value

(***************************************************************************)
(* libdbo_value_cmp orders the values it can compare: the same way round   *)
(* from both sides, and transitively, also across widths and with values   *)
(* that are not set.  Objects can therefore be sorted by it.               *)
(***************************************************************************)
THEOREM CmpOrders ==
  ASSUME NEW a \in Value, NEW b \in Value, NEW c \in Value
  PROVE  /\ Comparable(a, b) <=> Comparable(b, a)
         /\ Cmp(a, b) = -Cmp(b, a)
         /\ Cmp(a, b) <= 0 /\ Cmp(b, c) <= 0 => Cmp(a, c) <= 0
<1>1. Comparable(a, b) <=> Comparable(b, a)
  BY DEF Comparable
<1>2. a.val \in Int /\ b.val \in Int /\ c.val \in Int
  BY DEF Value
<1>3. Cmp(a, b) = -Cmp(b, a)
  BY <1>2, EmptyIsLeast
<1>4. Cmp(a, b) <= 0 /\ Cmp(b, c) <= 0 => Cmp(a, c) <= 0
  BY <1>2, EmptyIsLeast
<1> QED
  BY <1>1, <1>3, <1>4

----------------------------------------------------------------------------
(* Clause lists                                                            *)

\* The clauses that are not empty, and the lists a program can make of them.
Clause ==
  [type : Comparisons \cup NullTests \cup {"NESTED"}, operator : {"AND", "OR"},
   field : {"key", "field", "none"}, value : [type : Types, val : Int], list : Nat]

AreLists(lists) ==
  /\ lists \in Seq(Seq(Clause))
  /\ \A n \in DOMAIN lists : \A i \in DOMAIN lists[n] :
       lists[n][i].type = "NESTED" => lists[n][i].list \in 1 .. n - 1

\* A list of the lists.
LEMMA ListIs ==
  ASSUME NEW lists, AreLists(lists)
  PROVE  /\ Len(lists) \in Nat /\ DOMAIN lists = 1 .. Len(lists)
         /\ \A n \in 1 .. Len(lists) :
              /\ lists[n] \in Seq(Clause)
              /\ Len(lists[n]) \in Nat /\ DOMAIN lists[n] = 1 .. Len(lists[n])
              /\ \A i \in 1 .. Len(lists[n]) :
                   /\ lists[n][i] \in Clause
                   /\ lists[n][i].type = "NESTED" => lists[n][i].list \in 1 .. n - 1
<1>1. lists \in Seq(Seq(Clause))
  BY DEF AreLists
<1>2. Len(lists) \in Nat /\ DOMAIN lists = 1 .. Len(lists)
  BY <1>1
<1>3. ASSUME NEW n \in 1 .. Len(lists)
      PROVE  /\ lists[n] \in Seq(Clause)
             /\ Len(lists[n]) \in Nat /\ DOMAIN lists[n] = 1 .. Len(lists[n])
             /\ \A i \in 1 .. Len(lists[n]) : lists[n][i] \in Clause
  <2>1. lists[n] \in Seq(Clause)
    BY <1>1
  <2> QED
    BY <2>1
<1> QED
  BY <1>2, <1>3 DEF AreLists

\* A clause has one of three kinds of types.
LEMMA TypesApart ==
  ASSUME NEW c \in Clause
  PROVE  /\ c.type \in Comparisons => c.type # "NESTED" /\ c.type \notin NullTests
         /\ c.type \in NullTests => c.type # "NESTED"
         /\ c.type = "NESTED" \/ c.type \in Comparisons \/ c.type \in NullTests
BY DEF Clause, Comparisons, NullTests

----------------------------------------------------------------------------
(* What lists mean                                                         *)

LEMMA JoinedIsTruth ==
  ASSUME NEW operators, NEW truth
  PROVE  Joined(operators, truth) \in BOOLEAN
BY DEF Joined

\* What a list means is joined of what its clauses mean.
LEMMA MeansIs ==
  ASSUME NEW lists, NEW object, AreLists(lists)
  PROVE  MeansIn(lists, object) =
           [n \in DOMAIN lists |->
              Joined(Operators(lists[n]),
                     [i \in DOMAIN lists[n] |->
                        ClauseMeans(lists[n][i], MeansIn(lists, object), object)])]
<1> DEFINE N == Len(lists)
           E(f, n) == Joined(Operators(lists[n]),
                             [i \in DOMAIN lists[n] |-> ClauseMeans(lists[n][i], f, object)])
           S == BOOLEAN
           step == [n \in 1 .. N |-> [r \in [1 .. n - 1 -> S] |-> E(r, n)]]
<1>1. N \in Nat /\ DOMAIN lists = 1 .. N
  BY ListIs
<1> HIDE DEF N
<1>2. Steps(step, 1, N, S)
  BY JoinedIsTruth DEF Steps
<1>3. PICK f \in [1 .. N -> S] : Follows(f, step, 1, N)
  <2> HIDE DEF step, S
  <2>1. 1 \in Nat /\ 1 <= N + 1
    BY <1>1
  <2> QED
    BY <1>1, <1>2, <2>1, Recursion, Zenon
<1>4. ASSUME NEW n \in 1 .. N
      PROVE  f[n] = E(f, n)
  <2> DEFINE r == [m \in 1 .. n - 1 |-> f[m]]
  <2>1. r \in [1 .. n - 1 -> S]
    BY <1>1
  <2>2. f[n] = E(r, n)
    BY <1>3, <2>1 DEF Follows
  <2>3. ASSUME NEW i \in DOMAIN lists[n]
        PROVE  ClauseMeans(lists[n][i], r, object) = ClauseMeans(lists[n][i], f, object)
    <3>1. lists[n][i] \in Clause
          /\ (lists[n][i].type = "NESTED" => lists[n][i].list \in 1 .. n - 1)
      BY ListIs DEF N
    <3>2. CASE lists[n][i].type = "NESTED"
      <4>1. r[lists[n][i].list] = f[lists[n][i].list]
        BY <3>1, <3>2
      <4> HIDE DEF r
      <4> QED
        BY <3>2, <4>1 DEF ClauseMeans
    <3>3. CASE lists[n][i].type # "NESTED"
      <4> HIDE DEF r
      <4> QED
        BY <3>3, Zenon DEF ClauseMeans
    <3> QED
      BY <3>2, <3>3
  <2> HIDE DEF r
  <2>4. [i \in DOMAIN lists[n] |-> ClauseMeans(lists[n][i], r, object)]
          = [i \in DOMAIN lists[n] |-> ClauseMeans(lists[n][i], f, object)]
    BY <2>3
  <2> QED
    BY <2>2, <2>4
<1>5. f = [n \in DOMAIN lists |-> E(f, n)]
  BY <1>1, <1>4
<1>6. \E g : g = [n \in DOMAIN lists |-> E(g, n)]
  BY <1>5
<1> QED
  BY <1>6, Zenon DEF MeansIn

----------------------------------------------------------------------------
(* The places of a statement                                               *)

\* What each clause adds, of whatever type it is.
LEMMA PlacesOfClause ==
  ASSUME NEW c \in Clause, NEW places
  PROVE  /\ c.type = "NESTED" => Places(c, places) = places[c.list]
         /\ c.type \in Comparisons => Places(c, places) = 1
         /\ c.type \in NullTests => Places(c, places) = 0
<1>1. c.type = "NESTED" => Places(c, places) = places[c.list]
  BY TypesApart, Zenon DEF Places
<1>2. c.type \in Comparisons => Places(c, places) = 1
  BY TypesApart, Zenon DEF Places
<1>3. c.type \in NullTests => Places(c, places) = 0
  BY TypesApart, Zenon DEF Places
<1> QED
  BY <1>1, <1>2, <1>3

\* The places are counted through the list.
LEMMA PlacesUpToIs ==
  ASSUME NEW list, Len(list) \in Nat, NEW places,
         \A i \in 1 .. Len(list) : Places(list[i], places) \in Nat
  PROVE  LET upTo == PlacesUpTo(list, places) IN
         /\ upTo \in [0 .. Len(list) -> Nat]
         /\ upTo[0] = 0
         /\ \A i \in 1 .. Len(list) : upTo[i] = upTo[i - 1] + Places(list[i], places)
<1> DEFINE L == Len(list)
           S == Nat
           next == [i \in 1 .. L |-> [s \in S |-> s + Places(list[i], places)]]
           E(f) == [i \in 0 .. L |->
                      IF i = 0 THEN 0 ELSE f[i - 1] + Places(list[i], places)]
<1>1. Walks(next, L, S)
  BY DEF Walks
<1>2. PICK w \in [0 .. L -> S] : w[0] = 0 /\ Walked(w, next, L)
  <2>1. L \in Nat /\ 0 \in S
    OBVIOUS
  <2> HIDE DEF next, L, S
  <2> QED
    BY <1>1, <2>1, WalkExists, Zenon
<1>3. ASSUME NEW i \in 1 .. L
      PROVE  w[i] = w[i - 1] + Places(list[i], places)
  <2>1. i - 1 \in 0 .. L
    OBVIOUS
  <2>2. w[i - 1] \in S
    BY <1>2, <2>1
  <2>3. w[i] = next[i][w[i - 1]]
    BY <1>2 DEF Walked
  <2> QED
    BY <2>2, <2>3
<1>4. w = E(w)
  BY <1>2, <1>3
<1> DEFINE upTo == PlacesUpTo(list, places)
<1>5. upTo = E(upTo)
  BY <1>4, Zenon DEF PlacesUpTo
<1> HIDE DEF upTo
<1>6. \A i \in 0 .. L : w[i] = upTo[i]
  <2> DEFINE H == {i \in 0 .. L : w[i] = upTo[i]}
  <2>1. L \in Nat
    OBVIOUS
  <2>2. 0 \in H
    BY <1>2, <1>5, <2>1
  <2>3. ASSUME NEW i \in 1 .. L, i - 1 \in H
        PROVE  i \in H
    <3>1. i \in 0 .. L /\ i # 0
      BY <2>1
    <3>2. upTo[i] = upTo[i - 1] + Places(list[i], places)
      BY <1>5, <3>1
    <3>3. w[i - 1] = upTo[i - 1]
      BY <2>3
    <3> QED
      BY <1>3, <3>1, <3>2, <3>3
  <2> HIDE DEF H, L
  <2>4. \A i \in 0 .. L : i \in H
    BY <2>1, <2>2, <2>3, Onwards, Zenon
  <2> QED
    BY <2>4 DEF H
<1>7. upTo = w
  BY <1>5, <1>6
<1> QED
  BY <1>2, <1>3, <1>7 DEF upTo

\* Only the lists of its clauses matter for the places of a list.
LEMMA SamePlaces ==
  ASSUME NEW list, Len(list) \in Nat, NEW p, NEW q,
         \A i \in 1 .. Len(list) :
           Places(list[i], p) = Places(list[i], q) /\ Places(list[i], p) \in Nat
  PROVE  \A i \in 0 .. Len(list) : PlacesUpTo(list, p)[i] = PlacesUpTo(list, q)[i]
<1> DEFINE f == PlacesUpTo(list, p)
           g == PlacesUpTo(list, q)
           L == Len(list)
<1>1. /\ f[0] = 0 /\ g[0] = 0
      /\ \A i \in 1 .. L : f[i] = f[i - 1] + Places(list[i], p)
      /\ \A i \in 1 .. L : g[i] = g[i - 1] + Places(list[i], q)
  BY PlacesUpToIs
<1> HIDE DEF f, g
<1>2. \A i \in 0 .. L : f[i] = g[i]
  <2> DEFINE H == {i \in 0 .. L : f[i] = g[i]}
  <2>1. L \in Nat /\ 0 \in H
    BY <1>1
  <2>2. ASSUME NEW i \in 1 .. L, i - 1 \in H
        PROVE  i \in H
    <3>1. i \in 0 .. L /\ f[i - 1] = g[i - 1]
      BY <2>2
    <3> QED
      BY <1>1, <3>1
  <2> HIDE DEF H, L
  <2>3. \A i \in 0 .. L : i \in H
    BY <2>1, <2>2, Onwards, Zenon
  <2> QED
    BY <2>3 DEF H
<1> QED
  BY <1>2 DEF f, g

\* The number of places of each list.
LEMMA PlacesInIs ==
  ASSUME NEW lists, AreLists(lists)
  PROVE  /\ PlacesIn(lists) \in [1 .. Len(lists) -> Nat]
         /\ \A n \in 1 .. Len(lists) :
              /\ PlacesIn(lists)[n] = PlacesUpTo(lists[n], PlacesIn(lists))[Len(lists[n])]
              /\ \A i \in 1 .. Len(lists[n]) :
                   Places(lists[n][i], PlacesIn(lists)) \in Nat
<1> DEFINE N == Len(lists)
           S == Nat
           E(f, n) == PlacesUpTo(lists[n], f)[Len(lists[n])]
           step == [n \in 1 .. N |-> [r \in [1 .. n - 1 -> S] |-> E(r, n)]]
<1>1. N \in Nat /\ DOMAIN lists = 1 .. N
  BY ListIs
<1>2. \A n \in 1 .. N :
        /\ Len(lists[n]) \in Nat
        /\ \A i \in 1 .. Len(lists[n]) :
             /\ lists[n][i] \in Clause
             /\ lists[n][i].type = "NESTED" => lists[n][i].list \in 1 .. n - 1
  BY ListIs
<1> HIDE DEF N
<1>3. ASSUME NEW n \in 1 .. N, NEW r, \A m \in 1 .. n - 1 : r[m] \in Nat,
             NEW i \in 1 .. Len(lists[n])
      PROVE  Places(lists[n][i], r) \in Nat
  BY <1>2, <1>3, TypesApart, PlacesOfClause
<1>4. ASSUME NEW n \in 1 .. N, NEW r, \A m \in 1 .. n - 1 : r[m] \in Nat
      PROVE  E(r, n) \in Nat
  <2>1. \A i \in 1 .. Len(lists[n]) : Places(lists[n][i], r) \in Nat
    BY <1>3, <1>4
  <2>2. Len(lists[n]) \in Nat
    BY <1>2
  <2>3. PlacesUpTo(lists[n], r) \in [0 .. Len(lists[n]) -> Nat]
    BY <2>1, <2>2, PlacesUpToIs
  <2> QED
    BY <2>2, <2>3
<1>5. ASSUME NEW n \in 1 .. N, NEW r, NEW f,
             \A m \in 1 .. n - 1 : r[m] \in Nat /\ r[m] = f[m]
      PROVE  E(r, n) = E(f, n)
  <2>1. \A i \in 1 .. Len(lists[n]) :
          Places(lists[n][i], r) = Places(lists[n][i], f) /\ Places(lists[n][i], r) \in Nat
    <3> SUFFICES ASSUME NEW i \in 1 .. Len(lists[n])
                 PROVE  /\ Places(lists[n][i], r) = Places(lists[n][i], f)
                        /\ Places(lists[n][i], r) \in Nat
      OBVIOUS
    <3> DEFINE c == lists[n][i]
    <3>1. c \in Clause /\ (c.type = "NESTED" => r[c.list] = f[c.list])
      BY <1>2, <1>5
    <3>2. Places(c, r) \in Nat
      BY <1>3, <1>5
    <3> HIDE DEF c
    <3>3. Places(c, r) = Places(c, f)
      BY <3>1, TypesApart, PlacesOfClause
    <3> QED
      BY <3>2, <3>3 DEF c
  <2>2. Len(lists[n]) \in Nat /\ Len(lists[n]) \in 0 .. Len(lists[n])
    BY <1>2
  <2> QED
    BY <2>1, <2>2, SamePlaces
<1> HIDE DEF E
<1>6. Steps(step, 1, N, S)
  BY <1>4 DEF Steps
<1>7. PICK f \in [1 .. N -> S] : Follows(f, step, 1, N)
  <2> HIDE DEF step, S
  <2>1. 1 \in Nat /\ 1 <= N + 1
    BY <1>1
  <2> QED
    BY <1>1, <1>6, <2>1, Recursion, Zenon
<1>8. ASSUME NEW n \in 1 .. N
      PROVE  f[n] = E(f, n)
  <2> DEFINE r == [m \in 1 .. n - 1 |-> f[m]]
  <2>1. r \in [1 .. n - 1 -> S] /\ \A m \in 1 .. n - 1 : r[m] \in Nat /\ r[m] = f[m]
    BY <1>1
  <2>2. f[n] = E(r, n)
    BY <1>7, <2>1 DEF Follows
  <2> HIDE DEF r
  <2> QED
    BY <1>5, <2>1, <2>2
<1>9. f = [n \in DOMAIN lists |-> E(f, n)]
  BY <1>1, <1>8
<1> DEFINE F == PlacesIn(lists)
<1>10. F = [n \in DOMAIN lists |-> E(F, n)]
  BY <1>9, Zenon DEF PlacesIn, E
<1> HIDE DEF F
<1> DEFINE H == {n \in 1 .. N : F[n] \in Nat}
<1>11. ASSUME NEW n \in 1 .. N, \A m \in 1 .. n - 1 : m \in H
       PROVE  n \in H
  BY <1>1, <1>4, <1>10, <1>11
<1>12. \A n \in 1 .. N : n \in H
  <2>1. 1 \in Nat /\ N \in Int
    BY <1>1
  <2> HIDE DEF H
  <2> QED
    BY <1>11, <2>1, Upwards, Zenon
<1>13. \A n \in 1 .. N : F[n] \in Nat
  BY <1>12
<1>14. F \in [1 .. N -> Nat]
  BY <1>1, <1>10, <1>13
<1>15. ASSUME NEW n \in 1 .. N
       PROVE  /\ F[n] = PlacesUpTo(lists[n], F)[Len(lists[n])]
              /\ \A i \in 1 .. Len(lists[n]) : Places(lists[n][i], F) \in Nat
  <2>1. F[n] = E(F, n)
    BY <1>1, <1>10
  <2>2. \A m \in 1 .. n - 1 : F[m] \in Nat
    BY <1>1, <1>13
  <2> QED
    BY <1>3, <2>1, <2>2 DEF E
<1> QED
  BY <1>14, <1>15 DEF F, N

----------------------------------------------------------------------------
(* What a statement selects                                                *)

\* The conditions of a statement.
LEMMA BuildIs ==
  ASSUME NEW lists, AreLists(lists)
  PROVE  LET where == Build(lists) IN
         /\ DOMAIN where = 1 .. Len(lists) /\ Len(where) = Len(lists)
         /\ \A n \in 1 .. Len(lists) :
              /\ DOMAIN where[n] = 1 .. Len(lists[n])
              /\ Operators(where[n]) = Operators(lists[n])
              /\ \A i \in 1 .. Len(lists[n]) :
                   /\ where[n][i].type = lists[n][i].type
                   /\ where[n][i].field = lists[n][i].field
                   /\ where[n][i].list = lists[n][i].list
                   /\ where[n][i].before
                        = PlacesUpTo(lists[n], PlacesIn(lists))[i - 1]
                   /\ where[n][i].before \in Nat
<1> DEFINE where == Build(lists)
           B(n, i) == PlacesUpTo(lists[n], PlacesIn(lists))[i - 1]
<1>1. DOMAIN lists = 1 .. Len(lists) /\ Len(lists) \in Nat
  BY ListIs
<1>2. \A n \in 1 .. Len(lists) :
        DOMAIN lists[n] = 1 .. Len(lists[n]) /\ Len(lists[n]) \in Nat
  BY ListIs
<1>3. \A n \in 1 .. Len(lists) : \A i \in 1 .. Len(lists[n]) : B(n, i) \in Nat
  <2> TAKE n \in 1 .. Len(lists)
  <2>1. PlacesUpTo(lists[n], PlacesIn(lists)) \in [0 .. Len(lists[n]) -> Nat]
    BY <1>2, PlacesInIs, PlacesUpToIs
  <2>2. ASSUME NEW i \in 1 .. Len(lists[n]) PROVE i - 1 \in 0 .. Len(lists[n])
    BY <1>2
  <2> QED
    BY <2>1, <2>2
<1> HIDE DEF B
<1>4. where = [n \in 1 .. Len(lists) |-> [i \in 1 .. Len(lists[n]) |->
                 [type |-> lists[n][i].type, operator |-> lists[n][i].operator,
                  field |-> lists[n][i].field, list |-> lists[n][i].list,
                  before |-> B(n, i)]]]
  BY <1>1, <1>2 DEF Build, B
<1> HIDE DEF where
<1>5. DOMAIN where = 1 .. Len(lists) /\ Len(where) = Len(lists)
  BY <1>1, <1>4
<1>6. ASSUME NEW n \in 1 .. Len(lists)
      PROVE  /\ DOMAIN where[n] = 1 .. Len(lists[n])
             /\ Operators(where[n]) = Operators(lists[n])
             /\ \A i \in 1 .. Len(lists[n]) :
                  /\ where[n][i].type = lists[n][i].type
                  /\ where[n][i].field = lists[n][i].field
                  /\ where[n][i].list = lists[n][i].list
                  /\ where[n][i].before = B(n, i)
                  /\ where[n][i].before \in Nat
  <2>1. where[n] = [i \in 1 .. Len(lists[n]) |->
                      [type |-> lists[n][i].type, operator |-> lists[n][i].operator,
                       field |-> lists[n][i].field, list |-> lists[n][i].list,
                       before |-> B(n, i)]]
    BY <1>4
  <2>2. Operators(where[n]) = Operators(lists[n])
    BY <1>2, <2>1 DEF Operators
  <2>3. \A i \in 1 .. Len(lists[n]) : B(n, i) \in Nat
    BY <1>3
  <2>4. DOMAIN where[n] = 1 .. Len(lists[n])
    BY <2>1
  <2>5. ASSUME NEW i \in 1 .. Len(lists[n])
        PROVE  /\ where[n][i].type = lists[n][i].type
               /\ where[n][i].field = lists[n][i].field
               /\ where[n][i].list = lists[n][i].list
               /\ where[n][i].before = B(n, i)
    BY <2>1
  <2> QED
    BY <2>2, <2>3, <2>4, <2>5
<1> QED
  BY <1>5, <1>6 DEF where, B

\* What a list selects is joined of what its conditions say.
LEMMA SelectsIs ==
  ASSUME NEW lists, AreLists(lists), NEW bound, NEW row
  PROVE  LET where == Build(lists)
             selects == SelectsIn(where, bound, row)
         IN  selects = [n \in DOMAIN where |-> [before \in Nat |->
                          Joined(Operators(where[n]),
                            [i \in DOMAIN where[n] |->
                               Holds(where[n][i], selects, before, bound, row)])]]
<1> DEFINE N == Len(lists)
           S == [Nat -> BOOLEAN]
           where == Build(lists)
           E(f, n) == [before \in Nat |->
                         Joined(Operators(where[n]),
                           [i \in DOMAIN where[n] |->
                              Holds(where[n][i], f, before, bound, row)])]
           step == [n \in 1 .. N |-> [r \in [1 .. n - 1 -> S] |-> E(r, n)]]
<1>1. N \in Nat /\ DOMAIN where = 1 .. N
  BY ListIs, BuildIs
<1>2. \A n \in 1 .. N : \A i \in DOMAIN where[n] :
        where[n][i].type = "NESTED" => where[n][i].list \in 1 .. n - 1
  <2> TAKE n \in 1 .. N
  <2>1. \A i \in 1 .. Len(lists[n]) :
          lists[n][i].type = "NESTED" => lists[n][i].list \in 1 .. n - 1
    BY ListIs
  <2>2. /\ DOMAIN where[n] = 1 .. Len(lists[n])
        /\ \A i \in 1 .. Len(lists[n]) :
             where[n][i].type = lists[n][i].type /\ where[n][i].list = lists[n][i].list
    BY BuildIs
  <2> HIDE DEF where
  <2> QED
    BY <2>1, <2>2
<1> HIDE DEF N, where
<1>3. Steps(step, 1, N, S)
  BY JoinedIsTruth DEF Steps
<1>4. PICK f \in [1 .. N -> S] : Follows(f, step, 1, N)
  <2> HIDE DEF step, S
  <2>1. 1 \in Nat /\ 1 <= N + 1
    BY <1>1
  <2> QED
    BY <1>1, <1>3, <2>1, Recursion, Zenon
<1>5. ASSUME NEW n \in 1 .. N
      PROVE  f[n] = E(f, n)
  <2> DEFINE r == [m \in 1 .. n - 1 |-> f[m]]
  <2>1. r \in [1 .. n - 1 -> S] /\ \A m \in 1 .. n - 1 : r[m] = f[m]
    BY <1>1
  <2>2. f[n] = E(r, n)
    BY <1>4, <2>1 DEF Follows
  <2> HIDE DEF r, S
  <2>3. ASSUME NEW before \in Nat, NEW i \in DOMAIN where[n]
        PROVE  Holds(where[n][i], r, before, bound, row)
                 = Holds(where[n][i], f, before, bound, row)
    <3>1. CASE where[n][i].type = "NESTED"
      <4>1. r[where[n][i].list] = f[where[n][i].list]
        BY <1>2, <2>1, <3>1
      <4> QED
        BY <3>1, <4>1 DEF Holds
    <3>2. CASE where[n][i].type # "NESTED"
      BY <3>2, Zenon DEF Holds
    <3> QED
      BY <3>1, <3>2
  <2>4. ASSUME NEW before \in Nat
        PROVE  [i \in DOMAIN where[n] |-> Holds(where[n][i], r, before, bound, row)]
                 = [i \in DOMAIN where[n] |-> Holds(where[n][i], f, before, bound, row)]
    BY <2>3
  <2>5. E(r, n) = E(f, n)
    BY <2>4
  <2> QED
    BY <2>2, <2>5
<1>6. f = [n \in DOMAIN where |-> E(f, n)]
  BY <1>1, <1>5
<1>7. \E g : g = [n \in DOMAIN where |-> E(g, n)]
  BY <1>6
<1>8. SelectsIn(where, bound, row) = [n \in DOMAIN where |-> E(SelectsIn(where, bound, row), n)]
  BY <1>7, Zenon DEF SelectsIn
<1> QED
  BY <1>8 DEF where

\* A list is filled when each of its clauses is.
LEMMA FilledIs ==
  ASSUME NEW backend, NEW lists, AreLists(lists), NEW where, NEW bound
  PROVE  \A n \in DOMAIN lists : \A before \in Nat :
           FilledIn(backend, lists, where, bound)[n][before] <=>
             \A i \in DOMAIN lists[n] :
               InPlace(backend, lists[n][i], where[n][i],
                       FilledIn(backend, lists, where, bound), before, bound)
<1> DEFINE N == Len(lists)
           S == [Nat -> BOOLEAN]
           E(f, n) == [before \in Nat |->
                         \A i \in DOMAIN lists[n] :
                           InPlace(backend, lists[n][i], where[n][i], f, before, bound)]
           step == [n \in 1 .. N |-> [r \in [1 .. n - 1 -> S] |-> E(r, n)]]
<1>1. N \in Nat /\ DOMAIN lists = 1 .. N
  BY ListIs
<1>2. \A n \in 1 .. N : \A i \in DOMAIN lists[n] :
        lists[n][i].type = "NESTED" => lists[n][i].list \in 1 .. n - 1
  BY ListIs
<1> HIDE DEF N
<1>3. Steps(step, 1, N, S)
  BY DEF Steps
<1>4. PICK f \in [1 .. N -> S] : Follows(f, step, 1, N)
  <2> HIDE DEF step, S
  <2>1. 1 \in Nat /\ 1 <= N + 1
    BY <1>1
  <2> QED
    BY <1>1, <1>3, <2>1, Recursion, Zenon
<1>5. ASSUME NEW n \in 1 .. N
      PROVE  f[n] = E(f, n)
  <2> DEFINE r == [m \in 1 .. n - 1 |-> f[m]]
  <2>1. r \in [1 .. n - 1 -> S] /\ \A m \in 1 .. n - 1 : r[m] = f[m]
    BY <1>1
  <2>2. f[n] = E(r, n)
    BY <1>4, <2>1 DEF Follows
  <2> HIDE DEF r, S
  <2>3. ASSUME NEW before \in Nat, NEW i \in DOMAIN lists[n]
        PROVE  InPlace(backend, lists[n][i], where[n][i], r, before, bound)
                 = InPlace(backend, lists[n][i], where[n][i], f, before, bound)
    <3>1. CASE lists[n][i].type = "NESTED"
      <4>1. r[lists[n][i].list] = f[lists[n][i].list]
        BY <1>2, <2>1, <3>1
      <4> QED
        BY <3>1, <4>1, Zenon DEF InPlace, Comparisons
    <3>2. CASE lists[n][i].type # "NESTED"
      BY <3>2, Zenon DEF InPlace
    <3> QED
      BY <3>1, <3>2
  <2>4. E(r, n) = E(f, n)
    BY <2>3
  <2> QED
    BY <2>2, <2>4
<1>6. f = [n \in DOMAIN lists |-> E(f, n)]
  BY <1>1, <1>5
<1>7. \E g : g = [n \in DOMAIN lists |-> E(g, n)]
  BY <1>6
<1> DEFINE filled == FilledIn(backend, lists, where, bound)
<1>8. filled = [n \in DOMAIN lists |-> E(filled, n)]
  BY <1>7, Zenon DEF FilledIn
<1> HIDE DEF filled
<1>9. ASSUME NEW n \in DOMAIN lists, NEW before \in Nat
      PROVE  filled[n][before] <=>
               \A i \in DOMAIN lists[n] :
                 InPlace(backend, lists[n][i], where[n][i], filled, before, bound)
  <2>1. filled[n] = E(filled, n)
    <3> HIDE DEF E
    <3> QED
      BY <1>8
  <2> DEFINE all(b) == \A i \in DOMAIN lists[n] :
                         InPlace(backend, lists[n][i], where[n][i], filled, b, bound)
  <2>2. filled[n] = [b \in Nat |-> all(b)]
    BY <2>1, Zenon
  <2> HIDE DEF all
  <2>3. filled[n][before] = all(before)
    BY <2>2
  <2> QED
    BY <2>3 DEF all
<1> QED
  BY <1>9, Zenon DEF filled

LEMMA SaysIsTruth ==
  ASSUME NEW type \in Comparisons, NEW order
  PROVE  Says(type, order) \in BOOLEAN
<1>1. CASE type = "EQUAL"
  BY <1>1, Zenon DEF Says
<1>2. CASE type = "NOT_EQUAL"
  BY <1>2, Zenon DEF Says
<1>3. CASE type = "LESS_THEN"
  <2>1. Says(type, order) = (order < 0)
    BY <1>3, Zenon DEF Says
  <2>2. (order < 0) \in BOOLEAN
    OBVIOUS
  <2> QED
    BY <2>1, <2>2, Zenon
<1>4. CASE type = "LESS_OR_EQUAL"
  <2>1. Says(type, order) = (order <= 0)
    BY <1>4, Zenon DEF Says
  <2>2. (order <= 0) \in BOOLEAN
    OBVIOUS
  <2> QED
    BY <2>1, <2>2, Zenon
<1>5. CASE type = "GREATER_OR_EQUAL"
  <2>1. Says(type, order) = (order >= 0)
    BY <1>5, Zenon DEF Says
  <2>2. (order >= 0) \in BOOLEAN
    OBVIOUS
  <2> QED
    BY <2>1, <2>2, Zenon
<1>6. CASE type = "GREATER_THEN"
  <2>1. Says(type, order) = (order > 0)
    BY <1>6, Zenon DEF Says
  <2>2. (order > 0) \in BOOLEAN
    OBVIOUS
  <2> QED
    BY <2>1, <2>2, Zenon
<1> QED
  BY <1>1, <1>2, <1>3, <1>4, <1>5, <1>6 DEF Comparisons

\* A row shows an object when comparing what is stored, in the row and for the
\* clauses, has the outcome of comparing the object's values with theirs.
Shows(backend, row, object, lists) ==
  \A n \in DOMAIN lists : \A i \in DOMAIN lists[n] :
    LET c == lists[n][i] IN
    c.type \in Comparisons =>
      /\ Comparable(object[c.field], c.value)
      /\ Says(c.type, row[c.field] - Stored(backend, c.value))
           = Says(c.type, Cmp(object[c.field], c.value))

\* A condition says of a row what its clause means for the object.
LEMMA HoldsMeans ==
  ASSUME NEW c \in Clause, NEW condition, NEW before \in Nat, NEW backend,
         NEW bound, NEW row, NEW object, NEW filled, NEW selects, NEW means,
         condition.type = c.type, condition.field = c.field, condition.list = c.list,
         condition.before \in Nat,
         InPlace(backend, c, condition, filled, before, bound),
         c.type = "NESTED" =>
           \A b \in Nat : filled[c.list][b] => selects[c.list][b] = means[c.list],
         c.type \in Comparisons =>
           /\ Comparable(object[c.field], c.value)
           /\ Says(c.type, row[c.field] - Stored(backend, c.value))
                = Says(c.type, Cmp(object[c.field], c.value))
  PROVE  Holds(condition, selects, before, bound, row) = ClauseMeans(c, means, object)
<1>1. CASE c.type = "NESTED"
  <2>1. Holds(condition, selects, before, bound, row)
          = selects[c.list][before + condition.before]
    BY <1>1, Zenon DEF Holds
  <2>2. ClauseMeans(c, means, object) = means[c.list]
    BY <1>1, Zenon DEF ClauseMeans
  <2>3. filled[c.list][before + condition.before]
    BY <1>1, Zenon DEF InPlace, Comparisons
  <2>4. before + condition.before \in Nat
    OBVIOUS
  <2> QED
    BY <1>1, <2>1, <2>2, <2>3, <2>4
<1>2. CASE c.type \in Comparisons
  <2>1. c.type # "NESTED" /\ c.type # "IS_NULL" /\ c.type # "IS_NOT_NULL"
    BY <1>2, TypesApart DEF NullTests
  <2> DEFINE place == before + condition.before + 1
  <2>2. Holds(condition, selects, before, bound, row)
          = Says(c.type, row[c.field] - bound[place])
    BY <2>1, Zenon DEF Holds
  <2>3. bound[place] = Stored(backend, c.value)
    BY <1>2, <2>1, Zenon DEF InPlace
  <2>4. ClauseMeans(c, means, object)
          = (Comparable(object[c.field], c.value)
               /\ Says(c.type, Cmp(object[c.field], c.value)))
    BY <2>1, Zenon DEF ClauseMeans
  <2>5. Says(c.type, Cmp(object[c.field], c.value)) \in BOOLEAN
    BY <1>2, SaysIsTruth
  <2> HIDE DEF place
  <2> QED
    BY <1>2, <2>2, <2>3, <2>4, <2>5
<1>3. CASE c.type \in NullTests
  <2>1. Holds(condition, selects, before, bound, row) = (c.type = "IS_NOT_NULL")
    BY <1>3, Zenon DEF Holds, NullTests
  <2>2. ClauseMeans(c, means, object) = (c.type = "IS_NOT_NULL")
    BY <1>3, Zenon DEF ClauseMeans, NullTests
  <2> QED
    BY <2>1, <2>2
<1> QED
  BY <1>1, <1>2, <1>3, TypesApart

(***************************************************************************)
(* The statement that build_clause makes of a clause list selects just the *)
(* rows of the objects the list means, when the values are in the places   *)
(* of their clauses: for any list and lists nested to any depth.           *)
(***************************************************************************)
THEOREM StatementSelectsMeant ==
  ASSUME NEW lists, AreLists(lists), lists # << >>,
         NEW backend, NEW bound, NEW row, NEW object,
         FilledIn(backend, lists, Build(lists), bound)[Len(lists)][0],
         Shows(backend, row, object, lists)
  PROVE  Selects(Build(lists), bound, row) = Means(lists, object)
<1> DEFINE N == Len(lists)
           where == Build(lists)
           filled == FilledIn(backend, lists, where, bound)
           selects == SelectsIn(where, bound, row)
           means == MeansIn(lists, object)
           H == {n \in 1 .. N :
                   \A before \in Nat : filled[n][before] => selects[n][before] = means[n]}
<1>1. N \in Nat /\ DOMAIN lists = 1 .. N /\ DOMAIN where = 1 .. N /\ Len(where) = N
  BY ListIs, BuildIs
<1>2. N > 0
  <2>1. lists \in Seq(Seq(Clause))
    BY DEF AreLists
  <2> QED
    BY <2>1, EmptySeq
<1>3. ASSUME NEW n \in 1 .. N
      PROVE  /\ Len(lists[n]) \in Nat /\ DOMAIN lists[n] = 1 .. Len(lists[n])
             /\ DOMAIN where[n] = 1 .. Len(lists[n])
             /\ Operators(where[n]) = Operators(lists[n])
  BY ListIs, BuildIs
<1>4. ASSUME NEW n \in 1 .. N, NEW i \in 1 .. Len(lists[n])
      PROVE  /\ lists[n][i] \in Clause
             /\ lists[n][i].type = "NESTED" => lists[n][i].list \in 1 .. n - 1
             /\ where[n][i].type = lists[n][i].type
             /\ where[n][i].field = lists[n][i].field
             /\ where[n][i].list = lists[n][i].list
             /\ where[n][i].before \in Nat
  BY ListIs, BuildIs
<1>5. ASSUME NEW n \in 1 .. N
      PROVE  means[n] = Joined(Operators(lists[n]),
                               [i \in 1 .. Len(lists[n]) |->
                                  ClauseMeans(lists[n][i], means, object)])
  BY <1>1, <1>3, MeansIs
<1>6. ASSUME NEW n \in 1 .. N, NEW before \in Nat
      PROVE  selects[n][before] = Joined(Operators(where[n]),
                               [i \in 1 .. Len(lists[n]) |->
                                  Holds(where[n][i], selects, before, bound, row)])
  BY <1>1, <1>3, SelectsIs
<1>7. ASSUME NEW n \in 1 .. N, NEW before \in Nat, filled[n][before],
             NEW i \in 1 .. Len(lists[n])
      PROVE  InPlace(backend, lists[n][i], where[n][i], filled, before, bound)
  <2>1. filled[n][before] <=> \A k \in DOMAIN lists[n] :
          InPlace(backend, lists[n][k], where[n][k], filled, before, bound)
    <3>1. n \in DOMAIN lists
      BY <1>1
    <3> QED
      BY <3>1, FilledIs, Zenon
  <2> HIDE DEF filled, where
  <2> QED
    BY <1>3, <1>7, <2>1
<1> HIDE DEF N, where, filled, selects, means
<1>8. ASSUME NEW n \in 1 .. N, \A m \in 1 .. n - 1 : m \in H
      PROVE  n \in H
  <2> SUFFICES ASSUME NEW before \in Nat, filled[n][before]
               PROVE  selects[n][before] = means[n]
    OBVIOUS
  <2>1. ASSUME NEW i \in 1 .. Len(lists[n])
        PROVE  Holds(where[n][i], selects, before, bound, row)
                 = ClauseMeans(lists[n][i], means, object)
    <3> DEFINE c == lists[n][i]
               condition == where[n][i]
    <3>1. /\ c \in Clause /\ condition.before \in Nat
          /\ condition.type = c.type /\ condition.field = c.field
          /\ condition.list = c.list
      BY <1>4
    <3>2. InPlace(backend, c, condition, filled, before, bound)
      BY <1>7
    <3>3. c.type = "NESTED" =>
            \A b \in Nat : filled[c.list][b] => selects[c.list][b] = means[c.list]
      BY <1>4, <1>8
    <3>4. c.type \in Comparisons =>
            /\ Comparable(object[c.field], c.value)
            /\ Says(c.type, row[c.field] - Stored(backend, c.value))
                 = Says(c.type, Cmp(object[c.field], c.value))
      BY <1>1, <1>3 DEF Shows
    <3> HIDE DEF c, condition
    <3>5. Holds(condition, selects, before, bound, row) = ClauseMeans(c, means, object)
      BY <3>1, <3>2, <3>3, <3>4, HoldsMeans
    <3> QED
      BY <3>5 DEF c, condition
  <2>2. [i \in 1 .. Len(lists[n]) |-> Holds(where[n][i], selects, before, bound, row)]
          = [i \in 1 .. Len(lists[n]) |-> ClauseMeans(lists[n][i], means, object)]
    BY <2>1
  <2> QED
    BY <1>3, <1>5, <1>6, <2>2
<1>9. \A n \in 1 .. N : n \in H
  <2>1. 1 \in Nat /\ N \in Int
    BY <1>1
  <2> HIDE DEF H
  <2> QED
    BY <1>8, <2>1, Upwards, Zenon
<1>10. N \in 1 .. N /\ 0 \in Nat
  BY <1>1, <1>2
<1>11. filled[N][0]
  BY DEF filled, N, where
<1>12. selects[N][0] = means[N]
  BY <1>9, <1>10, <1>11
<1> QED
  BY <1>1, <1>12 DEF Selects, Means, selects, means, where, N

----------------------------------------------------------------------------
(* What SQLite is given for the places                                     *)

LEMMA SqliteBindIsInt ==
  ASSUME NEW c \in Clause
  PROVE  SqliteBind(c.value) \in Int
<1>1. c.value.val \in Int
  BY DEF Clause
<1>2. Half32 \in Int /\ Half64 \in Int
  BY HalvesType
<1> QED
  BY <1>1, <1>2 DEF SqliteBind, AsSigned

\* What is bound for each clause, of whatever type it is.
LEMMA SqliteTakesIs ==
  ASSUME NEW c \in Clause, NEW bound, NEW binds
  PROVE  /\ c.type = "NESTED" => SqliteTakes(c, bound, binds) = binds[c.list][bound]
         /\ c.type \in Comparisons =>
              SqliteTakes(c, bound, binds) = Append(bound, SqliteBind(c.value))
         /\ c.type \in NullTests => SqliteTakes(c, bound, binds) = bound
<1>1. c.type = "NESTED" => SqliteTakes(c, bound, binds) = binds[c.list][bound]
  BY TypesApart, Zenon DEF SqliteTakes
<1>2. c.type \in Comparisons =>
        SqliteTakes(c, bound, binds) = Append(bound, SqliteBind(c.value))
  BY TypesApart, Zenon DEF SqliteTakes
<1>3. c.type \in NullTests => SqliteTakes(c, bound, binds) = bound
  BY TypesApart, Zenon DEF SqliteTakes
<1> QED
  BY <1>1, <1>2, <1>3

\* The lists within a list are bound by functions from values to values.
BindsInts(list, binds) ==
  \A i \in 1 .. Len(list) : list[i].type = "NESTED" =>
    \A b \in Seq(Int) : binds[list[i].list][b] \in Seq(Int)

LEMMA SqliteTakesInts ==
  ASSUME NEW list \in Seq(Clause), NEW binds, BindsInts(list, binds),
         NEW i \in 1 .. Len(list), NEW b \in Seq(Int)
  PROVE  SqliteTakes(list[i], b, binds) \in Seq(Int)
<1> DEFINE c == list[i]
<1>1. c \in Clause
  OBVIOUS
<1>2. c.type = "NESTED" => binds[c.list][b] \in Seq(Int)
  BY DEF BindsInts
<1> HIDE DEF c
<1>3. Append(b, SqliteBind(c.value)) \in Seq(Int)
  BY <1>1, SqliteBindIsInt
<1>4. SqliteTakes(c, b, binds) \in Seq(Int)
  BY <1>1, <1>2, <1>3, SqliteTakesIs, TypesApart
<1> QED
  BY <1>4 DEF c

\* The values are bound through the list.
LEMMA SqliteWalkIs ==
  ASSUME NEW list \in Seq(Clause), NEW bound \in Seq(Int), NEW binds,
         BindsInts(list, binds)
  PROVE  LET walk == SqliteWalk(list, bound, binds) IN
         /\ walk \in [0 .. Len(list) -> Seq(Int)]
         /\ walk[0] = bound
         /\ \A i \in 1 .. Len(list) : walk[i] = SqliteTakes(list[i], walk[i - 1], binds)
<1> DEFINE L == Len(list)
           S == Seq(Int)
           next == [i \in 1 .. L |-> [s \in S |-> SqliteTakes(list[i], s, binds)]]
           E(f) == [i \in 0 .. L |->
                      IF i = 0 THEN bound ELSE SqliteTakes(list[i], f[i - 1], binds)]
<1>1. Walks(next, L, S)
  <2> HIDE DEF S
  <2>1. \A i \in 1 .. L : \A s \in S : SqliteTakes(list[i], s, binds) \in S
    BY SqliteTakesInts DEF S
  <2> QED
    BY <2>1 DEF Walks
<1>2. PICK w \in [0 .. L -> S] : w[0] = bound /\ Walked(w, next, L)
  <2>1. L \in Nat /\ bound \in S
    OBVIOUS
  <2> HIDE DEF next, L, S
  <2> QED
    BY <1>1, <2>1, WalkExists, Zenon
<1> HIDE DEF S
<1>3. ASSUME NEW i \in 1 .. L
      PROVE  w[i] = SqliteTakes(list[i], w[i - 1], binds)
  <2>1. i - 1 \in 0 .. L
    OBVIOUS
  <2>2. w[i - 1] \in S
    BY <1>2, <2>1
  <2>3. w[i] = next[i][w[i - 1]]
    BY <1>2 DEF Walked
  <2> QED
    BY <2>2, <2>3
<1>4. w = E(w)
  BY <1>2, <1>3
<1> DEFINE walk == SqliteWalk(list, bound, binds)
<1>5. walk = E(walk)
  BY <1>4, Zenon DEF SqliteWalk
<1> HIDE DEF walk
<1>6. \A i \in 0 .. L : w[i] = walk[i]
  <2> DEFINE H == {i \in 0 .. L : w[i] = walk[i]}
  <2>1. L \in Nat
    OBVIOUS
  <2>2. 0 \in H
    BY <1>2, <1>5, <2>1
  <2>3. ASSUME NEW i \in 1 .. L, i - 1 \in H
        PROVE  i \in H
    <3>1. i \in 0 .. L /\ i # 0
      BY <2>1
    <3>2. walk[i] = SqliteTakes(list[i], walk[i - 1], binds)
      BY <1>5, <3>1
    <3>3. w[i - 1] = walk[i - 1]
      BY <2>3
    <3> QED
      BY <1>3, <3>1, <3>2, <3>3
  <2> HIDE DEF H, L
  <2>4. \A i \in 0 .. L : i \in H
    BY <2>1, <2>2, <2>3, Onwards, Zenon
  <2> QED
    BY <2>4 DEF H
<1>7. walk = w
  BY <1>5, <1>6
<1> QED
  BY <1>2, <1>3, <1>7 DEF walk, S

\* Only the lists of its clauses matter for what is bound for a list.
LEMMA SameSqliteWalk ==
  ASSUME NEW list \in Seq(Clause), NEW bound \in Seq(Int), NEW p, NEW q,
         BindsInts(list, p),
         \A i \in 1 .. Len(list) :
           list[i].type = "NESTED" => p[list[i].list] = q[list[i].list]
  PROVE  SqliteWalk(list, bound, p)[Len(list)] = SqliteWalk(list, bound, q)[Len(list)]
<1> DEFINE L == Len(list)
<1>1. BindsInts(list, q)
  BY DEF BindsInts
<1>2. PICK f : /\ f = SqliteWalk(list, bound, p) /\ f[0] = bound
               /\ \A i \in 1 .. L : f[i] = SqliteTakes(list[i], f[i - 1], p)
  BY SqliteWalkIs
<1>3. PICK g : /\ g = SqliteWalk(list, bound, q) /\ g[0] = bound
               /\ \A i \in 1 .. L : g[i] = SqliteTakes(list[i], g[i - 1], q)
  BY <1>1, SqliteWalkIs
<1>4. ASSUME NEW i \in 1 .. L, NEW b
      PROVE  SqliteTakes(list[i], b, p) = SqliteTakes(list[i], b, q)
  <2> DEFINE c == list[i]
  <2>1. c \in Clause /\ (c.type = "NESTED" => p[c.list] = q[c.list])
    OBVIOUS
  <2> HIDE DEF c
  <2>2. CASE c.type = "NESTED"
    BY <2>1, <2>2, SqliteTakesIs DEF c
  <2>3. CASE c.type \in Comparisons
    <3>1. SqliteTakes(c, b, p) = Append(b, SqliteBind(c.value))
      BY <2>1, <2>3, SqliteTakesIs, Zenon
    <3>2. SqliteTakes(c, b, q) = Append(b, SqliteBind(c.value))
      BY <2>1, <2>3, SqliteTakesIs, Zenon
    <3> QED
      BY <3>1, <3>2, Zenon DEF c
  <2>4. CASE c.type \in NullTests
    BY <2>1, <2>4, SqliteTakesIs DEF c
  <2> QED
    BY <2>1, <2>2, <2>3, <2>4, TypesApart
<1>5. \A i \in 1 .. L : f[i - 1] = g[i - 1] => f[i] = g[i]
  BY <1>2, <1>3, <1>4
<1>6. Len(list) \in Nat
  OBVIOUS
<1>7. \A i \in 0 .. L : f[i] = g[i]
  <2> DEFINE H == {i \in 0 .. L : f[i] = g[i]}
  <2>1. 0 \in H
    BY <1>2, <1>3, <1>6
  <2>2. \A i \in 1 .. L : i - 1 \in H => i \in H
    BY <1>5, <1>6
  <2>3. L \in Nat
    BY <1>6
  <2> HIDE DEF H, L
  <2>4. \A i \in 0 .. L : i \in H
    BY <2>1, <2>2, <2>3, Onwards, Zenon
  <2> QED
    BY <2>4 DEF H
<1> QED
  BY <1>2, <1>3, <1>6, <1>7

\* What is bound for each list.
LEMMA SqliteBindsIs ==
  ASSUME NEW lists, AreLists(lists)
  PROVE  /\ SqliteBinds(lists) \in [1 .. Len(lists) -> [Seq(Int) -> Seq(Int)]]
         /\ \A n \in 1 .. Len(lists) :
              /\ BindsInts(lists[n], SqliteBinds(lists))
              /\ \A bound \in Seq(Int) :
                   SqliteBinds(lists)[n][bound]
                     = SqliteWalk(lists[n], bound, SqliteBinds(lists))[Len(lists[n])]
<1> DEFINE N == Len(lists)
           S == [Seq(Int) -> Seq(Int)]
           E(f, n) == [bound \in Seq(Int) |->
                         SqliteWalk(lists[n], bound, f)[Len(lists[n])]]
           step == [n \in 1 .. N |-> [r \in [1 .. n - 1 -> S] |-> E(r, n)]]
<1>1. N \in Nat /\ DOMAIN lists = 1 .. N
  BY ListIs
<1>2. \A n \in 1 .. N :
        /\ lists[n] \in Seq(Clause) /\ Len(lists[n]) \in Nat
        /\ \A i \in 1 .. Len(lists[n]) :
             lists[n][i].type = "NESTED" => lists[n][i].list \in 1 .. n - 1
  BY ListIs
<1> HIDE DEF N
<1>3. ASSUME NEW n \in 1 .. N, NEW r, \A m \in 1 .. n - 1 : r[m] \in S
      PROVE  BindsInts(lists[n], r)
  BY <1>2, <1>3 DEF BindsInts
<1>4. ASSUME NEW n \in 1 .. N, NEW r, \A m \in 1 .. n - 1 : r[m] \in S
      PROVE  E(r, n) \in S
  <2>1. BindsInts(lists[n], r)
    BY <1>3, <1>4
  <2>2. ASSUME NEW bound \in Seq(Int)
        PROVE  SqliteWalk(lists[n], bound, r)[Len(lists[n])] \in Seq(Int)
    <3>1. SqliteWalk(lists[n], bound, r) \in [0 .. Len(lists[n]) -> Seq(Int)]
      BY <1>2, <2>1, SqliteWalkIs
    <3>2. Len(lists[n]) \in 0 .. Len(lists[n])
      BY <1>2
    <3> QED
      BY <3>1, <3>2, Zenon
  <2> QED
    BY <2>2
<1>5. ASSUME NEW n \in 1 .. N, NEW r, NEW f,
             \A m \in 1 .. n - 1 : r[m] \in S /\ r[m] = f[m]
      PROVE  E(r, n) = E(f, n)
  <2>1. BindsInts(lists[n], r)
    BY <1>3, <1>5
  <2>2. \A i \in 1 .. Len(lists[n]) :
          lists[n][i].type = "NESTED" => r[lists[n][i].list] = f[lists[n][i].list]
    BY <1>2, <1>5
  <2>3. \A bound \in Seq(Int) :
          SqliteWalk(lists[n], bound, r)[Len(lists[n])]
            = SqliteWalk(lists[n], bound, f)[Len(lists[n])]
    <3> TAKE bound \in Seq(Int)
    <3> DEFINE list == lists[n]
    <3>1. /\ list \in Seq(Clause) /\ BindsInts(list, r)
          /\ \A i \in 1 .. Len(list) :
               list[i].type = "NESTED" => r[list[i].list] = f[list[i].list]
      BY <1>2, <2>1, <2>2
    <3> HIDE DEF list
    <3>2. SqliteWalk(list, bound, r)[Len(list)] = SqliteWalk(list, bound, f)[Len(list)]
      BY <3>1, SameSqliteWalk
    <3> QED
      BY <3>2 DEF list
  <2> QED
    BY <2>3
<1> HIDE DEF E
<1>6. Steps(step, 1, N, S)
  BY <1>4 DEF Steps
<1>7. PICK f \in [1 .. N -> S] : Follows(f, step, 1, N)
  <2> HIDE DEF step, S
  <2>1. 1 \in Nat /\ 1 <= N + 1
    BY <1>1
  <2> QED
    BY <1>1, <1>6, <2>1, Recursion, Zenon
<1>8. ASSUME NEW n \in 1 .. N
      PROVE  f[n] = E(f, n)
  <2> HIDE DEF S
  <2> DEFINE r == [m \in 1 .. n - 1 |-> f[m]]
  <2>1. r \in [1 .. n - 1 -> S] /\ \A m \in 1 .. n - 1 : r[m] \in S /\ r[m] = f[m]
    BY <1>1
  <2>2. f[n] = E(r, n)
    BY <1>7, <2>1 DEF Follows
  <2> HIDE DEF r
  <2> QED
    BY <1>5, <2>1, <2>2
<1>9. f = [n \in DOMAIN lists |-> E(f, n)]
  BY <1>1, <1>8
<1> DEFINE F == SqliteBinds(lists)
<1>10. F = [n \in DOMAIN lists |-> E(F, n)]
  BY <1>9, Zenon DEF SqliteBinds, E
<1> HIDE DEF F
<1> DEFINE H == {n \in 1 .. N : F[n] \in S}
<1>11. ASSUME NEW n \in 1 .. N, \A m \in 1 .. n - 1 : m \in H
       PROVE  n \in H
  <2> HIDE DEF S
  <2> QED
    BY <1>1, <1>4, <1>10, <1>11
<1>12. \A n \in 1 .. N : n \in H
  <2>1. 1 \in Nat /\ N \in Int
    BY <1>1
  <2> HIDE DEF H
  <2> QED
    BY <1>11, <2>1, Upwards, Zenon
<1>13. \A n \in 1 .. N : F[n] \in S
  BY <1>12
<1>14. F \in [1 .. N -> S]
  <2> HIDE DEF S
  <2> QED
    BY <1>1, <1>10, <1>13
<1>15. ASSUME NEW n \in 1 .. N
       PROVE  /\ BindsInts(lists[n], F)
              /\ \A bound \in Seq(Int) :
                   F[n][bound] = SqliteWalk(lists[n], bound, F)[Len(lists[n])]
  <2>1. F[n] = E(F, n)
    BY <1>1, <1>10
  <2>2. \A m \in 1 .. n - 1 : F[m] \in S
    BY <1>1, <1>13
  <2>3. BindsInts(lists[n], F)
    BY <1>3, <2>2
  <2> QED
    BY <2>1, <2>3 DEF E
<1> QED
  BY <1>14, <1>15 DEF F, N

\* A sequence begins with another one.
Continues(s, t) == Len(s) <= Len(t) /\ \A k \in 1 .. Len(s) : t[k] = s[k]

\* Each list within a list adds the values for its places.
BindsPlaces(list, binds, places) ==
  \A i \in 1 .. Len(list) : list[i].type = "NESTED" =>
    /\ places[list[i].list] \in Nat
    /\ \A b \in Seq(Int) :
         /\ Continues(b, binds[list[i].list][b])
         /\ Len(binds[list[i].list][b]) = Len(b) + places[list[i].list]

\* A clause adds the values for its places, and none that were bound are lost.
LEMMA SqliteTakesPlaces ==
  ASSUME NEW list \in Seq(Clause), NEW binds, NEW places,
         BindsPlaces(list, binds, places), NEW i \in 1 .. Len(list), NEW b \in Seq(Int)
  PROVE  /\ Places(list[i], places) \in Nat
         /\ Continues(b, SqliteTakes(list[i], b, binds))
         /\ Len(SqliteTakes(list[i], b, binds)) = Len(b) + Places(list[i], places)
<1> DEFINE c == list[i]
<1>1. /\ c \in Clause
      /\ c.type = "NESTED" =>
           /\ places[c.list] \in Nat /\ Continues(b, binds[c.list][b])
           /\ Len(binds[c.list][b]) = Len(b) + places[c.list]
  BY DEF BindsPlaces
<1> HIDE DEF c
<1>2. CASE c.type = "NESTED"
  BY <1>1, <1>2, SqliteTakesIs, PlacesOfClause DEF c
<1>3. CASE c.type \in Comparisons
  <2> DEFINE v == SqliteBind(c.value)
  <2>1. v \in Int
    BY <1>1, SqliteBindIsInt
  <2> HIDE DEF v
  <2>2. Len(Append(b, v)) = Len(b) + 1 /\ Continues(b, Append(b, v))
    BY <2>1 DEF Continues
  <2>3. Places(c, places) = 1 /\ SqliteTakes(c, b, binds) = Append(b, v)
    BY <1>1, <1>3, SqliteTakesIs, PlacesOfClause, Zenon DEF v
  <2> QED
    BY <2>2, <2>3 DEF c
<1>4. CASE c.type \in NullTests
  <2>1. Places(c, places) = 0 /\ SqliteTakes(c, b, binds) = b
    BY <1>1, <1>4, SqliteTakesIs, PlacesOfClause, Zenon
  <2>2. Len(b) \in Nat
    OBVIOUS
  <2> QED
    BY <2>1, <2>2 DEF c, Continues
<1> QED
  BY <1>1, <1>2, <1>3, <1>4, TypesApart

\* The values that are bound along a list keep up with its places.
LEMMA SqliteWalkPlaces ==
  ASSUME NEW list \in Seq(Clause), NEW bound \in Seq(Int), NEW binds,
         BindsInts(list, binds), NEW places, BindsPlaces(list, binds, places)
  PROVE  \A i \in 0 .. Len(list) :
           /\ PlacesUpTo(list, places)[i] \in Nat
           /\ Len(SqliteWalk(list, bound, binds)[i])
                = Len(bound) + PlacesUpTo(list, places)[i]
           /\ \A j \in 0 .. i :
                Continues(SqliteWalk(list, bound, binds)[j],
                          SqliteWalk(list, bound, binds)[i])
<1> DEFINE L == Len(list)
<1>1. PICK w : /\ w = SqliteWalk(list, bound, binds)
               /\ w \in [0 .. L -> Seq(Int)] /\ w[0] = bound
               /\ \A i \in 1 .. L : w[i] = SqliteTakes(list[i], w[i - 1], binds)
  BY SqliteWalkIs
<1>2. L \in Nat
  OBVIOUS
<1>3. \A i \in 1 .. L : Places(list[i], places) \in Nat
  <2>1. << >> \in Seq(Int)
    OBVIOUS
  <2> QED
    BY <2>1, SqliteTakesPlaces
<1>4. PICK u : /\ u = PlacesUpTo(list, places)
               /\ u \in [0 .. L -> Nat] /\ u[0] = 0
               /\ \A i \in 1 .. L : u[i] = u[i - 1] + Places(list[i], places)
  BY <1>2, <1>3, PlacesUpToIs
<1> DEFINE H == {i \in 0 .. L :
                   /\ Len(w[i]) = Len(bound) + u[i]
                   /\ \A j \in 0 .. i : Continues(w[j], w[i])}
<1>5. 0 \in H
  <2>1. Len(bound) \in Nat /\ \A j \in 0 .. 0 : j = 0
    OBVIOUS
  <2> QED
    BY <1>1, <1>2, <1>4, <2>1 DEF Continues
<1>6. ASSUME NEW i \in 1 .. L, i - 1 \in H
      PROVE  i \in H
  <2>1. i - 1 \in 0 .. L /\ i \in 0 .. L
    BY <1>2
  <2>2. w[i - 1] \in Seq(Int) /\ u[i - 1] \in Nat /\ Len(bound) \in Nat
    BY <1>1, <1>4, <2>1
  <2>3. /\ Continues(w[i - 1], w[i])
        /\ Len(w[i]) = Len(w[i - 1]) + Places(list[i], places)
    BY <1>1, <2>2, SqliteTakesPlaces
  <2>4. Len(w[i]) = Len(bound) + u[i]
    BY <1>3, <1>4, <1>6, <2>2, <2>3
  <2>5. ASSUME NEW j \in 0 .. i
        PROVE  Continues(w[j], w[i])
    <3>1. w[j] \in Seq(Int) /\ w[i] \in Seq(Int)
      <4>1. j \in 0 .. L
        BY <1>2
      <4> HIDE DEF L
      <4> QED
        BY <1>1, <2>1, <4>1
    <3>2. CASE j = i
      BY <3>1, <3>2 DEF Continues
    <3>3. CASE j # i
      <4>1. Continues(w[j], w[i - 1])
        BY <1>6, <3>3
      <4>2. Len(w[j]) \in Nat /\ Len(w[i - 1]) \in Nat /\ Len(w[i]) \in Nat
        BY <2>2, <3>1
      <4> QED
        BY <2>3, <4>1, <4>2 DEF Continues
    <3> QED
      BY <3>2, <3>3
  <2> QED
    BY <2>1, <2>4, <2>5
<1> HIDE DEF H, L
<1>7. \A i \in 0 .. L : i \in H
  BY <1>2, <1>5, <1>6, Onwards, Zenon
<1> QED
  BY <1>1, <1>2, <1>4, <1>7 DEF H, L

\* What InPlace says of each clause, of whatever type it is.
LEMMA InPlaceIs ==
  ASSUME NEW c \in Clause, NEW backend, NEW condition, NEW filled, NEW before, NEW bound
  PROVE  /\ c.type = "NESTED" =>
              (InPlace(backend, c, condition, filled, before, bound)
                 <=> filled[c.list][before + condition.before])
         /\ c.type \in Comparisons =>
              (InPlace(backend, c, condition, filled, before, bound)
                 <=> /\ before + condition.before + 1 \in DOMAIN bound
                     /\ bound[before + condition.before + 1] = Stored(backend, c.value))
         /\ c.type \in NullTests =>
              InPlace(backend, c, condition, filled, before, bound)
<1>1. c.type = "NESTED" =>
        (InPlace(backend, c, condition, filled, before, bound)
           <=> filled[c.list][before + condition.before])
  BY TypesApart, Zenon DEF InPlace
<1>2. c.type \in Comparisons =>
        (InPlace(backend, c, condition, filled, before, bound)
           <=> /\ before + condition.before + 1 \in DOMAIN bound
               /\ bound[before + condition.before + 1] = Stored(backend, c.value))
  BY TypesApart, Zenon DEF InPlace
<1>3. c.type \in NullTests => InPlace(backend, c, condition, filled, before, bound)
  BY TypesApart, Zenon DEF InPlace
<1> QED
  BY <1>1, <1>2, <1>3

\* What is bound for a list is in its places, when it is so for those within it.
LEMMA SqliteListFills ==
  ASSUME NEW list \in Seq(Clause), NEW bound \in Seq(Int), NEW binds,
         BindsInts(list, binds), NEW places, BindsPlaces(list, binds, places),
         NEW conditions, NEW filled, NEW all \in Seq(Int),
         \A i \in 1 .. Len(list) :
           /\ conditions[i].before = PlacesUpTo(list, places)[i - 1]
           /\ list[i].type = "NESTED" =>
                \A b \in Seq(Int) :
                  Continues(binds[list[i].list][b], all) => filled[list[i].list][Len(b)],
         Continues(SqliteWalk(list, bound, binds)[Len(list)], all)
  PROVE  \A i \in 1 .. Len(list) :
           InPlace("sqlite", list[i], conditions[i], filled, Len(bound), all)
<1> DEFINE L == Len(list)
<1>1. PICK w : /\ w = SqliteWalk(list, bound, binds)
               /\ w \in [0 .. L -> Seq(Int)]
               /\ \A i \in 1 .. L : w[i] = SqliteTakes(list[i], w[i - 1], binds)
  BY SqliteWalkIs
<1>2. PICK u : u = PlacesUpTo(list, places)
  OBVIOUS
<1>3. \A i \in 0 .. L : /\ u[i] \in Nat /\ Len(w[i]) = Len(bound) + u[i]
                        /\ \A j \in 0 .. i : Continues(w[j], w[i])
  <2>1. \A i \in 0 .. Len(list) :
           /\ PlacesUpTo(list, places)[i] \in Nat
           /\ Len(SqliteWalk(list, bound, binds)[i])
                = Len(bound) + PlacesUpTo(list, places)[i]
           /\ \A j \in 0 .. i :
                Continues(SqliteWalk(list, bound, binds)[j],
                          SqliteWalk(list, bound, binds)[i])
    BY SqliteWalkPlaces, Zenon
  <2> QED
    BY <1>1, <1>2, <2>1, Zenon
<1> SUFFICES ASSUME NEW i \in 1 .. L
             PROVE  InPlace("sqlite", list[i], conditions[i], filled, Len(bound), all)
  OBVIOUS
<1> DEFINE c == list[i]
           before == conditions[i].before
<1>4. L \in Nat /\ i \in 0 .. L /\ i - 1 \in 0 .. L /\ L \in 0 .. L
  OBVIOUS
<1>5. /\ c \in Clause /\ before = u[i - 1]
      /\ c.type = "NESTED" =>
           \A b \in Seq(Int) : Continues(binds[c.list][b], all) => filled[c.list][Len(b)]
  BY <1>2
<1>6. w[i] = SqliteTakes(c, w[i - 1], binds)
  BY <1>1
<1> HIDE DEF L
<1>7. w[i] \in Seq(Int) /\ w[i - 1] \in Seq(Int) /\ w[L] \in Seq(Int)
  BY <1>1, <1>4
<1> HIDE DEF c, before
<1>8. /\ Len(w[i - 1]) = Len(bound) + before
      /\ before \in Nat /\ Len(bound) \in Nat
  BY <1>3, <1>4, <1>5
<1>9. Continues(w[i], w[L]) /\ Continues(w[L], all)
  BY <1>1, <1>3, <1>4 DEF L
<1>10. Continues(w[i], all)
  <2>1. Len(w[i]) \in Nat /\ Len(w[L]) \in Nat /\ Len(all) \in Nat
    BY <1>7
  <2> QED
    BY <1>9, <2>1 DEF Continues
<1>11. CASE c.type = "NESTED"
  <2>1. w[i] = binds[c.list][w[i - 1]]
    BY <1>5, <1>6, <1>11, SqliteTakesIs
  <2>2. filled[c.list][Len(bound) + before]
    BY <1>5, <1>7, <1>8, <1>10, <1>11, <2>1
  <2> QED
    BY <1>5, <1>11, <2>2, InPlaceIs, Zenon DEF c, before
<1>12. CASE c.type \in Comparisons
  <2> DEFINE v == SqliteBind(c.value)
             place == Len(bound) + before + 1
  <2>1. w[i] = Append(w[i - 1], v)
    BY <1>5, <1>6, <1>12, SqliteTakesIs, Zenon
  <2>2. v \in Int
    BY <1>5, SqliteBindIsInt
  <2> HIDE DEF v
  <2>3. Len(w[i]) = place /\ w[i][place] = v
    <3>1. place = Len(w[i - 1]) + 1
      BY <1>8
    <3> HIDE DEF place
    <3>2. PICK b \in Seq(Int) : b = w[i - 1]
      BY <1>7
    <3>3. Len(Append(b, v)) = place /\ Append(b, v)[place] = v
      BY <2>2, <3>1, <3>2
    <3> QED
      BY <2>1, <3>2, <3>3, Zenon
  <2>4. place \in 1 .. Len(w[i])
    BY <1>8, <2>3
  <2> HIDE DEF place
  <2>5. Len(w[i]) <= Len(all) /\ all[place] = w[i][place]
    BY <1>10, <2>4 DEF Continues
  <2>6. place \in DOMAIN all
    <3>1. DOMAIN all = 1 .. Len(all) /\ Len(all) \in Nat /\ Len(w[i]) \in Nat
      BY <1>7
    <3> QED
      BY <2>4, <2>5, <3>1
  <2>7. v = Stored("sqlite", c.value)
    BY DEF v, Stored
  <2>8. all[place] = Stored("sqlite", c.value)
    BY <2>3, <2>5, <2>7
  <2> QED
    BY <1>5, <1>12, <2>6, <2>8, InPlaceIs, Zenon DEF c, place, before
<1>13. CASE c.type \in NullTests
  BY <1>5, <1>13, InPlaceIs, Zenon DEF c
<1> QED
  BY <1>5, <1>11, <1>12, <1>13, TypesApart

\* What SQLite is bound for a list is in the places of the list, and of the lists
\* within it, of any statement that goes on with other values.
LEMMA SqliteFills ==
  ASSUME NEW lists, AreLists(lists), NEW all \in Seq(Int)
  PROVE  LET binds == SqliteBinds(lists)
             filled == FilledIn("sqlite", lists, Build(lists), all)
         IN  \A n \in 1 .. Len(lists) : \A bound \in Seq(Int) :
               /\ Continues(bound, binds[n][bound])
               /\ Len(binds[n][bound]) = Len(bound) + PlacesIn(lists)[n]
               /\ Continues(binds[n][bound], all) => filled[n][Len(bound)]
<1> DEFINE N == Len(lists)
           where == Build(lists)
           binds == SqliteBinds(lists)
           places == PlacesIn(lists)
           filled == FilledIn("sqlite", lists, where, all)
           H == {n \in 1 .. N : \A bound \in Seq(Int) :
                   /\ Continues(bound, binds[n][bound])
                   /\ Len(binds[n][bound]) = Len(bound) + places[n]
                   /\ Continues(binds[n][bound], all) => filled[n][Len(bound)]}
<1>1. N \in Nat /\ DOMAIN lists = 1 .. N
  BY ListIs
<1>2. ASSUME NEW n \in 1 .. N
      PROVE  /\ lists[n] \in Seq(Clause)
             /\ Len(lists[n]) \in Nat /\ DOMAIN lists[n] = 1 .. Len(lists[n])
  BY ListIs
<1>3. ASSUME NEW n \in 1 .. N, NEW i \in 1 .. Len(lists[n])
      PROVE  /\ lists[n][i] \in Clause
             /\ lists[n][i].type = "NESTED" => lists[n][i].list \in 1 .. n - 1
             /\ where[n][i].before = PlacesUpTo(lists[n], places)[i - 1]
  BY ListIs, BuildIs
<1>4. ASSUME NEW n \in 1 .. N
      PROVE  /\ BindsInts(lists[n], binds)
             /\ \A bound \in Seq(Int) :
                  binds[n][bound] = SqliteWalk(lists[n], bound, binds)[Len(lists[n])]
  BY SqliteBindsIs
<1>5. ASSUME NEW n \in 1 .. N
      PROVE  /\ places[n] \in Nat
             /\ places[n] = PlacesUpTo(lists[n], places)[Len(lists[n])]
  BY PlacesInIs
<1>6. ASSUME NEW n \in 1 .. N, NEW b \in Nat
      PROVE  filled[n][b] <=> \A i \in DOMAIN lists[n] :
               InPlace("sqlite", lists[n][i], where[n][i], filled, b, all)
  <2>1. n \in DOMAIN lists
    BY <1>1
  <2> QED
    BY <2>1, FilledIs, Zenon
<1> HIDE DEF N, where, binds, places, filled
<1>7. ASSUME NEW n \in 1 .. N, \A m \in 1 .. n - 1 : m \in H
      PROVE  n \in H
  <2> DEFINE list == lists[n]
             L == Len(list)
  <2>1. list \in Seq(Clause) /\ BindsInts(list, binds) /\ L \in Nat
    BY <1>2, <1>4
  <2>2. BindsPlaces(list, binds, places)
    <3> SUFFICES ASSUME NEW i \in 1 .. L, list[i].type = "NESTED"
                 PROVE  /\ places[list[i].list] \in Nat
                        /\ \A b \in Seq(Int) :
                             /\ Continues(b, binds[list[i].list][b])
                             /\ Len(binds[list[i].list][b]) = Len(b) + places[list[i].list]
      BY DEF BindsPlaces
    <3>1. list[i].list \in 1 .. n - 1
      BY <1>3
    <3>2. list[i].list \in H /\ list[i].list \in 1 .. N
      BY <1>1, <1>7, <3>1
    <3> QED
      BY <1>5, <3>2
  <2> SUFFICES ASSUME NEW bound \in Seq(Int)
               PROVE  /\ Continues(bound, binds[n][bound])
                      /\ Len(binds[n][bound]) = Len(bound) + places[n]
                      /\ Continues(binds[n][bound], all) => filled[n][Len(bound)]
    OBVIOUS
  <2>3. \A i \in 0 .. L :
          /\ PlacesUpTo(list, places)[i] \in Nat
          /\ Len(SqliteWalk(list, bound, binds)[i])
               = Len(bound) + PlacesUpTo(list, places)[i]
          /\ \A j \in 0 .. i :
               Continues(SqliteWalk(list, bound, binds)[j],
                         SqliteWalk(list, bound, binds)[i])
    BY <2>1, <2>2, SqliteWalkPlaces
  <2>4. /\ binds[n][bound] = SqliteWalk(list, bound, binds)[L]
        /\ SqliteWalk(list, bound, binds)[0] = bound
        /\ places[n] = PlacesUpTo(list, places)[L]
    BY <1>4, <1>5, <2>1, SqliteWalkIs
  <2>5. /\ Continues(bound, binds[n][bound])
        /\ Len(binds[n][bound]) = Len(bound) + places[n]
    <3>1. L \in 0 .. L /\ 0 \in 0 .. L
      BY <2>1
    <3> QED
      BY <2>3, <2>4, <3>1
  <2>6. ASSUME Continues(binds[n][bound], all)
        PROVE  filled[n][Len(bound)]
    <3>1. \A i \in 1 .. L :
            /\ where[n][i].before = PlacesUpTo(list, places)[i - 1]
            /\ list[i].type = "NESTED" =>
                 \A b \in Seq(Int) :
                   Continues(binds[list[i].list][b], all) => filled[list[i].list][Len(b)]
      BY <1>3, <1>7
    <3>2. \A i \in 1 .. L :
            InPlace("sqlite", list[i], where[n][i], filled, Len(bound), all)
      <4> DEFINE conditions == where[n]
      <4>1. /\ list \in Seq(Clause) /\ BindsInts(list, binds)
            /\ BindsPlaces(list, binds, places)
            /\ Continues(SqliteWalk(list, bound, binds)[Len(list)], all)
        BY <2>1, <2>2, <2>4, <2>6
      <4>2. \A i \in 1 .. Len(list) :
              /\ conditions[i].before = PlacesUpTo(list, places)[i - 1]
              /\ list[i].type = "NESTED" =>
                   \A b \in Seq(Int) :
                     Continues(binds[list[i].list][b], all) => filled[list[i].list][Len(b)]
        BY <3>1
      <4> HIDE DEF list, conditions, H
      <4>3. \A i \in 1 .. Len(list) :
              InPlace("sqlite", list[i], conditions[i], filled, Len(bound), all)
        BY <4>1, <4>2, SqliteListFills, Zenon
      <4> QED
        BY <4>3 DEF conditions
    <3>3. DOMAIN lists[n] = 1 .. L /\ Len(bound) \in Nat
      BY <1>2
    <3> QED
      BY <1>6, <3>2, <3>3
  <2> QED
    BY <2>5, <2>6
<1>8. \A n \in 1 .. N : n \in H
  <2>1. 1 \in Nat /\ N \in Int
    BY <1>1
  <2> HIDE DEF H
  <2> QED
    BY <1>7, <2>1, Upwards, Zenon
<1> QED
  BY <1>8 DEF N, where, binds, places, filled

(***************************************************************************)
(* SQLite is given a value for each place of the statement and no other,   *)
(* each in the place of its own clause: the position that bind_clause runs *)
(* on through the lists keeps up with the question marks of build_clause,  *)
(* behind clauses that have no place and around lists nested to any depth. *)
(***************************************************************************)
THEOREM SqlitePlacesFilled ==
  ASSUME NEW lists, AreLists(lists), lists # << >>
  PROVE  /\ Binds("sqlite", lists).bound \in Seq(Int)
         /\ Len(Binds("sqlite", lists).bound) = PlacesOf(lists)
         /\ FilledIn("sqlite", lists, Build(lists), Binds("sqlite", lists).bound)
              [Len(lists)][0]
<1> DEFINE N == Len(lists)
           bound == SqliteBinds(lists)[N][<< >>]
<1>1. N \in Nat /\ N > 0
  <2>1. lists \in Seq(Seq(Clause))
    BY DEF AreLists
  <2> QED
    BY <2>1, EmptySeq
<1>2. Binds("sqlite", lists).bound = bound
  BY DEF Binds
<1>3. << >> \in Seq(Int) /\ Len(<< >>) = 0 /\ N \in 1 .. N
  BY <1>1
<1>4. bound \in Seq(Int)
  <2>1. SqliteBinds(lists) \in [1 .. N -> [Seq(Int) -> Seq(Int)]]
    BY SqliteBindsIs
  <2> HIDE DEF N
  <2>2. SqliteBinds(lists)[N] \in [Seq(Int) -> Seq(Int)]
    BY <1>3, <2>1
  <2> QED
    BY <1>3, <2>2
<1>5. /\ Len(bound) = Len(<< >>) + PlacesIn(lists)[N]
      /\ Continues(bound, bound) =>
           FilledIn("sqlite", lists, Build(lists), bound)[N][Len(<< >>)]
  BY <1>3, <1>4, SqliteFills
<1>6. Len(bound) \in Nat /\ Continues(bound, bound)
  BY <1>4 DEF Continues
<1>7. PlacesIn(lists)[N] \in Nat
  BY <1>3, PlacesInIs
<1>8. Len(bound) = PlacesOf(lists)
  BY <1>3, <1>5, <1>7 DEF PlacesOf
<1> QED
  BY <1>2, <1>3, <1>4, <1>5, <1>6, <1>8

----------------------------------------------------------------------------
(* What MySQL is given for the places                                      *)

LEMMA MysqlBindIsInt ==
  ASSUME NEW c \in Clause
  PROVE  MysqlBind(c.value) \in Int
BY DEF Clause, MysqlBind

\* What a clause takes, of whatever type it is, when there is a bind left.
LEMMA MysqlTakesIs ==
  ASSUME NEW c \in Clause, NEW b, NEW binds
  PROVE  /\ NoneLeft(b) => MysqlTakes(c, b, binds) = NoBind
         /\ ~NoneLeft(b) =>
              /\ c.type = "NESTED" => MysqlTakes(c, b, binds) = binds[c.list][Skip(b)]
              /\ c.type \in Comparisons =>
                   MysqlTakes(c, b, binds)
                     = Skip([b EXCEPT !.bound = ReplaceAt(@, b.at, MysqlBind(c.value))])
              /\ c.type \in NullTests => MysqlTakes(c, b, binds) = Skip(b)
<1>1. NoneLeft(b) => MysqlTakes(c, b, binds) = NoBind
  BY Zenon DEF MysqlTakes
<1>2. ASSUME ~NoneLeft(b), c.type = "NESTED"
      PROVE  MysqlTakes(c, b, binds) = binds[c.list][Skip(b)]
  BY <1>2, TypesApart, Zenon DEF MysqlTakes
<1>3. ASSUME ~NoneLeft(b), c.type \in Comparisons
      PROVE  MysqlTakes(c, b, binds)
               = Skip([b EXCEPT !.bound = ReplaceAt(@, b.at, MysqlBind(c.value))])
  BY <1>3, TypesApart, Zenon DEF MysqlTakes
<1>4. ASSUME ~NoneLeft(b), c.type \in NullTests
      PROVE  MysqlTakes(c, b, binds) = Skip(b)
  BY <1>4, TypesApart, Zenon DEF MysqlTakes
<1> QED
  BY <1>1, <1>2, <1>3, <1>4

\* A bind that is set or passed leaves the others as they were.
LEMMA SkipIs ==
  ASSUME NEW b \in MysqlBinding
  PROVE  /\ Skip(b) \in MysqlBinding
         /\ Skip(b).ok = b.ok /\ Skip(b).at = b.at + 1 /\ Skip(b).bound = b.bound
BY DEF Skip, MysqlBinding

LEMMA SetIs ==
  ASSUME NEW b \in MysqlBinding, NEW v \in Int, ~NoneLeft(b)
  PROVE  LET s == [b EXCEPT !.bound = ReplaceAt(@, b.at, v)] IN
         /\ s \in MysqlBinding
         /\ s.ok = b.ok /\ s.at = b.at /\ Len(s.bound) = Len(b.bound)
         /\ \A k \in 1 .. Len(b.bound) :
              s.bound[k] = IF k = b.at THEN v ELSE b.bound[k]
<1> DEFINE after == ReplaceAt(b.bound, b.at, v)
           s == [b EXCEPT !.bound = after]
<1>1. b.ok \in BOOLEAN /\ b.at \in Nat \ {0} /\ b.bound \in Seq(Int)
  BY DEF MysqlBinding
<1>2. b.at \in 1 .. Len(b.bound)
  BY <1>1 DEF NoneLeft
<1>3. /\ after \in Seq(Int) /\ Len(after) = Len(b.bound)
      /\ \A k \in 1 .. Len(b.bound) : after[k] = IF k = b.at THEN v ELSE b.bound[k]
  BY <1>1, <1>2, ExceptSeq DEF ReplaceAt
<1> HIDE DEF after
<1>4. s \in MysqlBinding /\ s.ok = b.ok /\ s.at = b.at /\ s.bound = after
  BY <1>3 DEF MysqlBinding
<1> HIDE DEF s
<1>5. /\ s \in MysqlBinding
      /\ s.ok = b.ok /\ s.at = b.at /\ Len(s.bound) = Len(b.bound)
      /\ \A k \in 1 .. Len(b.bound) :
           s.bound[k] = IF k = b.at THEN v ELSE b.bound[k]
  BY <1>3, <1>4
<1> QED
  BY <1>5, Zenon DEF s, after

LEMMA NoBindIs == NoBind \in MysqlBinding /\ ~NoBind.ok
BY DEF NoBind, MysqlBinding

\* The lists within a list take binds to binds.
BindsBindings(list, binds) ==
  \A i \in 1 .. Len(list) : list[i].type = "NESTED" =>
    \A b \in MysqlBinding : binds[list[i].list][b] \in MysqlBinding

LEMMA MysqlTakesBinding ==
  ASSUME NEW list \in Seq(Clause), NEW binds, BindsBindings(list, binds),
         NEW i \in 1 .. Len(list), NEW b \in MysqlBinding
  PROVE  MysqlTakes(list[i], b, binds) \in MysqlBinding
<1> DEFINE c == list[i]
<1>1. c \in Clause
  OBVIOUS
<1>2. c.type = "NESTED" => \A s \in MysqlBinding : binds[c.list][s] \in MysqlBinding
  BY DEF BindsBindings
<1> HIDE DEF c
<1>3. CASE NoneLeft(b)
  <2>1. MysqlTakes(list[i], b, binds) = NoBind
    BY <1>3, Zenon DEF MysqlTakes
  <2> QED
    BY <2>1, NoBindIs
<1>4. CASE ~NoneLeft(b)
  <2>1. Skip(b) \in MysqlBinding
    BY SkipIs
  <2>2. Skip([b EXCEPT !.bound = ReplaceAt(@, b.at, MysqlBind(c.value))]) \in MysqlBinding
    <3> DEFINE v == MysqlBind(c.value)
    <3>1. v \in Int
      BY <1>1, MysqlBindIsInt
    <3> HIDE DEF v
    <3>2. [b EXCEPT !.bound = ReplaceAt(@, b.at, v)] \in MysqlBinding
      BY <1>4, <3>1, SetIs
    <3> QED
      BY <3>2, SkipIs, Zenon DEF v
  <2>3. MysqlTakes(c, b, binds) \in MysqlBinding
    <3>1. c.type = "NESTED" => MysqlTakes(c, b, binds) \in MysqlBinding
      BY <1>1, <1>2, <1>4, <2>1, MysqlTakesIs
    <3>2. c.type \in Comparisons => MysqlTakes(c, b, binds) \in MysqlBinding
      BY <1>1, <1>4, <2>2, MysqlTakesIs, Zenon
    <3>3. c.type \in NullTests => MysqlTakes(c, b, binds) \in MysqlBinding
      BY <1>1, <1>4, <2>1, MysqlTakesIs, Zenon
    <3> QED
      BY <1>1, <3>1, <3>2, <3>3, TypesApart
  <2> QED
    BY <2>3 DEF c
<1> QED
  BY <1>3, <1>4

\* The binds are taken through the list.
LEMMA MysqlWalkIs ==
  ASSUME NEW list \in Seq(Clause), NEW b \in MysqlBinding, NEW binds,
         BindsBindings(list, binds)
  PROVE  /\ MysqlWalk(list, b, binds) \in [0 .. Len(list) -> MysqlBinding]
         /\ MysqlWalk(list, b, binds)[0] = b
         /\ \A i \in 1 .. Len(list) :
              MysqlWalk(list, b, binds)[i]
                = MysqlTakes(list[i], MysqlWalk(list, b, binds)[i - 1], binds)
<1> DEFINE L == Len(list)
           next == [i \in 1 .. L |->
                      [s \in MysqlBinding |-> MysqlTakes(list[i], s, binds)]]
           E(f) == [i \in 0 .. L |->
                      IF i = 0 THEN b ELSE MysqlTakes(list[i], f[i - 1], binds)]
<1>1. Walks(next, L, MysqlBinding)
  <2>1. \A i \in 1 .. L : \A s \in MysqlBinding :
          MysqlTakes(list[i], s, binds) \in MysqlBinding
    BY MysqlTakesBinding
  <2> QED
    BY <2>1 DEF Walks
<1>2. PICK w \in [0 .. L -> MysqlBinding] : w[0] = b /\ Walked(w, next, L)
  <2>1. L \in Nat
    OBVIOUS
  <2> HIDE DEF next, L
  <2> QED
    BY <1>1, <2>1, WalkExists, Zenon
<1>3. ASSUME NEW i \in 1 .. L
      PROVE  w[i] = MysqlTakes(list[i], w[i - 1], binds)
  <2>1. i - 1 \in 0 .. L
    OBVIOUS
  <2>2. w[i - 1] \in MysqlBinding
    BY <1>2, <2>1
  <2>3. w[i] = next[i][w[i - 1]]
    BY <1>2 DEF Walked
  <2> QED
    BY <2>2, <2>3
<1>4. w = E(w)
  BY <1>2, <1>3
<1> DEFINE walk == MysqlWalk(list, b, binds)
<1>5. walk = E(walk)
  BY <1>4, Zenon DEF MysqlWalk
<1> HIDE DEF walk
<1>6. \A i \in 0 .. L : w[i] = walk[i]
  <2> DEFINE H == {i \in 0 .. L : w[i] = walk[i]}
  <2>1. L \in Nat
    OBVIOUS
  <2>2. 0 \in H
    BY <1>2, <1>5, <2>1
  <2>3. ASSUME NEW i \in 1 .. L, i - 1 \in H
        PROVE  i \in H
    <3>1. i \in 0 .. L /\ i # 0
      BY <2>1
    <3>2. walk[i] = MysqlTakes(list[i], walk[i - 1], binds)
      BY <1>5, <3>1
    <3>3. w[i - 1] = walk[i - 1]
      BY <2>3
    <3> QED
      BY <1>3, <3>1, <3>2, <3>3
  <2> HIDE DEF H, L
  <2>4. \A i \in 0 .. L : i \in H
    BY <2>1, <2>2, <2>3, Onwards, Zenon
  <2> QED
    BY <2>4 DEF H
<1>7. walk = w
  BY <1>5, <1>6
<1>8. /\ walk \in [0 .. L -> MysqlBinding] /\ walk[0] = b
      /\ \A i \in 1 .. L : walk[i] = MysqlTakes(list[i], walk[i - 1], binds)
  BY <1>2, <1>3, <1>7
<1> QED
  BY <1>8, Zenon DEF walk

\* Only the lists of its clauses matter for what a list takes.
LEMMA SameMysqlWalk ==
  ASSUME NEW list \in Seq(Clause), NEW b \in MysqlBinding, NEW p, NEW q,
         BindsBindings(list, p),
         \A i \in 1 .. Len(list) :
           list[i].type = "NESTED" => p[list[i].list] = q[list[i].list]
  PROVE  MysqlWalk(list, b, p)[Len(list)] = MysqlWalk(list, b, q)[Len(list)]
<1> DEFINE L == Len(list)
<1>1. BindsBindings(list, q)
  BY DEF BindsBindings
<1>2. PICK f : /\ f = MysqlWalk(list, b, p) /\ f[0] = b
               /\ \A i \in 1 .. L : f[i] = MysqlTakes(list[i], f[i - 1], p)
  BY MysqlWalkIs
<1>3. PICK g : /\ g = MysqlWalk(list, b, q) /\ g[0] = b
               /\ \A i \in 1 .. L : g[i] = MysqlTakes(list[i], g[i - 1], q)
  BY <1>1, MysqlWalkIs
<1>4. ASSUME NEW i \in 1 .. L, NEW s
      PROVE  MysqlTakes(list[i], s, p) = MysqlTakes(list[i], s, q)
  <2> DEFINE c == list[i]
  <2>1. c \in Clause /\ (c.type = "NESTED" => p[c.list] = q[c.list])
    OBVIOUS
  <2> HIDE DEF c
  <2>2. CASE c.type = "NESTED"
    <3>1. p[c.list][Skip(s)] = q[c.list][Skip(s)]
      BY <2>1, <2>2
    <3>2. CASE NoneLeft(s)
      BY <3>2, Zenon DEF c, MysqlTakes
    <3>3. CASE ~NoneLeft(s)
      <4>1. MysqlTakes(c, s, p) = p[c.list][Skip(s)]
        BY <2>1, <2>2, <3>3, MysqlTakesIs, Zenon
      <4>2. MysqlTakes(c, s, q) = q[c.list][Skip(s)]
        BY <2>1, <2>2, <3>3, MysqlTakesIs, Zenon
      <4> QED
        BY <3>1, <4>1, <4>2, Zenon DEF c
    <3> QED
      BY <3>2, <3>3
  <2>3. CASE c.type # "NESTED"
    BY <2>3, Zenon DEF c, MysqlTakes
  <2> QED
    BY <2>2, <2>3
<1>5. \A i \in 1 .. L : f[i - 1] = g[i - 1] => f[i] = g[i]
  BY <1>2, <1>3, <1>4
<1>6. Len(list) \in Nat
  OBVIOUS
<1>7. \A i \in 0 .. L : f[i] = g[i]
  <2> DEFINE H == {i \in 0 .. L : f[i] = g[i]}
  <2>1. 0 \in H
    BY <1>2, <1>3, <1>6
  <2>2. \A i \in 1 .. L : i - 1 \in H => i \in H
    BY <1>5, <1>6
  <2>3. L \in Nat
    BY <1>6
  <2> HIDE DEF H, L
  <2>4. \A i \in 0 .. L : i \in H
    BY <2>1, <2>2, <2>3, Onwards, Zenon
  <2> QED
    BY <2>4 DEF H
<1> QED
  BY <1>2, <1>3, <1>6, <1>7

\* What each list takes.
LEMMA MysqlBindsIs ==
  ASSUME NEW lists, AreLists(lists)
  PROVE  \A n \in 1 .. Len(lists) :
           /\ BindsBindings(lists[n], MysqlBinds(lists))
           /\ \A b \in MysqlBinding :
                /\ MysqlBinds(lists)[n][b] \in MysqlBinding
                /\ NoneLeft(b) => MysqlBinds(lists)[n][b] = NoBind
                /\ ~NoneLeft(b) => MysqlBinds(lists)[n][b]
                     = MysqlWalk(lists[n], b, MysqlBinds(lists))[Len(lists[n])]
<1> DEFINE N == Len(lists)
           S == [MysqlBinding -> MysqlBinding]
           E(f, n) == [b \in MysqlBinding |->
                         IF NoneLeft(b) THEN NoBind
                         ELSE MysqlWalk(lists[n], b, f)[Len(lists[n])]]
           step == [n \in 1 .. N |-> [r \in [1 .. n - 1 -> S] |-> E(r, n)]]
<1>1. N \in Nat /\ DOMAIN lists = 1 .. N
  BY ListIs
<1>2. \A n \in 1 .. N :
        /\ lists[n] \in Seq(Clause) /\ Len(lists[n]) \in Nat
        /\ \A i \in 1 .. Len(lists[n]) :
             lists[n][i].type = "NESTED" => lists[n][i].list \in 1 .. n - 1
  BY ListIs
<1> HIDE DEF N
<1>3. ASSUME NEW n \in 1 .. N, NEW r, \A m \in 1 .. n - 1 : r[m] \in S
      PROVE  BindsBindings(lists[n], r)
  BY <1>2, <1>3 DEF BindsBindings
<1>4. ASSUME NEW n \in 1 .. N, NEW r, \A m \in 1 .. n - 1 : r[m] \in S
      PROVE  E(r, n) \in S
  <2>1. BindsBindings(lists[n], r)
    BY <1>3, <1>4
  <2>2. ASSUME NEW b \in MysqlBinding
        PROVE  MysqlWalk(lists[n], b, r)[Len(lists[n])] \in MysqlBinding
    <3>1. MysqlWalk(lists[n], b, r) \in [0 .. Len(lists[n]) -> MysqlBinding]
      BY <1>2, <2>1, MysqlWalkIs
    <3> QED
      BY <1>2, <3>1
  <2> QED
    BY <2>2, NoBindIs
<1>5. ASSUME NEW n \in 1 .. N, NEW r, NEW f,
             \A m \in 1 .. n - 1 : r[m] \in S /\ r[m] = f[m]
      PROVE  E(r, n) = E(f, n)
  <2>1. BindsBindings(lists[n], r)
    BY <1>3, <1>5
  <2>2. \A i \in 1 .. Len(lists[n]) :
          lists[n][i].type = "NESTED" => r[lists[n][i].list] = f[lists[n][i].list]
    BY <1>2, <1>5
  <2>3. \A b \in MysqlBinding :
          MysqlWalk(lists[n], b, r)[Len(lists[n])]
            = MysqlWalk(lists[n], b, f)[Len(lists[n])]
    <3> TAKE b \in MysqlBinding
    <3> DEFINE list == lists[n]
    <3>1. /\ list \in Seq(Clause) /\ BindsBindings(list, r)
          /\ \A i \in 1 .. Len(list) :
               list[i].type = "NESTED" => r[list[i].list] = f[list[i].list]
      BY <1>2, <2>1, <2>2
    <3> HIDE DEF list
    <3>2. MysqlWalk(list, b, r)[Len(list)] = MysqlWalk(list, b, f)[Len(list)]
      BY <3>1, SameMysqlWalk
    <3> QED
      BY <3>2 DEF list
  <2> QED
    BY <2>3
<1> HIDE DEF E
<1>6. Steps(step, 1, N, S)
  BY <1>4 DEF Steps
<1>7. PICK f \in [1 .. N -> S] : Follows(f, step, 1, N)
  <2> HIDE DEF step, S
  <2>1. 1 \in Nat /\ 1 <= N + 1
    BY <1>1
  <2> QED
    BY <1>1, <1>6, <2>1, Recursion, Zenon
<1>8. ASSUME NEW n \in 1 .. N
      PROVE  f[n] = E(f, n)
  <2> HIDE DEF S
  <2> DEFINE r == [m \in 1 .. n - 1 |-> f[m]]
  <2>1. r \in [1 .. n - 1 -> S] /\ \A m \in 1 .. n - 1 : r[m] \in S /\ r[m] = f[m]
    BY <1>1
  <2>2. f[n] = E(r, n)
    BY <1>7, <2>1 DEF Follows
  <2> HIDE DEF r
  <2> QED
    BY <1>5, <2>1, <2>2
<1>9. f = [n \in DOMAIN lists |-> E(f, n)]
  BY <1>1, <1>8
<1> DEFINE F == MysqlBinds(lists)
<1>10. F = [n \in DOMAIN lists |-> E(F, n)]
  BY <1>9, Zenon DEF MysqlBinds, E
<1> HIDE DEF F
<1> DEFINE H == {n \in 1 .. N : F[n] \in S}
<1>11. ASSUME NEW n \in 1 .. N, \A m \in 1 .. n - 1 : m \in H
       PROVE  n \in H
  <2> HIDE DEF S
  <2> QED
    BY <1>1, <1>4, <1>10, <1>11
<1>12. \A n \in 1 .. N : n \in H
  <2>1. 1 \in Nat /\ N \in Int
    BY <1>1
  <2> HIDE DEF H
  <2> QED
    BY <1>11, <2>1, Upwards, Zenon
<1>13. \A n \in 1 .. N : F[n] \in S
  BY <1>12
<1>14. ASSUME NEW n \in 1 .. N
       PROVE  /\ BindsBindings(lists[n], F)
              /\ \A b \in MysqlBinding :
                   /\ F[n][b] \in MysqlBinding
                   /\ NoneLeft(b) => F[n][b] = NoBind
                   /\ ~NoneLeft(b) =>
                        F[n][b] = MysqlWalk(lists[n], b, F)[Len(lists[n])]
  <2>1. F[n] = E(F, n)
    BY <1>1, <1>10
  <2>2. \A m \in 1 .. n - 1 : F[m] \in S
    BY <1>1, <1>13
  <2>3. BindsBindings(lists[n], F)
    BY <1>3, <2>2
  <2>4. F[n] \in S
    BY <1>13
  <2> QED
    BY <2>1, <2>3, <2>4 DEF E
<1> QED
  BY <1>14 DEF F, N

\* Binds are taken: at least so many more, the ones before stay as they are, and
\* the position is never past the end by more than one.
Moves(b, r, k) ==
  r.ok =>
    /\ b.ok /\ b.at + k <= r.at
    /\ Len(r.bound) = Len(b.bound) /\ r.at <= Len(r.bound) + 1
    /\ \A j \in 1 .. b.at - 1 : r.bound[j] = b.bound[j]

LEMMA MovesOn ==
  ASSUME NEW b \in MysqlBinding, NEW r \in MysqlBinding, NEW s \in MysqlBinding,
         NEW k \in Nat, NEW l \in Nat, Moves(b, r, k), Moves(r, s, l)
  PROVE  Moves(b, s, k + l)
<1>1. b.at \in Nat /\ r.at \in Nat /\ s.at \in Nat
  BY DEF MysqlBinding
<1>2. Len(b.bound) \in Nat /\ Len(r.bound) \in Nat /\ Len(s.bound) \in Nat
  BY DEF MysqlBinding
<1>3. CASE ~s.ok
  BY <1>3 DEF Moves
<1>4. CASE s.ok
  <2>1. /\ r.ok /\ r.at + l <= s.at
        /\ Len(s.bound) = Len(r.bound) /\ s.at <= Len(s.bound) + 1
        /\ \A j \in 1 .. r.at - 1 : s.bound[j] = r.bound[j]
    BY <1>4 DEF Moves
  <2>2. /\ b.ok /\ b.at + k <= r.at /\ Len(r.bound) = Len(b.bound)
        /\ \A j \in 1 .. b.at - 1 : r.bound[j] = b.bound[j]
    BY <2>1 DEF Moves
  <2>3. b.at + (k + l) <= s.at
    BY <1>1, <2>1, <2>2
  <2>4. \A j \in 1 .. b.at - 1 : s.bound[j] = b.bound[j]
    <3>1. \A j \in 1 .. b.at - 1 : j \in 1 .. r.at - 1
      BY <1>1, <2>2
    <3> QED
      BY <2>1, <2>2, <3>1, Zenon
  <2>5. Len(s.bound) = Len(b.bound)
    BY <2>1, <2>2, Zenon
  <2> QED
    BY <2>1, <2>2, <2>3, <2>4, <2>5, Zenon DEF Moves
<1> QED
  BY <1>3, <1>4

\* Each list within a list takes at least the binds for its places.
BindsMoves(list, binds, places) ==
  \A i \in 1 .. Len(list) : list[i].type = "NESTED" =>
    /\ places[list[i].list] \in Nat
    /\ \A b \in MysqlBinding : Moves(b, binds[list[i].list][b], places[list[i].list])

\* A clause takes at least the binds for its places: a comparison takes its own
\* and sets it, every other clause one more than it has places.
LEMMA MysqlTakesMoves ==
  ASSUME NEW list \in Seq(Clause), NEW binds, BindsBindings(list, binds),
         NEW places, BindsMoves(list, binds, places),
         NEW i \in 1 .. Len(list), NEW b \in MysqlBinding
  PROVE  LET c == list[i]
             r == MysqlTakes(c, b, binds)
         IN  /\ Places(c, places) \in Nat
             /\ c.type \in Comparisons =>
                  /\ Moves(b, r, Places(c, places))
                  /\ r.ok => /\ b.at \in 1 .. Len(b.bound) /\ r.at = b.at + 1
                             /\ r.bound[b.at] = MysqlBind(c.value)
             /\ c.type \notin Comparisons => Moves(b, r, Places(c, places) + 1)
<1> DEFINE c == list[i]
           r == MysqlTakes(c, b, binds)
<1>1. /\ c \in Clause
      /\ c.type = "NESTED" =>
           /\ places[c.list] \in Nat
           /\ \A s \in MysqlBinding : /\ binds[c.list][s] \in MysqlBinding
                                      /\ Moves(s, binds[c.list][s], places[c.list])
  BY DEF BindsMoves, BindsBindings
<1> HIDE DEF c
<1>2. Places(c, places) \in Nat
  BY <1>1, PlacesOfClause, TypesApart
<1>3. b.at \in Nat \ {0} /\ Len(b.bound) \in Nat
  BY DEF MysqlBinding
<1>4. CASE NoneLeft(b)
  <2>1. ~r.ok
    BY <1>1, <1>4, MysqlTakesIs, NoBindIs
  <2> QED
    BY <1>2, <2>1 DEF Moves, c
<1>5. CASE ~NoneLeft(b)
  <2>1. b.ok /\ b.at \in 1 .. Len(b.bound)
    BY <1>3, <1>5 DEF NoneLeft
  <2>2. /\ Skip(b) \in MysqlBinding
        /\ Skip(b).ok = b.ok /\ Skip(b).at = b.at + 1 /\ Skip(b).bound = b.bound
    BY SkipIs
  <2>3. Moves(b, Skip(b), 1)
    BY <1>3, <2>1, <2>2 DEF Moves
  <2>4. CASE c.type = "NESTED"
    <3> DEFINE n == places[c.list]
    <3>1. r = binds[c.list][Skip(b)] /\ Places(c, places) = n
      BY <1>1, <1>5, <2>4, MysqlTakesIs, PlacesOfClause
    <3>2. r \in MysqlBinding /\ Moves(Skip(b), r, n) /\ n \in Nat
      BY <1>1, <2>2, <2>4, <3>1
    <3> HIDE DEF r, n
    <3>3. Moves(b, r, 1 + n)
      BY <2>2, <2>3, <3>2, MovesOn
    <3>4. Moves(b, r, n + 1)
      BY <3>2, <3>3
    <3> QED
      BY <1>1, <1>2, <2>4, <3>1, <3>4, TypesApart DEF c, r
  <2>5. CASE c.type \in Comparisons
    <3> DEFINE v == MysqlBind(c.value)
               s == [b EXCEPT !.bound = ReplaceAt(@, b.at, v)]
    <3>1. v \in Int
      BY <1>1, MysqlBindIsInt
    <3>2. r = Skip(s) /\ Places(c, places) = 1
      BY <1>1, <1>5, <2>5, MysqlTakesIs, PlacesOfClause, Zenon
    <3> HIDE DEF v
    <3>3. /\ s \in MysqlBinding
          /\ s.ok = b.ok /\ s.at = b.at /\ Len(s.bound) = Len(b.bound)
          /\ \A k \in 1 .. Len(b.bound) :
               s.bound[k] = IF k = b.at THEN v ELSE b.bound[k]
      BY <1>5, <3>1, SetIs
    <3> HIDE DEF s, r
    <3>4. r.ok = b.ok /\ r.at = b.at + 1 /\ r.bound = s.bound
      BY <3>2, <3>3, SkipIs
    <3>5. \A j \in 1 .. b.at - 1 : j \in 1 .. Len(b.bound) /\ j # b.at
      BY <1>3, <2>1
    <3>6. Moves(b, r, 1)
      BY <1>3, <2>1, <3>3, <3>4, <3>5 DEF Moves
    <3>7. r.bound[b.at] = v
      BY <2>1, <3>3, <3>4
    <3> QED
      BY <1>2, <2>1, <2>5, <3>2, <3>4, <3>6, <3>7 DEF c, r, v
  <2>6. CASE c.type \in NullTests
    <3>1. r = Skip(b) /\ Places(c, places) = 0
      BY <1>1, <1>5, <2>6, MysqlTakesIs, PlacesOfClause, Zenon
    <3>2. c.type \notin Comparisons
      BY <1>1, <2>6, TypesApart
    <3> QED
      BY <2>3, <3>1, <3>2 DEF c, r
  <2> QED
    BY <1>1, <2>4, <2>5, <2>6, TypesApart
<1> QED
  BY <1>4, <1>5

\* The binds that are taken along a list keep ahead of its places.
Ahead(list, b, binds, places) ==
  LET w == MysqlWalk(list, b, binds)
      u == PlacesUpTo(list, places)
  IN  /\ u \in [0 .. Len(list) -> Nat] /\ u[0] = 0
      /\ \A i \in 1 .. Len(list) : u[i] = u[i - 1] + Places(list[i], places)
      /\ \A i \in 0 .. Len(list) : \A j \in 0 .. i :
           /\ u[i] - u[j] \in Nat
           /\ Moves(w[j], w[i], u[i] - u[j])

LEMMA MysqlWalkMoves ==
  ASSUME NEW list \in Seq(Clause), NEW b \in MysqlBinding, ~NoneLeft(b),
         NEW binds, BindsBindings(list, binds),
         NEW places, BindsMoves(list, binds, places)
  PROVE  Ahead(list, b, binds, places)
<1> SUFFICES ASSUME NEW w, w = MysqlWalk(list, b, binds),
                    NEW u, u = PlacesUpTo(list, places)
             PROVE  /\ u \in [0 .. Len(list) -> Nat] /\ u[0] = 0
                    /\ \A i \in 1 .. Len(list) :
                         u[i] = u[i - 1] + Places(list[i], places)
                    /\ \A i \in 0 .. Len(list) : \A j \in 0 .. i :
                         /\ u[i] - u[j] \in Nat
                         /\ Moves(w[j], w[i], u[i] - u[j])
  BY Zenon DEF Ahead
<1> DEFINE L == Len(list)
<1>1. /\ w \in [0 .. L -> MysqlBinding] /\ w[0] = b
      /\ \A i \in 1 .. L : w[i] = MysqlTakes(list[i], w[i - 1], binds)
  BY MysqlWalkIs
<1>2. L \in Nat
  OBVIOUS
<1>3. ASSUME NEW i \in 1 .. L, NEW s \in MysqlBinding
      PROVE  /\ Places(list[i], places) \in Nat
             /\ Moves(s, MysqlTakes(list[i], s, binds), Places(list[i], places))
  <2> DEFINE c == list[i]
             r == MysqlTakes(c, s, binds)
  <2>1. /\ Places(c, places) \in Nat
        /\ c.type \in Comparisons => Moves(s, r, Places(c, places))
        /\ c.type \notin Comparisons => Moves(s, r, Places(c, places) + 1)
    BY MysqlTakesMoves
  <2>2. s.at \in Nat /\ r.at \in Nat
    BY MysqlTakesBinding DEF MysqlBinding
  <2> HIDE DEF c, r
  <2>3. c.type \notin Comparisons => Moves(s, r, Places(c, places))
    BY <2>1, <2>2 DEF Moves
  <2> QED
    BY <2>1, <2>3 DEF c, r
<1>4. b.ok /\ b.at <= Len(b.bound) /\ b.at \in Nat /\ Len(b.bound) \in Nat
  BY DEF NoneLeft, MysqlBinding
<1>5. \A i \in 1 .. L : Places(list[i], places) \in Nat
  BY <1>3
<1>6. /\ u \in [0 .. L -> Nat] /\ u[0] = 0
      /\ \A i \in 1 .. L : u[i] = u[i - 1] + Places(list[i], places)
  BY <1>2, <1>5, PlacesUpToIs
<1> DEFINE H == {i \in 0 .. L :
                   /\ Moves(w[i], w[i], 0)
                   /\ \A j \in 0 .. i : /\ u[i] - u[j] \in Nat
                                        /\ Moves(w[j], w[i], u[i] - u[j])}
<1>7. 0 \in H
  <2>1. Moves(w[0], w[0], 0)
    BY <1>1, <1>4 DEF Moves
  <2>2. u[0] - u[0] = 0 /\ 0 \in 0 .. L /\ \A j \in 0 .. 0 : j = 0
    BY <1>2, <1>6
  <2> QED
    BY <2>1, <2>2
<1>8. ASSUME NEW i \in 1 .. L, i - 1 \in H
      PROVE  i \in H
  <2>1. i - 1 \in 0 .. L /\ i \in 0 .. L
    BY <1>2
  <2>2. w[i - 1] \in MysqlBinding /\ w[i] \in MysqlBinding
    BY <1>1, <2>1
  <2> DEFINE k == Places(list[i], places)
  <2>3. k \in Nat /\ Moves(w[i - 1], w[i], k) /\ u[i] = u[i - 1] + k
    BY <1>1, <1>3, <1>6, <2>2
  <2> HIDE DEF k
  <2>4. Moves(w[i], w[i], 0)
    <3>1. w[i].at \in Nat
      BY <2>2 DEF MysqlBinding
    <3> QED
      BY <2>3, <3>1 DEF Moves
  <2>5. ASSUME NEW j \in 0 .. i
        PROVE  u[i] - u[j] \in Nat /\ Moves(w[j], w[i], u[i] - u[j])
    <3>1. u[i] \in Nat /\ u[j] \in Nat /\ u[i - 1] \in Nat /\ w[j] \in MysqlBinding
      <4>1. j \in 0 .. L
        BY <1>2
      <4> HIDE DEF L
      <4> QED
        BY <1>1, <1>6, <2>1, <4>1
    <3>2. CASE j = i
      <4>1. u[i] - u[j] = 0
        BY <3>1, <3>2
      <4> QED
        BY <2>4, <3>2, <4>1
    <3>3. CASE j # i
      <4>1. j \in 0 .. i - 1
        BY <3>3
      <4> DEFINE l == u[i - 1] - u[j]
      <4>2. l \in Nat /\ Moves(w[j], w[i - 1], l)
        BY <1>8, <4>1
      <4>3. u[i] - u[j] = l + k
        BY <2>3, <3>1
      <4> HIDE DEF l
      <4>4. Moves(w[j], w[i], l + k)
        BY <2>2, <2>3, <3>1, <4>2, MovesOn
      <4> QED
        BY <2>3, <4>2, <4>3, <4>4
    <3> QED
      BY <3>2, <3>3
  <2> QED
    BY <2>1, <2>4, <2>5
<1> HIDE DEF H, L
<1>9. \A i \in 0 .. L : i \in H
  BY <1>2, <1>7, <1>8, Onwards, Zenon
<1>10. \A i \in 0 .. L : \A j \in 0 .. i :
         u[i] - u[j] \in Nat /\ Moves(w[j], w[i], u[i] - u[j])
  BY <1>9 DEF H
<1> QED
  BY <1>6, <1>10 DEF L

\* Binds that are ahead of their places, and not past the last, are level with them.
LEMMA Level ==
  ASSUME NEW at \in Nat, NEW then \in Nat, NEW last \in Nat, NEW all \in Nat,
         NEW upTo \in Nat, NEW k \in Nat,
         1 + upTo <= at, at + k <= then, then + (all - (upTo + k)) <= last,
         last <= all + 1
  PROVE  at = upTo + 1 /\ then = at + k
OBVIOUS

\* Each list takes at least the binds for its places.
LEMMA MysqlMoves ==
  ASSUME NEW lists, AreLists(lists)
  PROVE  \A n \in 1 .. Len(lists) : \A b \in MysqlBinding :
           Moves(b, MysqlBinds(lists)[n][b], PlacesIn(lists)[n])
<1> DEFINE N == Len(lists)
           binds == MysqlBinds(lists)
           places == PlacesIn(lists)
           H == {n \in 1 .. N : \A b \in MysqlBinding : Moves(b, binds[n][b], places[n])}
<1>1. N \in Nat
  BY ListIs
<1>2. ASSUME NEW n \in 1 .. N
      PROVE  /\ lists[n] \in Seq(Clause) /\ Len(lists[n]) \in Nat
             /\ \A i \in 1 .. Len(lists[n]) :
                  lists[n][i].type = "NESTED" => lists[n][i].list \in 1 .. n - 1
  BY ListIs
<1>3. ASSUME NEW n \in 1 .. N
      PROVE  /\ BindsBindings(lists[n], binds)
             /\ \A b \in MysqlBinding :
                  /\ NoneLeft(b) => binds[n][b] = NoBind
                  /\ ~NoneLeft(b) =>
                       binds[n][b] = MysqlWalk(lists[n], b, binds)[Len(lists[n])]
  BY MysqlBindsIs
<1>4. ASSUME NEW n \in 1 .. N
      PROVE  /\ places[n] \in Nat
             /\ places[n] = PlacesUpTo(lists[n], places)[Len(lists[n])]
  BY PlacesInIs
<1> HIDE DEF N, binds, places
<1>5. ASSUME NEW n \in 1 .. N, \A m \in 1 .. n - 1 : m \in H
      PROVE  n \in H
  <2> DEFINE list == lists[n]
             L == Len(list)
  <2>1. list \in Seq(Clause) /\ BindsBindings(list, binds) /\ L \in Nat
    BY <1>2, <1>3
  <2>2. BindsMoves(list, binds, places)
    <3> SUFFICES ASSUME NEW i \in 1 .. L, list[i].type = "NESTED"
                 PROVE  /\ places[list[i].list] \in Nat
                        /\ \A b \in MysqlBinding :
                             Moves(b, binds[list[i].list][b], places[list[i].list])
      BY DEF BindsMoves
    <3>1. list[i].list \in 1 .. n - 1
      BY <1>2
    <3>2. list[i].list \in H /\ list[i].list \in 1 .. N
      BY <1>1, <1>5, <3>1
    <3> QED
      BY <1>4, <3>2
  <2>3. ASSUME NEW b \in MysqlBinding
        PROVE  Moves(b, binds[n][b], places[n])
    <3>1. CASE NoneLeft(b)
      BY <1>3, <3>1, NoBindIs DEF Moves
    <3>2. CASE ~NoneLeft(b)
      <4>1. PICK w : w = MysqlWalk(list, b, binds)
        OBVIOUS
      <4>2. PICK u : u = PlacesUpTo(list, places)
        OBVIOUS
      <4>3. binds[n][b] = w[L] /\ places[n] = u[L] /\ w[0] = b
        BY <1>3, <1>4, <2>1, <3>2, <4>1, <4>2, MysqlWalkIs
      <4> HIDE DEF list, H
      <4>4. /\ u \in [0 .. Len(list) -> Nat] /\ u[0] = 0
            /\ \A i \in 1 .. Len(list) : u[i] = u[i - 1] + Places(list[i], places)
            /\ \A i \in 0 .. Len(list) : \A j \in 0 .. i :
                 /\ u[i] - u[j] \in Nat
                 /\ Moves(w[j], w[i], u[i] - u[j])
        <5>1. Ahead(list, b, binds, places)
          BY <2>1, <2>2, <3>2, MysqlWalkMoves
        <5> QED
          BY <4>1, <4>2, <5>1 DEF Ahead
      <4>5. L \in 0 .. L /\ 0 \in 0 .. L
        BY <2>1
      <4>6. Moves(w[0], w[L], u[L] - u[0]) /\ u[L] \in Nat
        BY <4>4, <4>5
      <4> QED
        BY <4>3, <4>4, <4>6
    <3> QED
      BY <3>1, <3>2
  <2> QED
    BY <2>3
<1>6. \A n \in 1 .. N : n \in H
  <2>1. 1 \in Nat /\ N \in Int
    BY <1>1
  <2> HIDE DEF H
  <2> QED
    BY <1>5, <2>1, Upwards, Zenon
<1> QED
  BY <1>6 DEF N, binds, places

(***************************************************************************)
(* When the binds of MySQL succeed every clause of the list is a           *)
(* comparison, and each place of the statement has the value of its own    *)
(* clause.  bind_clause takes a bind for every clause, build_clause made   *)
(* one for every question mark, so that a list with a null test or another *)
(* list in it is always an error, and never a statement with values in the *)
(* places of other clauses.                                                *)
(***************************************************************************)
THEOREM MysqlPlacesFilled ==
  ASSUME NEW lists, AreLists(lists), lists # << >>, Binds("mysql", lists).ok
  PROVE  /\ \A i \in DOMAIN lists[Len(lists)] :
              lists[Len(lists)][i].type \in Comparisons
         /\ Binds("mysql", lists).bound \in Seq(Int)
         /\ Len(Binds("mysql", lists).bound) = PlacesOf(lists)
         /\ FilledIn("mysql", lists, Build(lists), Binds("mysql", lists).bound)
              [Len(lists)][0]
<1> DEFINE N == Len(lists)
           list == lists[N]
           L == Len(list)
           P == PlacesOf(lists)
           binds == MysqlBinds(lists)
           places == PlacesIn(lists)
           start == [ok |-> TRUE, at |-> 1, bound |-> [i \in 1 .. P |-> 0]]
           r == binds[N][start]
<1>1. N \in Nat /\ N > 0 /\ N \in 1 .. N
  <2>1. lists \in Seq(Seq(Clause))
    BY DEF AreLists
  <2> QED
    BY <2>1, EmptySeq
<1>2. Binds("mysql", lists) = r /\ r.ok
  BY DEF Binds
<1>3. P \in Nat /\ P = places[N] /\ P = PlacesUpTo(list, places)[L]
  BY <1>1, PlacesInIs DEF PlacesOf
<1>4. /\ list \in Seq(Clause) /\ L \in Nat /\ DOMAIN list = 1 .. L
      /\ \A i \in 1 .. L : list[i].type = "NESTED" => list[i].list \in 1 .. N - 1
  BY <1>1, ListIs
<1> HIDE DEF P
<1>5. start \in MysqlBinding /\ start.at = 1 /\ Len(start.bound) = P
  <2> DEFINE zeros == [i \in 1 .. P |-> 0]
  <2>1. zeros \in Seq(Int) /\ Len(zeros) = P
    BY <1>3
  <2> HIDE DEF zeros
  <2>2. start = [ok |-> TRUE, at |-> 1, bound |-> zeros]
    BY Zenon DEF zeros
  <2> HIDE DEF start
  <2> QED
    BY <2>1, <2>2 DEF MysqlBinding
<1> HIDE DEF start
<1>6. /\ BindsBindings(list, binds)
      /\ r \in MysqlBinding
      /\ NoneLeft(start) => r = NoBind
      /\ ~NoneLeft(start) => r = MysqlWalk(list, start, binds)[L]
  BY <1>1, <1>5, MysqlBindsIs
<1>7. BindsMoves(list, binds, places)
  <2> SUFFICES ASSUME NEW i \in 1 .. L, list[i].type = "NESTED"
               PROVE  /\ places[list[i].list] \in Nat
                      /\ \A b \in MysqlBinding :
                           Moves(b, binds[list[i].list][b], places[list[i].list])
    BY DEF BindsMoves
  <2>1. list[i].list \in 1 .. N
    BY <1>1, <1>4
  <2>2. places[list[i].list] \in Nat
    BY <2>1, PlacesInIs
  <2> QED
    BY <2>1, <2>2, MysqlMoves
<1>8. /\ DOMAIN lists = 1 .. N
      /\ \A i \in 1 .. L :
           Build(lists)[N][i].before = PlacesUpTo(list, places)[i - 1]
  BY <1>1, ListIs, BuildIs
<1>9. ~NoneLeft(start)
  BY <1>2, <1>6, NoBindIs
<1> HIDE DEF list, binds, places, r
<1>10. PICK w : w = MysqlWalk(list, start, binds)
  OBVIOUS
<1>11. PICK u : u = PlacesUpTo(list, places)
  OBVIOUS
<1>12. /\ u \in [0 .. Len(list) -> Nat] /\ u[0] = 0
       /\ \A i \in 1 .. Len(list) : u[i] = u[i - 1] + Places(list[i], places)
       /\ \A i \in 0 .. Len(list) : \A j \in 0 .. i :
            /\ u[i] - u[j] \in Nat
            /\ Moves(w[j], w[i], u[i] - u[j])
  <2> HIDE DEF L, N
  <2>1. list \in Seq(Clause) /\ start \in MysqlBinding /\ BindsBindings(list, binds)
    BY <1>4, <1>5, <1>6
  <2>2. Ahead(list, start, binds, places)
    BY <1>7, <1>9, <2>1, MysqlWalkMoves
  <2> QED
    BY <1>10, <1>11, <2>2 DEF Ahead
<1>13. /\ w \in [0 .. L -> MysqlBinding] /\ w[0] = start
       /\ \A i \in 1 .. L : w[i] = MysqlTakes(list[i], w[i - 1], binds)
  BY <1>4, <1>5, <1>6, <1>10, MysqlWalkIs
<1>14. r = w[L] /\ u[L] = P
  BY <1>3, <1>6, <1>9, <1>10, <1>11
<1>15. \A i \in 1 .. L : \A b \in MysqlBinding :
         /\ Places(list[i], places) \in Nat
         /\ list[i].type \in Comparisons =>
              /\ Moves(b, MysqlTakes(list[i], b, binds), Places(list[i], places))
              /\ MysqlTakes(list[i], b, binds).ok =>
                   /\ b.at \in 1 .. Len(b.bound)
                   /\ MysqlTakes(list[i], b, binds).at = b.at + 1
                   /\ MysqlTakes(list[i], b, binds).bound[b.at]
                        = MysqlBind(list[i].value)
         /\ list[i].type \notin Comparisons =>
              Moves(b, MysqlTakes(list[i], b, binds), Places(list[i], places) + 1)
  BY <1>4, <1>6, <1>7, MysqlTakesMoves
<1> HIDE DEF L
<1>16. L \in 0 .. L /\ 0 \in 0 .. L
  BY <1>4
<1>17. Moves(start, r, P)
  <2>1. Moves(w[0], w[L], u[L] - u[0])
    BY <1>12, <1>16 DEF L
  <2> QED
    BY <1>3, <1>12, <1>13, <1>14, <2>1
<1>18. Len(r.bound) = P /\ r.at <= P + 1 /\ r.at \in Nat /\ r.bound \in Seq(Int)
  BY <1>2, <1>5, <1>6, <1>17 DEF Moves, MysqlBinding
<1>19. ASSUME NEW i \in 1 .. L
       PROVE  /\ list[i].type \in Comparisons
              /\ u[i - 1] + 1 \in 1 .. P
              /\ r.bound[u[i - 1] + 1] = MysqlBind(list[i].value)
  <2>1. i - 1 \in 0 .. L /\ i \in 0 .. L /\ i - 1 \in 0 .. i /\ i \in 0 .. L
    BY <1>4
  <2> DEFINE b == w[i - 1]
             s == w[i]
             k == Places(list[i], places)
  <2>2. b \in MysqlBinding /\ s \in MysqlBinding
    BY <1>13, <2>1
  <2>3. /\ b.at \in Nat /\ s.at \in Nat
        /\ Len(b.bound) \in Nat /\ Len(s.bound) \in Nat
    BY <2>2 DEF MysqlBinding
  <2>4. s = MysqlTakes(list[i], b, binds)
    BY <1>13
  <2>5. /\ u[i - 1] \in Nat /\ u[i] \in Nat /\ u[i] = u[i - 1] + k
    BY <1>12, <2>1 DEF L
  <2>6. /\ k \in Nat
        /\ list[i].type \in Comparisons /\ s.ok =>
             /\ b.at \in 1 .. Len(b.bound) /\ s.at = b.at + 1
             /\ s.bound[b.at] = MysqlBind(list[i].value)
        /\ list[i].type \notin Comparisons => Moves(b, s, k + 1)
    BY <1>15, <2>2, <2>4
  <2>7. /\ u[L] - u[i] \in Nat /\ Moves(s, w[L], u[L] - u[i])
        /\ Moves(b, s, u[i] - u[i - 1])
        /\ Moves(w[0], b, u[i - 1] - u[0])
    <3>1. i \in 0 .. L /\ 0 \in 0 .. i - 1 /\ L \in 0 .. L
      BY <1>4
    <3>2. Moves(w[0], b, u[i - 1] - u[0])
      BY <1>12, <2>1, <3>1 DEF L
    <3>3. Moves(b, s, u[i] - u[i - 1])
      BY <1>12, <2>1 DEF L
    <3>4. u[L] - u[i] \in Nat /\ Moves(s, w[L], u[L] - u[i])
      BY <1>12, <3>1 DEF L
    <3> QED
      BY <3>2, <3>3, <3>4
  <2> HIDE DEF b, s, k
  <2>8. s.ok /\ s.at + (P - u[i]) <= r.at /\ Len(s.bound) = P
        /\ \A j \in 1 .. s.at - 1 : r.bound[j] = s.bound[j]
    BY <1>2, <1>14, <1>18, <2>7 DEF Moves
  <2>9. b.ok /\ b.at >= 1 + u[i - 1] /\ b.at + k <= s.at /\ Len(b.bound) = P
    <3>1. b.ok /\ b.at + (u[i] - u[i - 1]) <= s.at /\ Len(s.bound) = Len(b.bound)
      BY <2>7, <2>8 DEF Moves
    <3>2. 1 + (u[i - 1] - u[0]) <= b.at
      BY <1>5, <1>13, <2>7, <3>1 DEF Moves
    <3>3. u[i - 1] - u[0] = u[i - 1] /\ u[i] - u[i - 1] = k
      BY <1>12, <2>5, <2>6
    <3> QED
      BY <2>3, <2>5, <2>8, <3>1, <3>2, <3>3
  <2>13. b.at = u[i - 1] + 1 /\ s.at = b.at + k
    <3> DEFINE at == b.at
               then == s.at
               last == r.at
               upTo == u[i - 1]
    <3>1. /\ at \in Nat /\ then \in Nat /\ last \in Nat /\ P \in Nat
          /\ upTo \in Nat /\ k \in Nat
      BY <1>3, <1>18, <2>3, <2>5, <2>6
    <3>2. then + (P - (upTo + k)) <= last
      BY <2>5, <2>8
    <3>3. last <= P + 1 /\ at + k <= then
      BY <1>18, <2>9
    <3>4. at >= 1 + upTo
      BY <2>9
    <3> HIDE DEF at, then, last, upTo
    <3>5. 1 + upTo <= at
      BY <3>1, <3>4
    <3>6. at = upTo + 1 /\ then = at + k
      BY <3>1, <3>2, <3>3, <3>5, Level
    <3> QED
      BY <3>6 DEF at, then, upTo
  <2>10. list[i].type \in Comparisons
    <3> SUFFICES ASSUME list[i].type \notin Comparisons PROVE FALSE
      OBVIOUS
    <3>1. b.at + (k + 1) <= s.at
      BY <2>6, <2>8 DEF Moves
    <3>2. k \in Nat
      BY <2>6
    <3> QED
      BY <2>3, <2>13, <3>1, <3>2
  <2>11. b.at \in 1 .. P /\ s.at = b.at + 1 /\ s.bound[b.at] = MysqlBind(list[i].value)
    BY <2>6, <2>8, <2>9, <2>10
  <2>12. b.at \in 1 .. s.at - 1
    BY <2>3, <2>11
  <2> QED
    BY <2>8, <2>10, <2>11, <2>12, <2>13
<1>20. FilledIn("mysql", lists, Build(lists), r.bound)[N][0]
  <2> DEFINE filled == FilledIn("mysql", lists, Build(lists), r.bound)
             conditions == Build(lists)[N]
  <2>1. ASSUME NEW i \in 1 .. L
        PROVE  InPlace("mysql", list[i], conditions[i], filled, 0, r.bound)
    <3> DEFINE c == list[i]
               place == 0 + conditions[i].before + 1
    <3>1. c \in Clause
      BY <1>4 DEF L
    <3>2. conditions[i].before = u[i - 1]
      BY <1>8, <1>11
    <3>3. u[i - 1] + 1 \in 1 .. P /\ r.bound[u[i - 1] + 1] = MysqlBind(c.value)
      BY <1>19
    <3>4. u[i - 1] \in Nat
      <4>1. i - 1 \in 0 .. L
        BY <1>4
      <4> QED
        BY <1>12, <4>1 DEF L
    <3>5. DOMAIN r.bound = 1 .. P
      BY <1>18
    <3> HIDE DEF conditions, c
    <3>6. place = u[i - 1] + 1
      BY <3>2, <3>4
    <3>7. MysqlBind(c.value) = Stored("mysql", c.value)
      BY DEF Stored
    <3>8. place \in DOMAIN r.bound /\ r.bound[place] = Stored("mysql", c.value)
      BY <3>3, <3>5, <3>6, <3>7
    <3>9. c.type \in Comparisons
      BY <1>19 DEF c
    <3> HIDE DEF filled
    <3> QED
      BY <3>1, <3>8, <3>9, InPlaceIs, Zenon DEF place, c
  <2>2. N \in DOMAIN lists /\ 0 \in Nat
    BY <1>1, <1>8
  <2> HIDE DEF N
  <2>3. filled[N][0] <=> \A i \in DOMAIN lists[N] :
          InPlace("mysql", lists[N][i], Build(lists)[N][i], filled, 0, r.bound)
    BY <2>2, FilledIs, Zenon
  <2> QED
    BY <1>4, <2>1, <2>3 DEF list
<1>21. \A i \in DOMAIN lists[N] : lists[N][i].type \in Comparisons
  BY <1>4, <1>19 DEF list
<1> QED
  BY <1>2, <1>18, <1>20, <1>21 DEF P

=============================================================================
