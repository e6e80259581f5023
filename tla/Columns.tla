------------------------------ MODULE Columns ------------------------------
(***************************************************************************)
(* What becomes of a value on its way into the database and back: the bind *)
(* of a statement or the member of a document, the column or member that   *)
(* is stored, the value a result gets of it, and the field of a generated  *)
(* object that is set from the result.                                     *)
(***************************************************************************)
EXTENDS Values

Backends == {"sqlite", "mysql", "couchdb"}

\* The types a field of a generated object can have besides its keys.
Kinds == {"INT32", "UINT32", "INT64", "UINT64", "TEXT", "ENUM"}

\* An unsigned integer that is assigned to a signed one of the same width, and
\* back.
AsSigned(n, half) == IF n < half THEN n ELSE n - 2 * half
AsUnsigned(n, half) == IF n < 0 THEN n + 2 * half ELSE n

\* sqlite3_column_int keeps the lower half of the integer.
Narrow(n) ==
  IF n \in Domain("INT32") THEN n
  ELSE ((n + Half32) % (2 * Half32)) - Half32

\* Mutant: the value of an unsigned field is bound with too few bits.
BindNarrow(value) ==
  IF value.type = "UINT64" THEN Narrow(value.val) ELSE value.val

\* The integer sqlite3_bind_int or sqlite3_bind_int64 is given for a value.
SqliteBind(value) ==
  CASE value.type = "UINT32" -> AsSigned(value.val, Half32)
    [] value.type = "UINT64" -> AsSigned(value.val, Half64)
    [] OTHER                 -> value.val

\* A MYSQL_BIND says whether its number has a sign.
MysqlBind(value) == value.val

\* json_integer takes a signed long long.
CouchMember(value) ==
  IF value.type = "UINT64" THEN AsSigned(value.val, Half64) ELSE value.val

\* What the database keeps of a value.
Stored(backend, value) ==
  CASE backend = "sqlite"  -> SqliteBind(value)
    [] backend = "mysql"   -> MysqlBind(value)
    [] backend = "couchdb" -> CouchMember(value)

----------------------------------------------------------------------------
(* The value a result is given for a column, by the type of its field      *)

SqliteColumn(kind, stored) ==
  CASE kind \in {"INT32", "ENUM"} -> From(Empty, "INT32", Narrow(stored))
    [] kind = "UINT32" ->
         From(Empty, "UINT32", AsUnsigned(Narrow(stored), Half32))
    [] kind = "UINT64" -> From(Empty, "UINT64", AsUnsigned(stored, Half64))
    [] OTHER           -> From(Empty, kind, stored)

\* The buffer a column is fetched into has the type and the sign of the field.
MysqlBuffer(kind) == IF kind = "ENUM" THEN "INT32" ELSE kind

MysqlColumn(kind, stored) == From(Empty, MysqlBuffer(kind), stored)

\* Every number of a document becomes an int64.
CouchColumn(kind, stored) ==
  From(Empty, IF kind = "TEXT" THEN "TEXT" ELSE "INT64", stored)

Column(backend, kind, stored) ==
  CASE backend = "sqlite"  -> SqliteColumn(kind, stored)
    [] backend = "mysql"   -> MysqlColumn(kind, stored)
    [] backend = "couchdb" -> CouchColumn(kind, stored)

\* The primary key: a signed int, an unsigned BIGINT, the id of a document.
KeyColumn(backend, key) ==
  CASE backend = "sqlite"  -> From(Empty, "INT32", Narrow(key))
    [] backend = "mysql"   -> From(Empty, "UINT64", key)
    [] backend = "couchdb" -> From(Empty, "TEXT", key)

\* The _from_result of a generated object.
FieldFrom(kind, value) ==
  IF kind = "ENUM" THEN ToEnumValue(value) ELSE To(value, kind)

\* The value set the _create of a generated object makes of a field.
FieldValue(kind, n) ==
  IF kind = "ENUM" THEN FromEnumValue(Empty, n) ELSE From(Empty, kind, n)

=============================================================================
