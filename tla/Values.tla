------------------------------- MODULE Values -------------------------------
(***************************************************************************)
(* The values of libdbo_value.c.  A value has a type and a number: of a    *)
(* text that is its place in the order of strcmp, and the text that names  *)
(* an enumerator has the enumerator's number.                              *)
(***************************************************************************)
EXTENDS Integers

CONSTANTS
  Half32,        \* 2^31: the number of negative values of an int32
  Half64,        \* 2^63
  EnumSet        \* the enumerators of the program's libdbo_enum_t

ASSUME HalvesType == Half32 \in Nat \ {0} /\ Half64 \in Nat /\ Half32 < Half64
ASSUME EnumSetType == EnumSet \subseteq 0 .. Half32 - 1

Types == {"EMPTY", "INT32", "UINT32", "INT64", "UINT64", "TEXT", "ENUM"}

Empty == [type |-> "EMPTY", val |-> 0]

\* Returned where the code returns LIBDBO_ERROR_UNKNOWN.
Error == [type |-> "ERROR", val |-> 0]

\* The numbers that fit the C type of a value.
Domain(type) ==
  CASE type = "INT32"  -> -Half32 .. Half32 - 1
    [] type = "UINT32" -> 0 .. 2 * Half32 - 1
    [] type = "INT64"  -> -Half64 .. Half64 - 1
    [] type = "UINT64" -> 0 .. 2 * Half64 - 1
    [] type = "TEXT"   -> Nat
    [] type = "ENUM"   -> EnumSet
    [] OTHER           -> {0}

----------------------------------------------------------------------------
(* Setting, copying and reading a value                                    *)

\* libdbo_value_from_*: only an empty value can be set.
From(value, type, n) ==
  IF value = Empty THEN [type |-> type, val |-> n] ELSE Error

\* Mutant: the number of an enumeration is not looked up.
FromAnyNumber(value, n) == From(value, "ENUM", n)

FromEnumValue(value, n) ==
  IF n \in EnumSet THEN From(value, "ENUM", n) ELSE Error

\* libdbo_value_copy
Copy(to, from) ==
  IF to = Empty /\ from # Empty THEN from ELSE Error

\* libdbo_value_to_*: there is no conversion, the type must be the one asked for.
To(value, type) == IF value.type = type THEN value ELSE Error

\* libdbo_value_to_enum_value
ToEnumValue(value) ==
  IF value.type \in {"ENUM", "TEXT", "INT32"} /\ value.val \in EnumSet
  THEN [type |-> "ENUM", val |-> value.val]
  ELSE Error

----------------------------------------------------------------------------
(* Comparing values                                                        *)

\* Whether libdbo_value_cmp has a result for two values.
Comparable(a, b) ==
  \/ "EMPTY" \in {a.type, b.type}
  \/ a.type = b.type
  \/ {a.type, b.type} \in {{"INT32", "INT64"}, {"UINT32", "UINT64"}}

\* What libdbo_value_cmp sets *result to (strcmp may set it to any number of
\* the same sign).
Cmp(a, b) ==
  CASE a.type = "EMPTY" /\ b.type = "EMPTY" -> 0
    [] a.type = "EMPTY" /\ b.type # "EMPTY" -> -1
    [] a.type # "EMPTY" /\ b.type = "EMPTY" -> 1
    [] OTHER -> IF a.val < b.val THEN -1 ELSE IF a.val > b.val THEN 1 ELSE 0

=============================================================================
