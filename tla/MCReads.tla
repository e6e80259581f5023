------------------------------ MODULE MCReads ------------------------------
(* Reads for TLC: three bits for short and four for long integers.         *)
EXTENDS Reads, TLC

MCSamples ==
  [k \in Kinds |->
     CASE k = "INT32"  -> {-4, 3}
       [] k = "UINT32" -> {3, 4}
       [] k = "INT64"  -> {-8, 7}
       [] k = "UINT64" -> {7, 8}
       [] k = "TEXT"   -> {1, 2}
       [] k = "ENUM"   -> {0, 2, 3}]

MCMaxClauses == [k \in Kinds |-> IF k = "INT32" THEN 2 ELSE 1]
MCMaxLists == [k \in Kinds |-> IF k = "INT32" THEN 2 ELSE 3]

MCValue == [type : Types, val : Int]
MCRow == [key : MCValue, field : MCValue]

Lists == Permutations(List)

=============================================================================
