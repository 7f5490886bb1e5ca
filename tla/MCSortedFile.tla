---------------------------- MODULE MCSortedFile ----------------------------
(* -2 and 1 are too far from each other for ints of two bits. *)
EXTENDS SortedFile

Keys == [t \in Types |-> CASE t = "INTEGER" -> {-2, -1, 1} [] t = "FLOAT" -> {0, 1} [] t = "STRING" -> {2}]
=============================================================================
