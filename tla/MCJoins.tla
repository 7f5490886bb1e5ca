------------------------------ MODULE MCJoins ------------------------------
(* Ints of two bits: 1 and -2 have no difference.  Floats: 0, 1/2, 1.      *)
EXTENDS Joins

Value == [t \in Types |-> CASE t = "INTEGER" -> {-2, -1, 1} [] t = "FLOAT" -> {0, 1, 2} [] t = "STRING" -> {1, 2}]

Relations(t, size) == UNION {[1 .. n -> Value[t]] : n \in 0 .. size}

Of(method, op, t, outers, inners, blocks) ==
  [method : {method}, op : {op}, type : {t}, outer : outers, inner : inners, block : blocks, self : {FALSE}]

(* Three inner tuples make two runs.  Blocks may be full, or not.  A join  *)
(* may be one of a relation with itself.  Where the operator is not one of *)
(* the method, one tuple will do.                                          *)
OfType(t) ==
  LET small == Relations(t, 1)
      all   == Relations(t, 2)
  IN  UNION {Of("NL", op, t, all, all, {1}) : op \in Ops}
      \cup Of("SM", "EQ", t, all, Relations(t, 3), {1})
      \cup Of("HJ", "EQ", t, all, all, {1, 2})
      \cup Of("HJ", "EQ", t, {<<>>}, small, {0})
      \cup Of("SM", "LT", t, small, small, {1}) \cup Of("HJ", "LT", t, small, small, {1})
      \cup {[q EXCEPT !.self = TRUE, !.inner = q.outer] :
              q \in UNION {Of(method, "EQ", t, all, {<<>>}, {2}) : method \in {"NL", "SM", "HJ"}}}

Some == UNION {OfType(t) : t \in Types}
=============================================================================
