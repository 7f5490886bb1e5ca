------------------------------ MODULE Compare ------------------------------
(***************************************************************************)
(* How the values of attributes are compared: by the filter of a scan      *)
(* (heapfile.C), by the sort (sort.C), by the merge (join.C), and by the   *)
(* hash table of the hash join (joinHT.C).  They do not always agree.      *)
(*                                                                         *)
(* An INTEGER is an int of WordSize bits.  A FLOAT is a number of halves.  *)
(* A STRING is its place in the order of strings; one in Full fills its    *)
(* attribute, so that no terminator follows.                               *)
(***************************************************************************)
EXTENDS Integers

CONSTANTS
  WordSize,  \* bits of an int
  Full       \* the strings that fill their attribute

ASSUME WordAssumption == WordSize \in Nat \ {0} /\ Full \subseteq Int

Types == {"INTEGER", "FLOAT", "STRING"}
Ops   == {"LT", "LTE", "EQ", "GTE", "GT", "NE"}

(* The ints, and the one that is left of a number. *)
Half    == 2^(WordSize - 1)
Ints    == -Half .. Half - 1
Wrap(n) == ((n + Half) % (2 * Half)) - Half

Sign(n) == IF n < 0 THEN -1 ELSE IF n > 0 THEN 1 ELSE 0
Magnitude(n) == IF n < 0 THEN -n ELSE n

(* The conversion of n / m to an int, and C's % .                          *)
Truncated(n, m) == Sign(n) * (Magnitude(n) \div m)
Remainder(n, m) == Sign(n) * (Magnitude(n) % m)

(* A condition. *)
Holds(diff, op) ==
  CASE op = "LT"  -> diff < 0
    [] op = "LTE" -> diff <= 0
    [] op = "EQ"  -> diff = 0
    [] op = "GTE" -> diff >= 0
    [] op = "GT"  -> diff > 0
    [] op = "NE"  -> diff # 0

(* reccmp: the difference of two ints is an int.                           *)
RecCmp(type, a, b) == Sign(IF type = "INTEGER" THEN Wrap(a - b) ELSE a - b)

(* HeapFileScan::matchRec: the same difference, and strncmp. *)
Filtered(type, op, attr, filter) == Holds(RecCmp(type, attr, filter), op)

(* matchRec of join.C: the difference of two floats is made an int, and    *)
(* strcmp goes on behind two equal strings that fill their attributes.     *)
MatchRec(type, a, b) ==
  CASE type = "INTEGER" -> {Wrap(a - b)}
    [] type = "FLOAT"   -> {Truncated(a - b, 2)}
    [] type = "STRING"  -> IF a = b /\ a \in Full THEN {-1, 0, 1} ELSE {Sign(a - b)}

(* joinHashTbl::hash.  That of a string that fills its attribute takes in  *)
(* what follows.                                                           *)
Hashes(type, a, size) ==
  CASE type = "INTEGER" -> {Magnitude(Remainder(Wrap(a * size * 31), size))}
    [] type = "FLOAT"   -> {Magnitude(Remainder(Truncated(a * size * 31, 2), size))}
    [] type = "STRING"  -> IF a \in Full THEN 0 .. size - 1 ELSE {Magnitude(Remainder(a, size))}
=============================================================================
