----------------------------- MODULE MCTestBuf ------------------------------
(* File objects that share chains.  The pages of obj4, at a negative int,  *)
(* hash into the table; page 1 of obj5 does not, and page 3 of obj6 is     *)
(* past the largest int.                                                   *)
EXTENDS TestBuf

CONSTANTS obj1, obj2, obj3, obj4, obj5, obj6

Objects   == {obj1, obj2, obj3, obj4, obj5, obj6}
Addresses == [f \in Objects |-> CASE f = obj1 -> 0 [] f = obj2 -> 1 [] f = obj3 -> 2
                                   [] f = obj4 -> -1 [] f = obj5 -> -3 [] OTHER -> MaxInt - 2]

Places == {[f \in Names |-> CASE f = file1 -> obj1 [] f = file2 -> b [] f = file3 -> obj3 [] OTHER -> obj4] :
             b \in {obj2, obj5, obj6}}
=============================================================================
