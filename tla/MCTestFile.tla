----------------------------- MODULE MCTestFile -----------------------------
(* The lengths of variable records repeat after three.                     *)
EXTENDS TestFile

Repeating == {[k \in 0 .. Num - 1 |-> b[k % 3]] : b \in [0 .. 2 -> 3 .. 4]}
=============================================================================
