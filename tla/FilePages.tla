----------------------------- MODULE FilePages -----------------------------
(***************************************************************************)
(* What a file promises about its pages: a page that is given out is not   *)
(* in use, free pages are given out before the file grows, and the first   *)
(* page stays.  BufMgr.tla relies on a file of this kind.                  *)
(***************************************************************************)
EXTENDS Integers

CONSTANT MaxPages     \* bound: pages of the file, its header not counted

VARIABLES numPages,   \* pages of the file, with its header
          free        \* those that can be given out again

Init == numPages = 1 /\ free = {}

Take(p) == /\ p \in free
           /\ free' = free \ {p}
           /\ UNCHANGED numPages

Grow == /\ free = {}
        /\ numPages <= MaxPages
        /\ numPages' = numPages + 1
        /\ UNCHANGED free

GiveBack(p) == /\ p \in 2 .. numPages - 1
               /\ p \notin free
               /\ free' = free \cup {p}
               /\ UNCHANGED numPages

Next == Grow \/ \E p \in 1 .. MaxPages : Take(p) \/ GiveBack(p)

Spec == Init /\ [][Next]_<<numPages, free>>
=============================================================================
