----------------------------- MODULE MCHeapFile -----------------------------
(* Small heap files with the objects that callers open on them. *)
EXTENDS HeapFile, TLC

None       == {}
Everything == {Values}
EachValue  == {{v} : v \in Values}
AllButAlloc == DepartureKinds \ {"alloc fails", "long record"}
SameScans  == Permutations(Scans)
SameValues == Permutations(Values)
Unlucky    == {"alloc fails", "long record"}
=============================================================================
