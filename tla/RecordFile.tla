----------------------------- MODULE RecordFile -----------------------------
(***************************************************************************)
(* What a heap file promises: records are kept under record ids, one at a  *)
(* time is inserted, changed or deleted, and the file knows how many there *)
(* are.  There are no pages here.                                          *)
(***************************************************************************)
EXTENDS FiniteSets, Naturals

CONSTANTS Rids,      \* the record ids
          Values     \* what a record can hold

VARIABLES recs,      \* record id -> its record, for the records of the file
          count      \* what getRecCnt returns

Init == recs = [r \in {} |-> 0] /\ count = 0

Insert(r, v) == /\ r \notin DOMAIN recs
                /\ recs' = [q \in DOMAIN recs \cup {r} |-> IF q = r THEN v ELSE recs[q]]
                /\ count' = count + 1

Change(r, v) == /\ r \in DOMAIN recs
                /\ recs' = [recs EXCEPT ![r] = v]
                /\ UNCHANGED count

Delete(r) == /\ r \in DOMAIN recs
             /\ recs' = [q \in DOMAIN recs \ {r} |-> recs[q]]
             /\ count' = count - 1

Next == \E r \in Rids : Delete(r) \/ \E v \in Values : Insert(r, v) \/ Change(r, v)

Spec == Init /\ [][Next]_<<recs, count>>
=============================================================================
