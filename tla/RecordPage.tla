----------------------------- MODULE RecordPage -----------------------------
(***************************************************************************)
(* What a data page promises: records are kept under slot numbers.  A slot *)
(* number names the same record from its insertion to its deletion.        *)
(***************************************************************************)
CONSTANTS SlotNos,    \* the numbers a slot can have
          Records     \* the records

VARIABLE recs         \* slot number -> its record, for the slots in use

Init == recs = [s \in {} |-> 0]

Insert(s, r) == /\ s \notin DOMAIN recs
                /\ recs' = [t \in DOMAIN recs \cup {s} |-> IF t = s THEN r ELSE recs[t]]

Delete(s) == /\ s \in DOMAIN recs
             /\ recs' = [t \in DOMAIN recs \ {s} |-> recs[t]]

Next == \E s \in SlotNos : Delete(s) \/ \E r \in Records : Insert(s, r)

Spec == Init /\ [][Next]_recs
=============================================================================
