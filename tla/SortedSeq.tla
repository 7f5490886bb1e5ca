----------------------------- MODULE SortedSeq -----------------------------
(***************************************************************************)
(* What a sorted file promises (sort.h): the records of the source, each   *)
(* once, in the order of their values, one with each call of next, and a   *)
(* position that the caller can return to: from a mark, the record that    *)
(* was returned last is returned again.                                    *)
(***************************************************************************)
EXTENDS Integers, Sequences

VARIABLES
  total,  \* how many records the source has
  comes,  \* the pairs of them of which the first may come before the second
  order,  \* the records in order, <<>> until they have been sorted
  place,  \* the place of the record that is returned next
  last,   \* the place that a mark remembers: of the record returned last
  mark,   \* the place at the mark
  given   \* what has been returned last: a record, 0 for FILEEOF

svars == <<total, comes, order, place, last, mark, given>>

Sorted ==
  LET pairs == comes
  IN  {o \in [1 .. total -> 1 .. total] :
         \A i, j \in 1 .. total : i < j => o[i] # o[j] /\ <<o[i], o[j]>> \in pairs}

Init ==
  /\ total \in Nat /\ comes \subseteq (1 .. total) \X (1 .. total)
  /\ order = <<>> /\ place = 1 /\ last = 0 /\ mark = 0 /\ given = -1

Sort ==
  /\ order = <<>>
  /\ order' \in Sorted
  /\ UNCHANGED <<place, last, mark, given>>

Ready == Len(order) = total

(* The next record, or FILEEOF again and again. *)
NextRecord ==
  /\ Ready
  /\ IF place <= Len(order) THEN given' = order[place] /\ place' = place + 1
                           ELSE given' = 0 /\ UNCHANGED place
  /\ last' = place
  /\ UNCHANGED <<order, mark>>

SetMark ==
  /\ Ready
  /\ mark' = last
  /\ UNCHANGED <<order, place, last, given>>

(* Before the first record there is no place to return to. *)
GotoMark ==
  /\ mark # 0
  /\ place' = mark /\ last' = mark
  /\ UNCHANGED <<order, mark, given>>

(* It fails, or is deleted. *)
Close ==
  /\ order' = <<>> /\ place' = 1 /\ last' = 0 /\ mark' = 0 /\ given' = -1

Next == (Sort \/ NextRecord \/ SetMark \/ GotoMark \/ Close) /\ UNCHANGED <<total, comes>>

Spec == Init /\ [][Next]_svars
=============================================================================
