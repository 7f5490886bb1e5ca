------------------------------- MODULE Joins -------------------------------
(***************************************************************************)
(* QU_Join of phase 5 (join.C, joinHT.C; phase 6 has the nested loops      *)
(* alone): the join of two relations by nested loops, by sorting and       *)
(* merging, or by hashing blocks of the outer relation.                    *)
(*                                                                         *)
(* A tuple is its place in its relation; the query gives the values of the *)
(* attributes that are compared.  A pair in the result stands for a tuple  *)
(* made of the attributes of both.  The result is neither of the two       *)
(* relations.                                                              *)
(***************************************************************************)
EXTENDS SortRuns

CONSTANTS
  Queries,     \* the joins
  MaxItems,    \* how many tuples a sort has in memory
  Creates,     \* whether an InsertFileScan creates its file, as sort.C expects
  MaxTroubles  \* bound: calls that fail

(* self: the two relations are one.  block: how many outer tuples a block  *)
(* has, 0 if they are too wide for a page (and there are none).            *)
ASSUME QueriesAssumption ==
  \A q \in Queries : /\ q.method \in {"NL", "SM", "HJ"} /\ q.type \in Types /\ q.op \in Ops
                     /\ q.outer \in Seq(Int) /\ q.inner \in Seq(Int)
                     /\ q.type = "INTEGER" => q.outer \in Seq(Ints) /\ q.inner \in Seq(Ints)
                     /\ q.block \in Nat /\ (q.block = 0 => q.outer = <<>>)
                     /\ q.self \in BOOLEAN
ASSUME ItemsAssumption == MaxItems \in Nat \ {0, 1} /\ Creates \subseteq BOOLEAN

VARIABLES
  query,
  creates,
  pc,          \* what is done next, "done" or "dead"
  outerRec,    \* the outer tuple, 0 before the first
  innerRec,    \* the inner tuple, 0 before the first
  table,       \* the hash table: buckets and the tuples in them
  endOfOuter,
  sorted1, sorted2,  \* the runs of the two relations
  astray,      \* gotoMark has failed
  result,      \* how often a pair is in the result
  status,      \* what is returned
  troubles

inputs == <<query, creates>>
hashed == <<table, endOfOuter>>
sorted == <<sorted1, sorted2, astray>>
vars == <<inputs, pc, outerRec, innerRec, hashed, sorted, result, status, troubles>>

type  == query.type
outer == query.outer
inner == query.inner

(* QU_Join. *)
Algorithm(q) == IF q.method = "HJ" /\ q.op # "EQ" THEN "NL" ELSE q.method

(* joinHashTbl: the constructor, and insert.                               *)
EmptyTable == {}
WithEntry(h, i) == table \cup {<<h, i>>}

Init ==
  /\ query \in Queries
  /\ creates \in Creates /\ (Algorithm(query) = "SM" \/ creates)
  /\ pc = CASE Algorithm(query) = "NL" -> "outer"
            [] Algorithm(query) = "SM" -> "sortOuter"
            [] Algorithm(query) = "HJ" -> "fill"
  /\ outerRec = 0 /\ innerRec = 0
  /\ table = EmptyTable /\ endOfOuter = FALSE
  /\ sorted1 = <<>> /\ sorted2 = <<>> /\ astray = FALSE
  /\ result = [pair \in (DOMAIN outer) \X (DOMAIN inner) |-> 0]
  /\ status = "OK"
  /\ troubles = 0

(* An attribute is taken from the outer tuple if it is of the relation of  *)
(* that name.                                                              *)
Pair(i, j) == <<i, IF query.self THEN i ELSE j>>

Output(pairs) == result' = [p \in DOMAIN result |-> IF p \in pairs THEN result[p] + 1 ELSE result[p]]

Trouble == troubles < MaxTroubles /\ troubles' = troubles + 1

Return(s) == pc' = "done" /\ status' = s
-----------------------------------------------------------------------------
(* QU_NL_Join.                                                             *)

(* The same condition, for the scan of the inner relation. *)
Flipped(op) ==
  CASE op = "GT" -> "LT" [] op = "GTE" -> "LTE" [] op = "LT" -> "GT" [] op = "LTE" -> "GTE"
    [] OTHER -> op

NextOuter ==
  /\ pc = "outer"
  /\ IF outerRec < Len(outer)
     THEN outerRec' = outerRec + 1 /\ innerRec' = 0 /\ pc' = "inner" /\ UNCHANGED status
     ELSE Return("OK") /\ UNCHANGED <<outerRec, innerRec>>
  /\ UNCHANGED <<inputs, hashed, sorted, result, troubles>>

(* A filtered scan. *)
NextInner ==
  /\ pc = "inner"
  /\ LET found == {j \in DOMAIN inner :
                     j > innerRec /\ Filtered(type, Flipped(query.op), inner[j], outer[outerRec])}
     IN  IF found = {} THEN pc' = "outer" /\ UNCHANGED <<innerRec, result>>
         ELSE /\ innerRec' = CHOOSE j \in found : \A k \in found : j <= k
              /\ Output({Pair(outerRec, innerRec')})
              /\ UNCHANGED pc
  /\ UNCHANGED <<inputs, outerRec, hashed, sorted, status, troubles>>

(* What is not OK is taken for the end of a relation; a scan of the inner  *)
(* one that cannot be opened ends the join.                                *)
LoopFails ==
  /\ pc \in {"outer", "inner"}
  /\ Trouble
  /\ \/ pc = "outer" /\ Return("OK")
     \/ pc = "inner" /\ innerRec = 0 /\ Return("IOERR")
     \/ pc = "inner" /\ pc' = "outer" /\ UNCHANGED status
  /\ UNCHANGED <<inputs, outerRec, innerRec, hashed, sorted, result>>

(* ASSERT: abort, for a result that cannot be inserted or (in the hash     *)
(* join) an outer tuple that cannot be read again.                         *)
Aborts ==
  /\ pc \in {"inner", "emit", "probe"}
  /\ Trouble
  /\ pc' = "dead"
  /\ UNCHANGED <<inputs, outerRec, innerRec, hashed, sorted, result, status>>
-----------------------------------------------------------------------------
(* QU_Hash_Join.                                                           *)

(* A table that is somewhat larger than a block. *)
TableSize == (query.block * 115) \div 100

Room == Cardinality(table) < query.block

BlockFull ==
  /\ pc' = "probe" /\ innerRec' = 0
  /\ UNCHANGED <<outerRec, hashed>>

(* Wrong: the end of the outer relation is forgotten. *)
OuterEnds_Forgotten ==
  /\ pc' = "probe" /\ innerRec' = 0
  /\ UNCHANGED <<outerRec, hashed>>

OuterEnds ==
  /\ pc' = "probe" /\ innerRec' = 0
  /\ endOfOuter' = TRUE
  /\ UNCHANGED <<outerRec, table>>

Fill ==
  /\ pc = "fill"
  /\ \/ ~Room /\ BlockFull
     \/ Room /\ outerRec = Len(outer) /\ OuterEnds
     \/ /\ Room /\ outerRec < Len(outer)
        /\ outerRec' = outerRec + 1
        /\ \E h \in Hashes(type, outer[outerRec'], TableSize) : table' = WithEntry(h, outerRec')
        /\ UNCHANGED <<pc, innerRec, endOfOuter>>
  /\ UNCHANGED <<inputs, sorted, result, status, troubles>>

FillFails ==
  /\ pc = "fill" /\ Room
  /\ Trouble
  /\ OuterEnds
  /\ UNCHANGED <<inputs, sorted, result, status>>

(* Wrong: all that is in the bucket matches. *)
Matching_Bucket(h, value) == {e[2] : e \in {e \in table : e[1] = h}}

(* lookup: what is in the bucket and has that value. *)
Matching(h, value) == {e[2] : e \in {e \in table : e[1] = h /\ outer[e[2]] = value}}

(* All inner tuples for each block.  A table of no buckets: a division by  *)
(* zero.                                                                   *)
Probe ==
  /\ pc = "probe" /\ innerRec < Len(inner)
  /\ IF TableSize = 0 THEN pc' = "dead" /\ UNCHANGED <<innerRec, result>>
     ELSE /\ innerRec' = innerRec + 1
          /\ \E h \in Hashes(type, inner[innerRec'], TableSize) :
               Output({Pair(i, innerRec') : i \in Matching(h, inner[innerRec'])})
          /\ UNCHANGED pc
  /\ UNCHANGED <<inputs, outerRec, hashed, sorted, status, troubles>>

BlockDone ==
  /\ IF endOfOuter THEN Return("OK") ELSE pc' = "fill" /\ UNCHANGED status
  /\ table' = EmptyTable
  /\ UNCHANGED <<inputs, outerRec, innerRec, endOfOuter, sorted, result>>

Probed ==
  /\ pc = "probe" /\ innerRec = Len(inner)
  /\ BlockDone
  /\ UNCHANGED troubles

ProbeFails ==
  /\ pc = "probe"
  /\ Trouble
  /\ \/ BlockDone
     \/ /\ innerRec = 0
        /\ Return("IOERR")
        /\ UNCHANGED <<inputs, outerRec, innerRec, hashed, sorted, result>>
-----------------------------------------------------------------------------
(* QU_SM_Join.  The operator is not looked at.                             *)

RunsOf(keys) ==
  LET n == (Len(keys) + MaxItems - 1) \div MaxItems
      chunk(i) == Sorted(type, keys, Chunk(keys, (i - 1) * MaxItems, MaxItems))
      choices == {c \in [1 .. n -> UNION {chunk(i) : i \in 1 .. n}] : \A i \in 1 .. n : c[i] \in chunk(i)}
  IN  {[i \in 1 .. n |-> NewRun(c[i])] : c \in choices}

(* A sort that has failed is deleted, which may end the process.           *)
SortFailed(s) ==
  /\ status' = s
  /\ pc' \in {"done", "dead"}
  /\ UNCHANGED <<inputs, outerRec, innerRec, hashed, sorted, result>>

SortOuter ==
  /\ pc = "sortOuter"
  /\ \/ /\ creates \/ outer = <<>>
        /\ sorted1' \in RunsOf(outer)
        /\ pc' = "sortInner"
        /\ UNCHANGED <<inputs, outerRec, innerRec, hashed, sorted2, astray, result, status>>
     \/ ~creates /\ outer # <<>> /\ SortFailed("UNIXERR")
  /\ UNCHANGED troubles

(* If the relations are one, so are the names of the temporary files.      *)
SortInner ==
  /\ pc = "sortInner"
  /\ \/ /\ (creates /\ ~query.self) \/ inner = <<>>
        /\ \E runs \in RunsOf(inner) : sorted2' = SetMark(runs)
        /\ pc' = "nextOuter"
        /\ UNCHANGED <<inputs, outerRec, innerRec, hashed, sorted1, astray, result, status>>
     \/ ~creates /\ inner # <<>> /\ SortFailed("UNIXERR")
     \/ creates /\ query.self /\ inner # <<>> /\ SortFailed("FILEEXISTS")
  /\ UNCHANGED troubles

SortFails ==
  /\ pc \in {"sortOuter", "sortInner"}
  /\ Trouble
  /\ SortFailed("IOERR")

(* Wrong: the merge does not go back. *)
Back_Not(runs) == {runs}

Back(runs) == GotoMark(runs)

(* What gotoMark returns is not looked at. *)
NextOuterSorted(back) ==
  /\ pc = "nextOuter"
  /\ LET call == NextOf(type, outer, sorted1)
     IN  /\ sorted1' = call.runs
         /\ IF call.rec = 0 THEN Return("OK") /\ UNCHANGED <<outerRec, sorted2>>
            ELSE /\ outerRec' = call.rec
                 /\ sorted2' \in (IF outerRec = 0 THEN {sorted2} ELSE back)
                 /\ pc' = "skip"
                 /\ UNCHANGED status
  /\ UNCHANGED <<inputs, innerRec, hashed, result>>

(* No inner tuple is left: a mark is set there as well. *)
InnerEnds(runs) ==
  /\ sorted2' = SetMark(runs)
  /\ pc' = "nextOuter"
  /\ UNCHANGED <<innerRec, result>>

(* Go forward until the inner tuple is not before the outer one, and mark  *)
(* it.                                                                     *)
Skip ==
  /\ pc = "skip"
  /\ LET call == NextOf(type, inner, sorted2)
     IN  \/ call.rec = 0 /\ InnerEnds(call.runs)
         \/ /\ call.rec # 0
            /\ \E m \in MatchRec(type, outer[outerRec], inner[call.rec]) :
                 IF m > 0 THEN sorted2' = call.runs /\ UNCHANGED <<innerRec, pc>>
                 ELSE sorted2' = SetMark(call.runs) /\ innerRec' = call.rec /\ pc' = "emit"
            /\ UNCHANGED result
  /\ UNCHANGED <<inputs, outerRec, hashed, sorted1, astray, status, troubles>>

(* The inner tuples that match. *)
Emit ==
  /\ pc = "emit"
  /\ \E m \in MatchRec(type, outer[outerRec], inner[innerRec]) :
       IF m # 0 THEN pc' = "nextOuter" /\ UNCHANGED <<innerRec, sorted2, result>>
       ELSE LET call == NextOf(type, inner, sorted2)
            IN  /\ Output({Pair(outerRec, innerRec)})
                /\ sorted2' = call.runs
                /\ IF call.rec = 0 THEN pc' = "nextOuter" /\ UNCHANGED innerRec
                   ELSE innerRec' = call.rec /\ UNCHANGED pc
  /\ UNCHANGED <<inputs, outerRec, hashed, sorted1, astray, status, troubles>>

MergeFails ==
  /\ Trouble
  /\ \/ /\ pc = "nextOuter"
        /\ sorted1' \in NextFailed(sorted1)
        /\ Return("OK")
        /\ UNCHANGED <<outerRec, innerRec, sorted2, result>>
     \/ /\ pc = "skip"
        /\ \E runs \in NextFailed(sorted2) : InnerEnds(runs)
        /\ UNCHANGED <<outerRec, sorted1, status>>
     \/ /\ pc = "emit" /\ 0 \in MatchRec(type, outer[outerRec], inner[innerRec])
        /\ sorted2' \in NextFailed(sorted2)
        /\ Output({Pair(outerRec, innerRec)})
        /\ pc' = "nextOuter"
        /\ UNCHANGED <<outerRec, innerRec, sorted1, status>>
  /\ UNCHANGED <<inputs, hashed, astray>>

NextOuterOf  == NextOuterSorted(Back(sorted2)) /\ UNCHANGED <<astray, troubles>>

GoesBack == pc = "nextOuter" /\ outerRec # 0 /\ NextOf(type, outer, sorted1).rec # 0

GoBackFails ==
  /\ GoesBack
  /\ Trouble
  /\ NextOuterSorted(GotoMarkFailed(sorted2))
  /\ astray' = TRUE

(* The mark was set after the inner relation could not be read on. *)
GoBackCrashes ==
  /\ GoesBack
  /\ Crashes(sorted2)
  /\ pc' = "dead"
  /\ UNCHANGED <<inputs, outerRec, innerRec, hashed, sorted, result, status, troubles>>
-----------------------------------------------------------------------------
Step ==
  \/ NextOuter \/ NextInner
  \/ Fill \/ Probe \/ Probed
  \/ SortOuter \/ SortInner \/ NextOuterOf \/ GoBackCrashes \/ Skip \/ Emit

Failure ==
  \/ LoopFails \/ Aborts
  \/ FillFails \/ ProbeFails
  \/ SortFails \/ MergeFails \/ GoBackFails

Next == Step \/ Failure

(* QU_Join runs until it returns. *)
Spec == Init /\ [][Next]_vars /\ WF_vars(Step)
-----------------------------------------------------------------------------
(* Properties.                                                             *)

(* The joins that are done as asked.  Not these: two tuples of one         *)
(* relation; a condition other than = for the merge; ints with a           *)
(* difference that is no int, where the order matters; floats that differ  *)
(* by less than 1, in the merge; equal strings that fill their attributes, *)
(* but for nested loops.                                                   *)
Values == ToSet(outer) \cup ToSet(inner)
Faithful ==
  LET algorithm == Algorithm(query)
      merge     == algorithm = "SM"
  IN  /\ ~query.self
      /\ merge => query.op = "EQ"
      /\ type = "INTEGER" /\ (merge \/ query.op \notin {"EQ", "NE"}) =>
           \A a, b \in Values : Wrap(a - b) = a - b
      /\ type = "FLOAT" /\ merge => \A a, b \in Values : Magnitude(a - b) # 1
      /\ type = "STRING" /\ algorithm # "NL" => ToSet(outer) \cap ToSet(inner) \cap Full = {}

Joined(pair) == Holds(outer[pair[1]] - inner[pair[2]], query.op)

(* "Joins two relations" (join.C:15): no pair that does not satisfy the    *)
(* condition, and none twice, at any time and whatever fails, unless it is *)
(* gotoMark: the merge takes what is in memory then for an inner tuple.    *)
NothingInvented ==
  Faithful /\ ~astray => \A pair \in DOMAIN result : result[pair] <= (IF Joined(pair) THEN 1 ELSE 0)

(* "Returns: OK on success": all pairs, if no call has failed.             *)
JoinComplete ==
  pc = "done" /\ status = "OK" /\ troubles = 0 /\ Faithful =>
    \A pair \in DOMAIN result : Joined(pair) => result[pair] = 1

(* Every join comes to an end, but the hash join of a relation that is too *)
(* wide for a page with one that is empty.                                 *)
JoinEnds ==
  ~(Algorithm(query) = "HJ" /\ query.block = 0 /\ inner = <<>>) ~> pc \in {"done", "dead"}
=============================================================================
