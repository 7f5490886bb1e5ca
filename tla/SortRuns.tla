------------------------------ MODULE SortRuns ------------------------------
(***************************************************************************)
(* A sorted file (sort.C): sorted runs, each in a temporary file that is   *)
(* being scanned, and how they are merged.                                 *)
(*                                                                         *)
(* A record is its place in the source file; keys gives their values.      *)
(***************************************************************************)
EXTENDS Compare, SequencesExt

(* at: where the scan of the run is; ended: the rid says that the run has  *)
(* ended (or has not begun); valid: the record at the rid has been read    *)
(* and not been returned; lost: 0 if the scan has its page, else it has    *)
(* none: the record whose page it could not read, or, if it could not give *)
(* its page back, one past the last; mark, markEnded, markLost: the three  *)
(* as setMark has left them.                                               *)
NewRun(recs) == [recs |-> recs, at |-> 0, ended |-> TRUE, valid |-> FALSE, lost |-> 0,
                 mark |-> 0, markEnded |-> TRUE, markLost |-> 0]

(* Whether the comparisons of these values do not contradict each other.   *)
Ordered(type, values) ==
  \A a, b, c \in values :
    /\ RecCmp(type, a, b) = -RecCmp(type, b, a)
    /\ RecCmp(type, a, b) <= 0 /\ RecCmp(type, b, c) <= 0 => RecCmp(type, a, c) <= 0

(* What qsort may leave: if they do, anything.                             *)
Sorted(type, keys, recs) ==
  {p \in [DOMAIN recs -> ToSet(recs)] :
     /\ ToSet(p) = ToSet(recs)
     /\ Ordered(type, {keys[r] : r \in ToSet(recs)}) =>
          \A i \in DOMAIN recs : i > 1 => RecCmp(type, keys[p[i - 1]], keys[p[i]]) <= 0}

(* The records of the next run: maxItems, or those that are left.          *)
Chunk(keys, from, maxItems) ==
  LET to == IF from + maxItems < Len(keys) THEN from + maxItems ELSE Len(keys)
  IN  [i \in 1 .. to - from |-> from + i]

(* How many records are behind the scan: one without a page begins again   *)
(* at the first record, or is taken to be at the end.                      *)
Behind(run) ==
  CASE run.lost = 0               -> run.at
    [] run.lost \in DOMAIN run.recs -> 0
    [] OTHER                      -> Len(run.recs)

(* next: every run has its next record in memory. *)
Fetched(run) ==
  IF run.valid THEN run
  ELSE IF Behind(run) < Len(run.recs)
       THEN [run EXCEPT !.at = Behind(run) + 1, !.ended = FALSE, !.valid = TRUE, !.lost = 0]
  ELSE [run EXCEPT !.ended = TRUE, !.valid = TRUE]

AllFetched(runs) == [i \in DOMAIN runs |-> Fetched(runs[i])]
Current(run)     == run.recs[run.at]

(* The run with the smallest record, 0 if all have ended. *)
Smallest(type, keys, runs) ==
  LET best[i \in 0 .. Len(runs)] ==
        IF i = 0 THEN 0
        ELSE IF runs[i].ended THEN best[i - 1]
        ELSE IF best[i - 1] = 0 THEN i
        ELSE IF RecCmp(type, keys[Current(runs[best[i - 1]])], keys[Current(runs[i])]) > 0 THEN i
        ELSE best[i - 1]
  IN  best[Len(runs)]

(* The next record of run i must be fetched. *)
Taken(runs, i) == [runs EXCEPT ![i].valid = FALSE]

(* A call of next: the record (0: FILEEOF) and the runs after it.          *)
NextOf(type, keys, runs) ==
  LET fetched == AllFetched(runs)
      i == Smallest(type, keys, fetched)
  IN  IF i = 0 THEN [rec |-> 0, runs |-> fetched]
      ELSE [rec |-> Current(fetched[i]), runs |-> Taken(fetched, i)]

(* Where a scan is that has failed: it goes to another page between any    *)
(* two records, and cannot read that, or cannot give back the one it had.  *)
Lost(run) ==
  {[run EXCEPT !.lost = page] :
     page \in IF Behind(run) = Len(run.recs) THEN {}
              ELSE IF run.lost # 0 THEN {1}
              ELSE IF run.at = 0 THEN {}
              ELSE {run.at + 1, Len(run.recs) + 1}}

(* A scan fails in it: the runs before it have fetched their records.      *)
NextFailed(runs) ==
  UNION {{[i \in DOMAIN runs |-> IF i < k THEN Fetched(runs[i]) ELSE IF i = k THEN lost ELSE runs[i]] :
            lost \in Lost(runs[k])} : k \in {k \in DOMAIN runs : ~runs[k].valid}}

Marked(run) == [run EXCEPT !.mark = run.at, !.markEnded = run.ended, !.markLost = run.lost]
SetMark(runs) == [i \in DOMAIN runs |-> Marked(runs[i])]

(* The record whose page is that of the mark. *)
MarkPage(run) == IF run.markLost = 0 THEN run.mark ELSE run.markLost

(* Wrong: the record at the mark is taken for read and returned. *)
Returned_Past(run) ==
  {[run EXCEPT !.at = run.mark, !.ended = run.markEnded, !.valid = run.markEnded, !.lost = 0]}

(* gotoMark for one run: if it is not the end that is marked, the record   *)
(* that is there is in memory again; of a page that the scan had not read  *)
(* when it was marked, any record.                                         *)
Returned(run) ==
  IF run.markEnded THEN {[run EXCEPT !.at = run.mark, !.ended = TRUE, !.valid = TRUE, !.lost = 0]}
  ELSE {[run EXCEPT !.at = at, !.ended = FALSE, !.valid = TRUE, !.lost = 0] :
          at \in IF run.lost = MarkPage(run) THEN {}
                 ELSE IF run.markLost = 0 THEN {run.mark} ELSE DOMAIN run.recs}

GotoMark(runs) ==
  {to \in [DOMAIN runs -> UNION {Returned(runs[i]) : i \in DOMAIN runs}] :
     \A i \in DOMAIN runs : to[i] \in Returned(runs[i])}

(* The scan is without the page of the mark and takes it for the one that  *)
(* it has: the record is read through a null pointer.                      *)
Crashes(runs) ==
  \E i \in DOMAIN runs : ~runs[i].markEnded /\ runs[i].lost \in 1 .. MarkPage(runs[i])

(* resetScan fails for a run: it has a page that is not pinned, and where  *)
(* it goes on is undefined, or none.  What is in memory is no longer the   *)
(* record that was read.                                                   *)
Astray(run) ==
  {[run EXCEPT !.at = at, !.lost = page] :
     at \in (IF run.valid \/ ~run.ended THEN 1 ELSE 0) .. Len(run.recs), page \in {0, MarkPage(run)}}

(* The runs before it are at their marks.                                  *)
GotoMarkFailed(runs) ==
  UNION {{to \in [DOMAIN runs -> UNION {Returned(runs[i]) : i \in 1 .. k - 1} \cup Astray(runs[k]) \cup ToSet(runs)] :
            \A i \in DOMAIN runs : IF i < k THEN to[i] \in Returned(runs[i])
                                   ELSE IF i = k THEN to[i] \in Astray(runs[k]) ELSE to[i] = runs[i]} :
          k \in DOMAIN runs}
=============================================================================
