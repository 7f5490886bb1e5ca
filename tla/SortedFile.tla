----------------------------- MODULE SortedFile -----------------------------
(***************************************************************************)
(* One sorted file and its caller (class SortedFile of sort.C): it is made *)
(* of runs, then the caller calls next, setMark and gotoMark in any order, *)
(* and at last deletes it.  Any call of the heap files below may fail.     *)
(***************************************************************************)
EXTENDS SortRuns

CONSTANTS
  SourceKeys,  \* type -> the values of attributes of that type
  MaxRecs,     \* bound: records of the source
  MaxItems,    \* what maxItems may be
  Creates,     \* whether an InsertFileScan creates its file, as sort.C expects
  MaxTroubles  \* bound: calls that fail

ASSUME SourceAssumption == SourceKeys \in [Types -> SUBSET Int] /\ MaxItems \subseteq Nat
                           /\ Creates \subseteq BOOLEAN /\ MaxRecs \in Nat

VARIABLES
  type, keys,   \* of the source
  maxItems,
  creates,
  pc,           \* "new", "sorting", "ready", "failed" (the constructor), "astray" (a call), "deleted", "dead"
  runs,
  files,        \* the temporary files there are: the numbers in their names
  open,         \* those that are open and will not be closed; 0: the source
  given,        \* what next has returned: a record, 0 for FILEEOF, -1 if nothing yet
  marked,       \* setMark has been called after next
  troubles

source == <<type, keys, maxItems, creates>>
vars == <<source, pc, runs, files, open, given, marked, troubles>>

(* A sort that came to no good end may have left temporary files.          *)
Init ==
  /\ type \in Types
  /\ keys \in UNION {[1 .. n -> SourceKeys[type]] : n \in 0 .. MaxRecs}
  /\ maxItems \in MaxItems
  /\ creates \in Creates
  /\ pc = "new"
  /\ runs = <<>>
  /\ files \in {{}, {2}}
  /\ open = {}
  /\ given = -1
  /\ marked = FALSE
  /\ troubles = 0
-----------------------------------------------------------------------------
(* The constructor.                                                        *)

(* INSUFMEM: an item alone cannot be sorted.                               *)
New ==
  /\ pc = "new"
  /\ pc' = IF maxItems < 2 THEN "failed" ELSE "sorting"
  /\ UNCHANGED <<source, runs, files, open, given, marked, troubles>>

Count(f) ==
  LET sum[i \in 0 .. Len(f)] == IF i = 0 THEN 0 ELSE sum[i - 1] + f[i]
  IN  sum[Len(f)]

(* The records that have not come into a run. *)
Rest == Chunk(keys, Count([i \in DOMAIN runs |-> Len(runs[i].recs)]), maxItems)

(* A run without a scan. *)
Begun == Append(runs, NewRun(<<>>))

(* generateRun: FILEEXISTS, and UNIXERR if the InsertFileScan finds that   *)
(* there is no file, since the one that was created has been destroyed.    *)
(* Nothing closes the source then.                                         *)
GenerateRun ==
  /\ pc = "sorting"
  /\ Rest # <<>>
  /\ IF Len(Begun) \in files \/ ~creates
     THEN /\ pc' = "failed"
          /\ runs' = Begun
          /\ open' = {0}
          /\ UNCHANGED files
     ELSE /\ \E recs \in Sorted(type, keys, Rest) : runs' = Append(runs, NewRun(recs))
          /\ files' = files \cup {Len(Begun)}
          /\ UNCHANGED <<pc, open>>
  /\ UNCHANGED <<source, given, marked, troubles>>

StartScans ==
  /\ pc = "sorting"
  /\ Rest = <<>>
  /\ pc' = "ready"
  /\ UNCHANGED <<source, runs, files, open, given, marked, troubles>>

Trouble == troubles < MaxTroubles /\ troubles' = troubles + 1

(* The source, or the scan of a run, cannot be opened; the source cannot   *)
(* be read on; a run cannot be created, or not be written.  What has been  *)
(* opened then is not closed.                                              *)
SortFails ==
  /\ pc = "sorting"
  /\ Trouble
  /\ \/ (runs = <<>> \/ Rest = <<>>) /\ UNCHANGED <<runs, files, open>>
     \/ open' = {0} /\ UNCHANGED <<runs, files>>
     \/ /\ Rest # <<>> /\ Len(Begun) \notin files
        /\ runs' = Begun
        /\ \/ open' = {0} /\ UNCHANGED files
           \/ /\ creates
              /\ files' = files \cup {Len(Begun)}
              /\ open' = {0, Len(Begun)}
  /\ pc' = "failed"
  /\ UNCHANGED <<source, given, marked>>
-----------------------------------------------------------------------------
(* The calls.                                                              *)

Usable == pc \in {"ready", "astray"}

NextRecord ==
  /\ Usable
  /\ LET call == NextOf(type, keys, runs)
     IN  runs' = call.runs /\ given' = call.rec
  /\ UNCHANGED <<source, pc, files, open, marked, troubles>>

(* The caller may call it again. *)
NextFails ==
  /\ Usable
  /\ Trouble
  /\ runs' \in NextFailed(runs)
  /\ pc' = "astray"
  /\ UNCHANGED <<source, files, open, given, marked>>

SetMarkCall ==
  /\ Usable
  /\ runs' = SetMark(runs)
  /\ marked' = (given # -1)
  /\ UNCHANGED <<source, pc, files, open, given, troubles>>

(* A mark that was set before the first call of next is not one to return  *)
(* to: all runs would be taken to have ended.                              *)
GotoMarkCall ==
  /\ Usable
  /\ marked
  /\ runs' \in GotoMark(runs)
  /\ UNCHANGED <<source, pc, files, open, given, marked, troubles>>

GotoMarkCrashes ==
  /\ Usable
  /\ marked
  /\ Crashes(runs)
  /\ pc' = "dead"
  /\ UNCHANGED <<source, runs, files, open, given, marked, troubles>>

GotoMarkFails ==
  /\ Usable
  /\ marked
  /\ Trouble
  /\ runs' \in GotoMarkFailed(runs)
  /\ pc' = "astray"
  /\ UNCHANGED <<source, files, open, given, marked>>

(* The destructor: destroyFile for the name of every run, whoever has made *)
(* the file, if it is not open; what it reports is not looked at.  A run   *)
(* whose scan has not been opened has an inFile that points anywhere, and  *)
(* deleting it may end the process before.                                 *)
Destroyed == files \ (DOMAIN runs \ open)

Delete ==
  /\ pc \in {"ready", "failed", "astray"}
  /\ pc' = "deleted"
  /\ \/ files' = Destroyed
     \/ pc = "failed" /\ runs # <<>> /\ UNCHANGED files
  /\ UNCHANGED <<source, runs, open, given, marked, troubles>>

DeleteFails ==
  /\ pc \in {"ready", "failed", "astray"}
  /\ Trouble
  /\ pc' = "deleted"
  /\ \E n \in files \cap DOMAIN runs : files' = Destroyed \cup {n}
  /\ UNCHANGED <<source, runs, open, given, marked>>

Next ==
  \/ New \/ GenerateRun \/ StartScans \/ SortFails
  \/ NextRecord \/ NextFails \/ SetMarkCall \/ GotoMarkCall \/ GotoMarkCrashes \/ GotoMarkFails
  \/ Delete \/ DeleteFails

Spec == Init /\ [][Next]_vars
-----------------------------------------------------------------------------
(* Properties.                                                             *)

(* The order in which the runs are merged: of two equal records, that of   *)
(* the run before comes first.                                             *)
Merged ==
  LET in(i) == {<<i, at>> : at \in DOMAIN runs[i].recs}
      all   == UNION {in(i) : i \in DOMAIN runs}
      cmp(p, q) == RecCmp(type, keys[runs[p[1]].recs[p[2]]], keys[runs[q[1]].recs[q[2]]])
      first(p, q) == \/ cmp(p, q) < 0
                     \/ cmp(p, q) = 0 /\ p[1] < q[1]
                     \/ p[1] = q[1] /\ p[2] < q[2]
      merged == SetToSortSeq(all, first)
  IN  [k \in DOMAIN merged |-> runs[merged[k][1]].recs[merged[k][2]]]

(* How many records come before where the runs are, and before the marks.  *)
Before(at, ended) == IF ended THEN at ELSE at - 1

Place == 1 + Count([i \in DOMAIN runs |-> Before(runs[i].at, ~runs[i].valid \/ runs[i].ended)])
MarkPlace == 1 + Count([i \in DOMAIN runs |-> Before(runs[i].mark, runs[i].markEnded)])

(* Nothing is promised for ints whose comparisons contradict each other,   *)
(* nor once a call has failed: a run may begin again, or be cut off.       *)
InUse(used, otherwise) == IF pc = "ready" /\ Ordered(type, ToSet(keys)) THEN used ELSE otherwise

Sequence == INSTANCE SortedSeq WITH
  total <- Len(keys),
  comes <- {p \in (DOMAIN keys) \X (DOMAIN keys) : RecCmp(type, keys[p[1]], keys[p[2]]) <= 0},
  order <- InUse(Merged, <<>>),
  place <- InUse(Place, 1),
  last  <- InUse(IF given = -1 THEN 0 ELSE IF \A i \in DOMAIN runs : runs[i].valid THEN Place ELSE Place - 1, 0),
  mark  <- InUse(IF marked THEN MarkPlace ELSE 0, 0),
  given <- InUse(given, -1)

(* "Retrieve the next smallest record", "Remember a position in the sorted *)
(* output so that the caller can later return to this spot" (sort.C:297,   *)
(* 360): as long as no call has failed, the records of all runs come in    *)
(* order, each once, and from a mark in the same order again.              *)
SequenceSpec == Sequence!Spec

=============================================================================
