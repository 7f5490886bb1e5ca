------------------------------ MODULE HeapFile ------------------------------
(***************************************************************************)
(* Heap files (phase6/heapfile.C, the same in phase 5): records in a chain *)
(* of data pages, with a header page that has the ends of the chain and    *)
(* counts pages and records.                                               *)
(*                                                                         *)
(* Several objects can be open on one file: a HeapFile (a catalog, the     *)
(* outer table of a hash join), HeapFileScans, an InsertFileScan.  Each    *)
(* pins the header page and at most one data page, and all of them work on *)
(* the same pages in the buffer pool.  Calls of different objects follow   *)
(* each other in any order.                                                *)
(*                                                                         *)
(* A page in the pool is as RecordPage.tla and BufMgr.tla promise: records *)
(* by slot, and one value while it is pinned.  After a call has failed its *)
(* object is only closed; all callers do that.                             *)
(***************************************************************************)
EXTENDS Integers, FiniteSets

CONSTANTS
  Plain,       \* HeapFile objects
  Scans,       \* HeapFileScan objects
  Inserters,   \* InsertFileScan objects: one at a time on a file
  Marked,      \* bound: the scans that callers mark
  MaxPages,    \* bound: pages of the file
  PageSpace,   \* bytes for records and slots on a page (PAGESIZE - DPFIXED)
  RecSize,     \* bytes of a record of this file
  SlotSize,    \* bytes of a slot
  Values,      \* what a record can hold
  Filters,     \* the filters of scans: the sets of values that match
  Departures   \* what is done and what fails beyond the good case

(* "alloc fails"   allocPage fails: no frame, or an error of the disk;     *)
(* "read fails"    readPage fails;                                         *)
(* "scan again"    a scan is used again after endScan;                     *)
(* "delete again"  a scan deletes a record that is no longer there;        *)
(* "long record"   a record is inserted that fits on no page but passes    *)
(*                 the check for that.                                     *)
DepartureKinds == {"alloc fails", "read fails", "scan again", "delete again", "long record"}

Objects    == Plain \cup Scans \cup Inserters
HeaderPage == 1
DataPages  == 2 .. MaxPages
PageNos    == 1 .. MaxPages
NoPage     == -1
SlotNos    == 0 .. PageSpace \div (RecSize + SlotSize) - 1
Rids       == DataPages \X SlotNos
NullRid    == <<-1, -1>>

ASSUME SizesAssumption == /\ PageSpace \in Nat /\ RecSize \in Nat \ {0} /\ SlotSize \in Nat \ {0}
                          /\ RecSize + SlotSize <= PageSpace
ASSUME ObjectsAssumption == /\ IsFiniteSet(Objects)
                            /\ Plain \cap Scans = {}
                            /\ Inserters \cap (Plain \cup Scans) = {}
ASSUME InsertersAssumption  == \A i, j \in Inserters : i = j
ASSUME MarkedAssumption     == Marked \subseteq Scans
ASSUME MaxPagesAssumption   == MaxPages \in Nat /\ MaxPages >= 2
ASSUME FiltersAssumption    == Filters \subseteq SUBSET Values
ASSUME DeparturesAssumption == Departures \subseteq DepartureKinds

VARIABLES
  header,      \* the FileHdrPage
  page,        \* data page -> its records by slot, and the next page
  numPages,    \* the page that allocPage gives next: no page is disposed of
  pinCnt,      \* page -> its pins in the buffer pool
  owed,        \* pages written to and not yet unpinned as dirty
  obj,         \* object -> its members
  scan,        \* scan -> its filter and its mark
  todo, seen   \* scan -> records there from its start on that it has not
               \* returned, and records it has

vars == <<header, page, numPages, pinCnt, owed, obj, scan, todo, seen>>

Closed == [open |-> FALSE, curPage |-> NoPage, curPageNo |-> 0, curDirty |-> FALSE,
           hdrDirty |-> FALSE, curRec |-> NullRid, failed |-> FALSE]

NoMark == [pageNo |-> NoPage, rec |-> NullRid, todo |-> {}, seen |-> {}]

(* createHeapFile: a header page and an empty data page. *)
Init ==
  /\ header = [firstPage |-> 2, lastPage |-> 2, pageCnt |-> 1, recCnt |-> 0]
  /\ page = [p \in DataPages |-> [recs |-> [s \in {} |-> 0], next |-> NoPage]]
  /\ numPages = 3
  /\ pinCnt = [p \in PageNos |-> 0]
  /\ owed = {}
  /\ obj = [o \in Objects |-> Closed]
  /\ scan = [s \in Scans |-> [filter |-> Values, mark |-> NoMark]]
  /\ todo = [s \in Scans |-> {}]
  /\ seen = [s \in Scans |-> {}]
-----------------------------------------------------------------------------
(* Pages and the chain.                                                    *)

SlotsOf(p) == DOMAIN page[p].recs
SlotCnt(p) == IF SlotsOf(p) = {} THEN 0
              ELSE 1 + CHOOSE s \in SlotsOf(p) : \A t \in SlotsOf(p) : t <= s

(* Page::insertRecord: whether there is room, and the slot that is taken. *)
Fits(p)     == RecSize + SlotSize
                 <= PageSpace - RecSize * Cardinality(SlotsOf(p)) - SlotSize * SlotCnt(p)

(* Wrong: the first slot is taken, free or not; no free slot is used.      *)
FreeSlot_First(p) == 0

FreeSlot(p) == CHOOSE s \in 0 .. SlotCnt(p) : /\ s \notin SlotsOf(p)
                                              /\ \A t \in 0 .. s - 1 : t \in SlotsOf(p)

With(recs, s, v) == [t \in DOMAIN recs \cup {s} |-> IF t = s THEN v ELSE recs[t]]
Without(recs, s) == [t \in DOMAIN recs \ {s} |-> recs[t]]

(* The pages that the chain leads to from p, p among them. *)
From(p) ==
  LET reached[n \in 0 .. MaxPages] ==
        IF n = 0 THEN {p}
        ELSE reached[n - 1] \cup {page[q].next : q \in reached[n - 1] \ {NoPage}}
  IN  reached[MaxPages] \ {NoPage}

Later(p) == From(p) \ {p}
LastFrom(p) == CHOOSE q \in From(p) : page[q].next = NoPage

OnPage(p)  == {<<p, s>> : s \in SlotsOf(p)}
Records    == UNION {OnPage(p) : p \in From(header.firstPage)}
ValueOf(r) == page[r[1]].recs[r[2]]

(* r comes before q in a scan. *)
Before(r, q) == \/ r[1] = q[1] /\ r[2] < q[2]
                \/ q[1] \in Later(r[1])
FirstOf(R)  == CHOOSE r \in R : \A q \in R : q = r \/ Before(r, q)
LastOf(R)   == CHOOSE r \in R : \A q \in R : q = r \/ Before(q, r)
-----------------------------------------------------------------------------
(* Pins.                                                                   *)

HoldsPage(o) == obj[o].curPage # NoPage
Usable(o)    == obj[o].open /\ ~obj[o].failed

Pin(pins, p)   == [pins EXCEPT ![p] = @ + 1]
UnPin(pins, p) == [pins EXCEPT ![p] = IF @ = 0 THEN 0 ELSE @ - 1]

(* The pins and the pages owed after o has unpinned its data page, if any. *)
PinsWithout(o) == IF HoldsPage(o) THEN UnPin(pinCnt, obj[o].curPageNo) ELSE pinCnt
OwedWithout(o) == IF HoldsPage(o) /\ obj[o].curDirty THEN owed \ {obj[o].curPageNo} ELSE owed

(* Wrong: the page that was current stays pinned. *)
MoveTo_Leak(o, p) ==
  IF HoldsPage(o) /\ obj[o].curPageNo = p
  THEN UNCHANGED <<pinCnt, owed>>
  ELSE pinCnt' = Pin(pinCnt, p) /\ owed' = OwedWithout(o)

(* o unpins its data page and pins p instead. *)
MoveTo(o, p) ==
  IF HoldsPage(o) /\ obj[o].curPageNo = p
  THEN UNCHANGED <<pinCnt, owed>>
  ELSE pinCnt' = Pin(PinsWithout(o), p) /\ owed' = OwedWithout(o)

(* The dirty flag of o once its current page is p. *)
DirtyAt(o, p) == HoldsPage(o) /\ obj[o].curPageNo = p /\ obj[o].curDirty
-----------------------------------------------------------------------------
(* Constructors and destructors.                                           *)

Opened(p) == [Closed EXCEPT !.open = TRUE, !.curPage = p, !.curPageNo = p]

(* The HeapFile constructor pins the header page and the first data page.  *)
OpenHeapFile(o) ==
  /\ ~obj[o].open
  /\ pinCnt' = Pin(Pin(pinCnt, HeaderPage), header.firstPage)
  /\ obj' = [obj EXCEPT ![o] = Opened(header.firstPage)]
  /\ UNCHANGED <<header, page, numPages, owed, scan, todo, seen>>

(* HeapFileScan and startScan. *)
OpenScan(s, filter) ==
  /\ ~obj[s].open
  /\ pinCnt' = Pin(Pin(pinCnt, HeaderPage), header.firstPage)
  /\ obj' = [obj EXCEPT ![s] = Opened(header.firstPage)]
  /\ scan' = [scan EXCEPT ![s] = [filter |-> filter, mark |-> NoMark]]
  /\ todo' = [todo EXCEPT ![s] = Records]
  /\ seen' = [seen EXCEPT ![s] = {}]
  /\ UNCHANGED <<header, page, numPages, owed>>

(* InsertFileScan: the first page is given up for the last one. *)
OpenInserter(i) ==
  /\ ~obj[i].open
  /\ pinCnt' = Pin(Pin(pinCnt, HeaderPage), header.lastPage)
  /\ obj' = [obj EXCEPT ![i] = Opened(header.lastPage)]
  /\ UNCHANGED <<header, page, numPages, owed, scan, todo, seen>>

(* The read of the last page fails: the constructor says so on cerr and    *)
(* reports OK.  curPage still points to the first page.                    *)
OpenInserterFails(i) ==
  /\ "read fails" \in Departures
  /\ ~obj[i].open
  /\ header.lastPage # header.firstPage
  /\ pinCnt' = Pin(pinCnt, HeaderPage)
  /\ obj' = [obj EXCEPT ![i] = [Opened(header.lastPage) EXCEPT !.curPage = header.firstPage]]
  /\ UNCHANGED <<header, page, numPages, owed, scan, todo, seen>>

(* Wrong: the flag of an inserter is used as it is. *)
CloseDirty_Flag(o) == obj[o].curDirty

(* An InsertFileScan unpins its page as dirty, whatever its flag. *)
CloseDirty(o) == obj[o].curDirty \/ o \in Inserters

(* Wrong: the header page stays pinned. *)
PinsClosed_Data(o) == PinsWithout(o)

PinsClosed(o) == UnPin(PinsWithout(o), HeaderPage)

(* The destructors; that of a scan calls endScan. *)
Close(o) ==
  /\ obj[o].open
  /\ pinCnt' = PinsClosed(o)
  /\ owed' = owed \ ((IF HoldsPage(o) /\ CloseDirty(o) THEN {obj[o].curPageNo} ELSE {})
                     \cup (IF obj[o].hdrDirty THEN {HeaderPage} ELSE {}))
  /\ obj' = [obj EXCEPT ![o] = Closed]
  /\ todo' = [s \in Scans |-> IF s = o THEN {} ELSE todo[s]]
  /\ seen' = [s \in Scans |-> IF s = o THEN {} ELSE seen[s]]
  /\ scan' = [s \in Scans |-> IF s = o THEN [filter |-> Values, mark |-> NoMark] ELSE scan[s]]
  /\ UNCHANGED <<header, page, numPages>>
-----------------------------------------------------------------------------
(* HeapFile::getRecord.                                                    *)

GetRecord(o, r) ==
  /\ Usable(o)
  /\ MoveTo(o, r[1])
  /\ obj' = [obj EXCEPT ![o].curPage = r[1], ![o].curPageNo = r[1],
                        ![o].curDirty = DirtyAt(o, r[1]), ![o].curRec = r]
  /\ UNCHANGED <<header, page, numPages, scan, todo, seen>>

(* The page is unpinned, the read fails, and curPage is as it was. *)
GetRecordFails(o, r) ==
  /\ "read fails" \in Departures
  /\ Usable(o)
  /\ ~HoldsPage(o) \/ obj[o].curPageNo # r[1]
  /\ pinCnt' = PinsWithout(o)
  /\ owed' = OwedWithout(o)
  /\ obj' = [obj EXCEPT ![o].failed = TRUE]
  /\ UNCHANGED <<header, page, numPages, scan, todo, seen>>
-----------------------------------------------------------------------------
(* HeapFileScan::scanNext.  A scan goes on behind curRec on its page, or   *)
(* with the first page if it has none.                                     *)

Start(s) == IF HoldsPage(s) THEN <<obj[s].curPage, obj[s].curRec[2]>>
            ELSE <<header.firstPage, -1>>

(* Wrong: the rest of the current page is passed over; records on it that  *)
(* come before the current one are looked at again.                        *)
Rest_NextPage(s) == UNION {OnPage(p) : p \in Later(Start(s)[1])}
Rest_Others(s)   == {r \in OnPage(Start(s)[1]) : r[2] # Start(s)[2]}
                      \cup UNION {OnPage(p) : p \in Later(Start(s)[1])}

(* What is left to look at, and what matches of it. *)
Rest(s) == {r \in OnPage(Start(s)[1]) : r[2] > Start(s)[2]}
             \cup UNION {OnPage(p) : p \in Later(Start(s)[1])}
Hits(s) == {r \in Rest(s) : ValueOf(r) \in scan[s].filter}

(* A scan that has no page finds the first page without records and takes  *)
(* that for the end of the file.                                           *)
FirstIsEmpty(s) == ~HoldsPage(s) /\ SlotsOf(header.firstPage) = {}

(* After that curPageNo says that the scan is at its end.  curRec is not   *)
(* set to anything then; nothing reads it any more.                        *)
AtEnd(s) == obj[s].curPageNo < 0

ScanFinds(s) ==
  /\ Usable(s) /\ ~AtEnd(s) /\ ~FirstIsEmpty(s)
  /\ Hits(s) # {}
  /\ LET r == FirstOf(Hits(s))
     IN  /\ MoveTo(s, r[1])
         /\ obj' = [obj EXCEPT ![s].curPage = r[1], ![s].curPageNo = r[1],
                               ![s].curDirty = DirtyAt(s, r[1]), ![s].curRec = r]
         /\ todo' = [todo EXCEPT ![s] = @ \ {r}]
         /\ seen' = [seen EXCEPT ![s] = @ \cup {r}]
  /\ UNCHANGED <<header, page, numPages, scan>>

(* FILEEOF: the scan has come to the last page and keeps it pinned.        *)
ScanEnds(s) ==
  /\ Usable(s)
  /\ Hits(s) = {} \/ FirstIsEmpty(s) \/ AtEnd(s)
  /\ IF AtEnd(s) THEN UNCHANGED <<pinCnt, owed, obj>>
     ELSE IF FirstIsEmpty(s)
     THEN /\ obj' = [obj EXCEPT ![s].curPageNo = -1, ![s].curDirty = FALSE, ![s].curRec = NullRid]
          /\ UNCHANGED <<pinCnt, owed>>
     ELSE LET p == LastFrom(Start(s)[1])
          IN  /\ MoveTo(s, p)
              /\ obj' = [obj EXCEPT ![s].curPage = p, ![s].curPageNo = p,
                                    ![s].curDirty = DirtyAt(s, p),
                                    ![s].curRec = IF Rest(s) = {} THEN @ ELSE LastOf(Rest(s))]
  /\ UNCHANGED <<header, page, numPages, scan, todo, seen>>

(* A read on the way fails: the page before has been unpinned. *)
ScanFails(s) ==
  /\ "read fails" \in Departures
  /\ Usable(s) /\ ~AtEnd(s)
  /\ pinCnt' = PinsWithout(s)
  /\ owed' = OwedWithout(s)
  /\ \E p \in IF HoldsPage(s) THEN Later(obj[s].curPage) ELSE From(header.firstPage) :
       obj' = [obj EXCEPT ![s].curPage = NoPage, ![s].curPageNo = p, ![s].curDirty = FALSE,
                          ![s].failed = TRUE]
  /\ UNCHANGED <<header, page, numPages, scan, todo, seen>>

ScanNext(s) == ScanFinds(s) \/ ScanEnds(s) \/ ScanFails(s)

(* endScan; what is left to do starts anew. *)
EndScan(s) ==
  /\ "scan again" \in Departures
  /\ Usable(s) /\ HoldsPage(s)
  /\ pinCnt' = PinsWithout(s)
  /\ owed' = OwedWithout(s)
  /\ obj' = [obj EXCEPT ![s].curPage = NoPage, ![s].curPageNo = 0, ![s].curDirty = FALSE]
  /\ todo' = [todo EXCEPT ![s] = Records]
  /\ seen' = [seen EXCEPT ![s] = {}]
  /\ UNCHANGED <<header, page, numPages, scan>>
-----------------------------------------------------------------------------
(* markScan, resetScan.                                                    *)

MarkScan(s) ==
  /\ s \in Marked
  /\ Usable(s) /\ HoldsPage(s)
  /\ scan' = [scan EXCEPT ![s].mark = [pageNo |-> obj[s].curPageNo, rec |-> obj[s].curRec,
                                       todo |-> todo[s], seen |-> seen[s]]]
  /\ UNCHANGED <<header, page, numPages, pinCnt, owed, obj, todo, seen>>

(* Wrong: the record is restored only with its page. *)
ResetRec_PageOnly(s) == IF scan[s].mark.pageNo # obj[s].curPageNo THEN scan[s].mark.rec
                        ELSE obj[s].curRec

ResetRec(s) == scan[s].mark.rec

ResetScan(s) ==
  /\ Usable(s)
  /\ scan[s].mark.pageNo # NoPage
  /\ LET p == scan[s].mark.pageNo
     IN  /\ MoveTo(s, p)
         /\ obj' = [obj EXCEPT ![s].curPage = p, ![s].curPageNo = p,
                               ![s].curDirty = DirtyAt(s, p), ![s].curRec = ResetRec(s)]
  /\ todo' = [todo EXCEPT ![s] = scan[s].mark.todo]
  /\ seen' = [seen EXCEPT ![s] = scan[s].mark.seen]
  /\ UNCHANGED <<header, page, numPages, scan>>

(* The read of the marked page fails: curPageNo has been restored, curPage *)
(* points to the page that was unpinned.                                   *)
ResetFails(s) ==
  /\ "read fails" \in Departures
  /\ Usable(s)
  /\ scan[s].mark.pageNo \notin {NoPage, obj[s].curPageNo}
  /\ pinCnt' = PinsWithout(s)
  /\ owed' = OwedWithout(s)
  /\ obj' = [obj EXCEPT ![s].curPageNo = scan[s].mark.pageNo, ![s].curRec = scan[s].mark.rec,
                        ![s].failed = TRUE]
  /\ UNCHANGED <<header, page, numPages, scan, todo, seen>>
-----------------------------------------------------------------------------
(* deleteRecord, and a change through getRecord and markDirty.             *)

(* Users delete and change the record that the scan is at. *)
Current(s) == /\ Usable(s) /\ HoldsPage(s)
              /\ obj[s].curRec \in OnPage(obj[s].curPage)

(* What scans have yet to do, or have done, without record r. *)
Forget(r) ==
  /\ todo' = [s \in Scans |-> todo[s] \ {r}]
  /\ seen' = [s \in Scans |-> seen[s] \ {r}]
  /\ scan' = [s \in Scans |-> [scan[s] EXCEPT !.mark.todo = @ \ {r}, !.mark.seen = @ \ {r}]]

Deleted(s) == [obj[s] EXCEPT !.curDirty = TRUE, !.hdrDirty = TRUE]

DeleteRecord(s) ==
  /\ Current(s)
  /\ LET r == obj[s].curRec
     IN  /\ page' = [page EXCEPT ![r[1]].recs = Without(@, r[2])]
         /\ owed' = owed \cup {r[1], HeaderPage}
         /\ Forget(r)
  /\ header' = [header EXCEPT !.recCnt = @ - 1]
  /\ obj' = [obj EXCEPT ![s] = Deleted(s)]
  /\ UNCHANGED <<numPages, pinCnt>>

(* The page has no such record: INVALIDSLOTNO, but it is counted.  The     *)
(* count stays above -1: a bound.                                          *)
DeleteAgain(s) ==
  /\ "delete again" \in Departures
  /\ header.recCnt >= 0
  /\ Usable(s) /\ HoldsPage(s) /\ obj[s].curRec # NullRid
  /\ obj[s].curRec[2] \notin SlotsOf(obj[s].curPage)
  /\ owed' = owed \cup {HeaderPage}
  /\ header' = [header EXCEPT !.recCnt = @ - 1]
  /\ obj' = [obj EXCEPT ![s] = Deleted(s)]
  /\ UNCHANGED <<page, numPages, pinCnt, scan, todo, seen>>

MarkDirty(s, v) ==
  /\ Current(s)
  /\ LET r == obj[s].curRec
     IN  /\ page' = [page EXCEPT ![r[1]].recs[r[2]] = v]
         /\ owed' = owed \cup {r[1]}
         /\ Forget(r)
  /\ obj' = [obj EXCEPT ![s].curDirty = TRUE]
  /\ UNCHANGED <<header, numPages, pinCnt>>
-----------------------------------------------------------------------------
(* InsertFileScan::insertRecord.                                           *)

InsertHere(i, v) ==
  /\ Usable(i)
  /\ LET p == obj[i].curPage
     IN  /\ Fits(p)
         /\ page' = [page EXCEPT ![p].recs = With(@, FreeSlot(p), v)]
         /\ owed' = owed \cup {p, HeaderPage}
  /\ header' = [header EXCEPT !.recCnt = @ + 1]
  /\ obj' = [obj EXCEPT ![i].curDirty = TRUE, ![i].hdrDirty = TRUE]
  /\ UNCHANGED <<numPages, pinCnt, scan, todo, seen>>

(* Wrong: the record behind is not counted. *)
Counted_Page(recs) == header.recCnt

Counted(recs) == header.recCnt + Cardinality(DOMAIN recs)

(* Wrong: the pages are counted, and the old last page does not lead on. *)
Linked_NotLast(i, recs) ==
  [page EXCEPT ![numPages] = [recs |-> recs, next |-> NoPage]]

(* The pages once a new one, with recs, follows the current one. *)
Linked(i, recs) ==
  [page EXCEPT ![numPages] = [recs |-> recs, next |-> NoPage],
               ![obj[i].curPage].next = numPages]

(* A page is full: a new one becomes the last of the file and the current  *)
(* one of the scan; the old one is unpinned as dirty.                      *)
Append(i, recs, dirty) ==
  /\ numPages \in DataPages
  /\ page' = Linked(i, recs)
  /\ header' = [header EXCEPT !.lastPage = numPages, !.pageCnt = @ + 1,
                              !.recCnt = Counted(recs)]
  /\ numPages' = numPages + 1
  /\ pinCnt' = Pin(UnPin(pinCnt, obj[i].curPageNo), numPages)
  /\ owed' = (owed \ {obj[i].curPageNo}) \cup {numPages, HeaderPage}
  /\ obj' = [obj EXCEPT ![i].curPage = numPages, ![i].curPageNo = numPages,
                        ![i].curDirty = dirty, ![i].hdrDirty = TRUE]
  /\ UNCHANGED <<scan, todo, seen>>

InsertBehind(i, v) ==
  /\ Usable(i)
  /\ ~Fits(obj[i].curPage)
  /\ Append(i, [s \in {0} |-> v], TRUE)

(* A record that is too long for an empty page with its slot: NOSPACE,     *)
(* twice, with a new page in between.                                      *)
InsertLong(i) ==
  /\ "long record" \in Departures
  /\ Usable(i)
  /\ Append(i, [s \in {} |-> 0], obj[i].curDirty)

(* allocPage fails; a page of the file may be lost. *)
InsertFails(i) ==
  /\ "alloc fails" \in Departures
  /\ Usable(i)
  /\ ~Fits(obj[i].curPage)
  /\ numPages \in DataPages
  /\ numPages' = numPages + 1
  /\ UNCHANGED <<header, page, pinCnt, owed, obj, scan, todo, seen>>

InsertRecord(i, v) == InsertHere(i, v) \/ InsertBehind(i, v)
-----------------------------------------------------------------------------
Next ==
  \/ \E o \in Plain : OpenHeapFile(o)
  \/ \E o \in Plain, r \in Records : GetRecord(o, r) \/ GetRecordFails(o, r)
  \/ \E o \in Objects : Close(o)
  \/ \E s \in Scans :
       \/ \E filter \in Filters : OpenScan(s, filter)
       \/ ScanNext(s)
       \/ EndScan(s)
       \/ MarkScan(s)
       \/ ResetScan(s)
       \/ ResetFails(s)
       \/ DeleteRecord(s)
       \/ DeleteAgain(s)
       \/ \E v \in Values : MarkDirty(s, v)
  \/ \E i \in Inserters :
       \/ OpenInserter(i)
       \/ OpenInserterFails(i)
       \/ \E v \in Values : InsertRecord(i, v)
       \/ InsertLong(i)
       \/ InsertFails(i)

Spec == Init /\ [][Next]_vars
-----------------------------------------------------------------------------
(* Properties.                                                             *)

(* "data page currently pinned in buffer pool", "page number of pinned     *)
(* page" (heapfile.h:45-46): the page that an object works on is its       *)
(* curPageNo, and every pin belongs to an open object, so that the flush   *)
(* of the last close finds no page pinned.                                 *)
PinsAreObjects ==
  /\ \A o \in Objects : HoldsPage(o) => obj[o].curPage = obj[o].curPageNo
  /\ \A p \in DataPages :
       pinCnt[p] = Cardinality({o \in Objects : HoldsPage(o) /\ obj[o].curPageNo = p})

(* The header page is pinned once for every open object, whatever fails:   *)
(* headerPage points into the pool until the destructor gives it up.       *)
HeaderHeld == pinCnt[HeaderPage] = Cardinality({o \in Objects : obj[o].open})

(* What BufMgr.tla takes users to do: whoever writes to a page unpins it   *)
(* as dirty, or somebody else does later, so that no write is lost.        *)
WritesDeclared == \A p \in owed : pinCnt[p] > 0

(* The chain leads from the first page to the last and has as many pages   *)
(* as the header says; no record is outside of it.                         *)
ChainSound ==
  LET chain == From(header.firstPage)
  IN  /\ header.lastPage \in chain
      /\ page[header.lastPage].next = NoPage
      /\ Cardinality(chain) = header.pageCnt
      /\ \A p \in DataPages : SlotsOf(p) # {} => p \in chain

(* "record count" (heapfile.h:33). *)
CountSound == header.recCnt = Cardinality(Records)

(* The file is a RecordFile: its records change only by the calls that     *)
(* mean to, whatever pages are added and scans are open.                   *)
RF == INSTANCE RecordFile WITH recs <- [r \in Records |-> ValueOf(r)], count <- header.recCnt
FileSpec == RF!Spec

(* "return RID of next record that satisfies the scan" (heapfile.h:85): at *)
(* its end a scan has returned every record that satisfies it and was      *)
(* there, unchanged, from the start of the scan on or from its mark.  (Not *)
(* if it was used again after endScan, which no caller does, and the first *)
(* page is empty.)                                                         *)
ScanComplete ==
  [][\A s \in Scans : ScanEnds(s) /\ ~FirstIsEmpty(s) =>
        {r \in todo[s] : ValueOf(r) \in scan[s].filter} = {}]_vars

(* A scan returns no record twice, unless it was reset to before it.       *)
ScanOnce == [][\A s \in Scans : ScanFinds(s) => obj'[s].curRec \notin seen[s]]_vars
=============================================================================
