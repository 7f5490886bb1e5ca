----------------------------- MODULE HeapFile4 -----------------------------
(***************************************************************************)
(* Heap files as phase 4 has them (phase4/heapfile.C), with the pages      *)
(* (page.C) and the open files (db.C) they use, as far as the program of   *)
(* that phase, testfile.C, gets.  Phase 6 differs: there a scan starts and *)
(* ends its pages otherwise, an InsertFileScan starts at the last page.    *)
(*                                                                         *)
(* An operation takes the files w and an object o, and gives both as they  *)
(* are then, with a status.                                                *)
(***************************************************************************)
EXTENDS Integers, Sequences, FiniteSetsExt, Functions, TLC

CONSTANTS
  PageSpace,   \* bytes for records and slots on a page (PAGESIZE - DPFIXED)
  SlotSize,    \* bytes of a slot
  IntSize      \* bytes of an int, and of a float

ASSUME Sizes4Assumption == PageSpace \in Nat /\ SlotSize \in Nat \ {0} /\ IntSize \in Nat \ {0}

(* A record is [i, f, len]: its two numbers, and its length in bytes with  *)
(* those of a string that follows them.                                    *)
HeaderPage == 1
NoPage     == -1
NullRid    == <<-1, -1>>
-----------------------------------------------------------------------------
(* Page.                                                                   *)

EmptyPage == [recs |-> <<>>, next |-> NoPage]
Zeroed    == [recs |-> <<>>, next |-> 0]

SlotCnt(pg)   == IF DOMAIN pg.recs = {} THEN 0 ELSE Max(DOMAIN pg.recs) + 1
FreeSpace(pg) == PageSpace - MapThenSumSet(LAMBDA s : pg.recs[s].len, DOMAIN pg.recs)
                           - SlotSize * SlotCnt(pg)

Fits(pg, r)   == r.len + SlotSize <= FreeSpace(pg)
FreeSlot(pg)  == Min(0 .. SlotCnt(pg) \ DOMAIN pg.recs)
WithRecord(pg, r)    == [pg EXCEPT !.recs = (FreeSlot(pg) :> r) @@ @]
WithoutRecord(pg, s) == [pg EXCEPT !.recs = Restrict(@, DOMAIN @ \ {s})]
-----------------------------------------------------------------------------
(* Files: w.disk, the pages of each file that exists; w.opens, how often   *)
(* it is open; w.pool, the pages that are pinned.  The pool is as pressing *)
(* as can be: a page that nobody pins is gone, written if it is dirty.     *)

Exists(w, f) == f \in DOMAIN w.disk
IsOpen(w, f) == w.opens[f] > 0

OpenFile(w, f) == [w EXCEPT !.opens[f] = @ + 1]

(* Wrong: the open count stays. *)
CloseFile_Kept(w, f) == w

(* The flush at the last close finds no page: each is pinned or gone. *)
CloseFile(w, f) == [w EXCEPT !.opens[f] = @ - 1]

(* DB::destroyFile, and its status. *)
DestroyStatus(w, f) == IF IsOpen(w, f) THEN "FILEOPEN" ELSE IF ~Exists(w, f) THEN "UNIXERR" ELSE "OK"
DestroyFile(w, f)   == IF DestroyStatus(w, f) = "OK"
                       THEN [w EXCEPT !.disk = Restrict(@, DOMAIN @ \ {f})] ELSE w

IsPinned(w, f, p) == <<f, p>> \in DOMAIN w.pool
Content(w, f, p)  == w.pool[<<f, p>>].page
Header(w, f)      == Content(w, f, HeaderPage)
PageAt(w, f, p)   == IF IsPinned(w, f, p) THEN Content(w, f, p) ELSE w.disk[f][p]

Put(w, f, p, page) == [w EXCEPT !.pool[<<f, p>>].page = page]

ReadPage(w, f, p) ==
  IF IsPinned(w, f, p) THEN [w EXCEPT !.pool[<<f, p>>].pins = @ + 1]
  ELSE [w EXCEPT !.pool = (<<f, p>> :> [pins |-> 1, dirty |-> FALSE, page |-> w.disk[f][p]]) @@ @]

NewPageNo(w, f) == Len(w.disk[f]) + 1

(* allocPage gives page NewPageNo; its caller fills it with page. *)
AllocPage(w, f, page) ==
  Put(ReadPage([w EXCEPT !.disk[f] = Append(@, Zeroed)], f, NewPageNo(w, f)),
      f, NewPageNo(w, f), page)

(* unPinPage; HASHNOTFOUND if the page is not in the pool. *)
UnPinPage(w, f, p, dirty) ==
  IF ~IsPinned(w, f, p) THEN w
  ELSE LET b == w.pool[<<f, p>>]
       IN  IF b.pins > 1
           THEN [w EXCEPT !.pool[<<f, p>>].pins = @ - 1, !.pool[<<f, p>>].dirty = @ \/ dirty]
           ELSE [w EXCEPT !.pool = Restrict(@, DOMAIN @ \ {<<f, p>>}),
                          !.disk[f][p] = IF b.dirty \/ dirty THEN b.page ELSE @]
-----------------------------------------------------------------------------
(* createHeapFile.  A file that exists is found out by opening it, and     *)
(* stays open.                                                             *)

NewHeader == [firstPage |-> 2, lastPage |-> 2, pageCnt |-> 1, recCnt |-> 0]

CreateStatus(w, f) == IF Exists(w, f) THEN "FILEEXISTS" ELSE "OK"

(* Both pages are dirty when they are unpinned, and the file is closed. *)
CreateHeapFile(w, f) ==
  IF Exists(w, f) THEN OpenFile(w, f)
  ELSE [w EXCEPT !.disk = (f :> <<NewHeader, EmptyPage>>) @@ @]
-----------------------------------------------------------------------------
(* Objects.                                                                *)

NoFilter == [attr |-> "none", op |-> "EQ", value |-> 0]

Null == [file |-> "none", curPageNo |-> NoPage, curDirty |-> FALSE, hdrDirty |-> FALSE,
         curRec |-> NullRid, filter |-> NoFilter]

Result(w, o, status) == [db |-> w, obj |-> o, status |-> status]

(* The constructors: the header page and the first data page are pinned.   *)
(* The files that testfile.C opens exist.                                  *)
Opened(w, f) ==
  LET header == ReadPage(OpenFile(w, f), f, HeaderPage)
      first  == Header(header, f).firstPage
  IN  Result(ReadPage(header, f, first), [Null EXCEPT !.file = f, !.curPageNo = first], "OK")

(* The object unpins its data page, if it has one. *)
Released(w, o, dirty) ==
  IF o.curPageNo = NoPage THEN w ELSE UnPinPage(w, o.file, o.curPageNo, dirty)

(* The destructors of HeapFile and HeapFileScan. *)
Deleted(w, o) ==
  CloseFile(UnPinPage(Released(w, o, o.curDirty), o.file, HeaderPage, o.hdrDirty), o.file)

(* Wrong: the page an InsertFileScan is at stays pinned. *)
DeletedInserter_Kept(w, o) == Deleted(w, [o EXCEPT !.curPageNo = NoPage])

(* That of InsertFileScan: its page is dirty in any case. *)
DeletedInserter(w, o) == Deleted(Released(w, o, TRUE), [o EXCEPT !.curPageNo = NoPage])

(* endScan. *)
EndScan(w, o) == Result(Released(w, o, o.curDirty),
                        [o EXCEPT !.curPageNo = NoPage, !.curDirty = FALSE], "OK")

(* startScan.  An int and a float have one length. *)
StartScan(w, o, filter, type, length) ==
  IF filter = NoFilter THEN Result(w, [o EXCEPT !.filter = NoFilter], "OK")
  ELSE IF length < 1 \/ (type \in {"INTEGER", "FLOAT"} /\ length # IntSize)
  THEN Result(w, o, "BADSCANPARM")
  ELSE Result(w, [o EXCEPT !.filter = filter], "OK")
-----------------------------------------------------------------------------
(* HeapFile::getRecord; r.rec is the record. *)

GetRecord(w, o, rid) ==
  LET v == IF rid[1] = o.curPageNo THEN w
           ELSE ReadPage(Released(w, o, FALSE), o.file, rid[1])
      recs == Content(v, o.file, rid[1]).recs
      at   == [o EXCEPT !.curPageNo = rid[1]]
  IN  IF rid[2] \in DOMAIN recs
      THEN [db |-> v, obj |-> [at EXCEPT !.curRec = rid], status |-> "OK", rec |-> recs[rid[2]]]
      ELSE [db |-> v, obj |-> at, status |-> "INVALIDSLOTNO", rec |-> [i |-> -1, f |-> -1, len |-> 0]]
-----------------------------------------------------------------------------
(* scanNext.                                                               *)

Matches(filter, r) ==
  LET a == IF filter.attr = "i" THEN r.i ELSE r.f
  IN  CASE filter.attr = "none" -> TRUE
        [] filter.op = "LT"  -> a < filter.value
        [] filter.op = "GT"  -> a > filter.value
        [] filter.op = "GTE" -> a >= filter.value
        [] OTHER             -> a = filter.value

(* Where the search behind slot s of page p ends: at a record that         *)
(* matches, at the end of the file, or where the chain breaks off.         *)
EndOfFile == -1
Broken    == -2

Target(w, o, p, s) ==
  LET last == Header(w, o.file).lastPage
      Page(q) == PageAt(w, o.file, q)
      Hits(q) == {t \in DOMAIN Page(q).recs : /\ q = p => t > s
                                              /\ Matches(o.filter, Page(q).recs[t])}
      From[q \in DOMAIN w.disk[o.file]] ==
        IF Hits(q) # {} THEN <<q, Min(Hits(q))>>
        ELSE IF q = last THEN <<q, EndOfFile>>
        ELSE IF Page(q).next = NoPage THEN <<q, Broken>>
        ELSE From[Page(q).next]
  IN  From[p]

(* Wrong: the page that the scan leaves is unpinned as clean.              *)
MovedTo_Clean(w, o, p) == IF p = o.curPageNo THEN w ELSE ReadPage(Released(w, o, FALSE), o.file, p)

(* The object unpins its page and pins page p; those between are pinned    *)
(* for the time they are looked at.                                        *)
MovedTo(w, o, p) == IF p = o.curPageNo THEN w
                    ELSE ReadPage(Released(w, o, o.curDirty), o.file, p)

(* Only the slot of curRec is looked at, on the page that is current.  At  *)
(* the end of the file that can be another one than that of curRec.        *)
Behind(o) == o.curRec[2]

ScanNext(w, o) ==
  LET t  == Target(w, o, o.curPageNo, Behind(o))
      at == [o EXCEPT !.curPageNo = t[1], !.curDirty = @ /\ t[1] = o.curPageNo]
  IN  CASE t[2] = EndOfFile -> Result(MovedTo(w, o, t[1]), at, "FILEEOF")
        [] t[2] = Broken    -> Result(Released(w, o, o.curDirty), at, "BADPAGENO")
        [] OTHER            -> Result(MovedTo(w, o, t[1]), [at EXCEPT !.curRec = t], "OK")

(* HeapFileScan::getRecord. *)
CurrentRecord(w, o) == Content(w, o.file, o.curPageNo).recs[o.curRec[2]]

DeleteRecord(w, o) ==
  LET page == Content(w, o.file, o.curPageNo)
      data == Put(w, o.file, o.curPageNo, WithoutRecord(page, o.curRec[2]))
  IN  Result(Put(data, o.file, HeaderPage, [Header(w, o.file) EXCEPT !.recCnt = @ - 1]),
             [o EXCEPT !.curDirty = TRUE, !.hdrDirty = TRUE],
             IF o.curRec[2] \in DOMAIN page.recs THEN "OK" ELSE "INVALIDSLOTNO")
-----------------------------------------------------------------------------
(* InsertFileScan::insertRecord.                                           *)

(* The record goes to page p, which is current and pinned. *)
Inserted(w, o, p, r) ==
  LET page == Content(w, o.file, p)
      data == Put(w, o.file, p, WithRecord(page, r))
  IN  Result(Put(data, o.file, HeaderPage, [Header(w, o.file) EXCEPT !.recCnt = @ + 1]),
             [o EXCEPT !.curPageNo = p, !.curDirty = TRUE, !.hdrDirty = TRUE,
                       !.curRec = <<p, FreeSlot(page)>>], "OK")

(* A new page behind the current one, which is unpinned, with the header   *)
(* that says so.                                                           *)
Linked(w, o) ==
  LET p == NewPageNo(w, o.file)
      v == AllocPage(w, o.file, EmptyPage)
      u == Put(v, o.file, o.curPageNo, [Content(v, o.file, o.curPageNo) EXCEPT !.next = p])
  IN  Put(UnPinPage(u, o.file, o.curPageNo, o.curDirty), o.file, HeaderPage,
          [Header(v, o.file) EXCEPT !.lastPage = p, !.pageCnt = @ + 1])

(* An object that is not at the last page unpins that one, not its own.    *)
InsertRecord(w, o, r) ==
  LET last == Header(w, o.file).lastPage
      v    == IF o.curPageNo = last THEN w
              ELSE ReadPage(UnPinPage(w, o.file, last, o.curDirty), o.file, last)
      at   == IF o.curPageNo = last THEN o
              ELSE [o EXCEPT !.curPageNo = last, !.curDirty = FALSE]
  IN  IF r.len > PageSpace THEN Result(w, o, "INVALIDRECLEN")
      ELSE IF o.curPageNo # last /\ ~IsPinned(w, o.file, last) THEN Result(w, o, "HASHNOTFOUND")
      ELSE IF Fits(Content(v, o.file, last), r) THEN Inserted(v, at, last, r)
      ELSE IF Fits(EmptyPage, r) THEN Inserted(Linked(v, at), at, NewPageNo(v, o.file), r)
      ELSE Result(Linked(v, at), [at EXCEPT !.curPageNo = NewPageNo(v, o.file)], "NOSPACE")
=============================================================================
