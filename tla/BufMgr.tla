------------------------------- MODULE BufMgr -------------------------------
(***************************************************************************)
(* The buffer manager of Minirel (phase6/buf.C, the same code in phases 4  *)
(* and 5), the page table it keeps (bufHash.C), and the part of the file   *)
(* layer it calls (db.C).  The callers are the heap files, the catalogs    *)
(* and the sorts.  All they can do is here: read, allocate, write, unpin,  *)
(* flush, dispose, and end the process.                                    *)
(*                                                                         *)
(* The program is sequential: every call is one step.  What makes it hard  *)
(* is that calls of many users of the pool, with errors among them, follow *)
(* each other in any order over frames they share.                         *)
(***************************************************************************)
EXTENDS Integers, FiniteSets

LOCAL INSTANCE FiniteSetsExt

CONSTANTS
  Files,       \* the File objects
  NumBufs,     \* numBufs: frames in the pool
  MaxPages,    \* bound: pages of a file, its header page 0 not counted
  MaxPins,     \* bound: pins held at once, on all pages together
  Values,      \* the contents of a page
  Blank,       \* the content of a page that was zeroed
  NoPage,      \* the identity of a frame that holds nothing (NULL, -1)
  Departures   \* what callers and disks do beyond the good case

(* "absent read"   a caller asks for a page its file has not allocated     *)
(*                 (testbuf.C:198 does);                                   *)
(* "first dispose" a caller disposes of the first page of its file;        *)
(* "disk error"    a read or a write of the disk fails.                    *)
DepartureKinds == {"absent read", "first dispose", "disk error"}

Frames  == 0 .. NumBufs - 1
NoFrame == -1
PageNos == 1 .. MaxPages
Pages   == Files \X PageNos

ASSUME NumBufsAssumption    == NumBufs \in Nat \ {0}
ASSUME BoundsAssumption     == MaxPages \in Nat /\ MaxPins \in Nat
ASSUME ValuesAssumption     == Blank \in Values
ASSUME NoPageAssumption     == NoPage \notin Pages
ASSUME DeparturesAssumption == Departures \subseteq DepartureKinds

VARIABLES
  bufTable,    \* frame -> its BufDesc; file and pageNo are one field, page
  bufPool,     \* frame -> the content of the page in it
  hashTable,   \* page  -> its frame, or NoFrame
  clockHand,   \* the frame the sweep last looked at
  disk,        \* page  -> its content on disk
  file,        \* file  -> its page count and its free pages
  held,        \* page  -> frame -> pointers to that frame users hold for it
  owed,        \* pages written by a user that has not unpinned them dirty
  status       \* what the last call returned

vars == <<bufTable, bufPool, hashTable, clockHand, disk, file, held, owed, status>>

BufDesc == [page : Pages \cup {NoPage}, pinCnt : Nat, dirty : BOOLEAN,
            valid : BOOLEAN, refbit : BOOLEAN]

StatusCodes == {"OK", "BUFFEREXCEEDED", "UNIXERR", "BADPAGENO", "PAGEPINNED",
                "PAGENOTPINNED", "HASHNOTFOUND", "HASHTBLERROR", "BADBUFFER"}
-----------------------------------------------------------------------------
(* Frames and pages.                                                       *)

(* BufDesc::Set: the frame has been given to a page, with one pin on it. *)
Set(pg) == [page |-> pg, pinCnt |-> 1, dirty |-> FALSE, valid |-> TRUE, refbit |-> TRUE]

(* Wrong: the frame keeps its identity. *)
Clear_IdentityKept(b) == [b EXCEPT !.pinCnt = 0, !.dirty = FALSE]

(* BufDesc::Clear: everything but refbit is reset. *)
Clear(b) == [page |-> NoPage, pinCnt |-> 0, dirty |-> FALSE, valid |-> FALSE,
             refbit |-> b.refbit]

InPool(pg) == hashTable[pg] # NoFrame

(* Wrong: the entry of the victim stays in the table. *)
Unhashed_Kept(i) == hashTable

(* The table without the entry of what a frame held. *)
Unhashed(i) == IF bufTable[i].valid
               THEN [hashTable EXCEPT ![bufTable[i].page] = NoFrame]
               ELSE hashTable

(* Wrong: a victim that is still dirty is not written. *)
WrittenBack_Skipped(i) == disk

(* The disk after a dirty frame has been written to it. *)
WrittenBack(i) == IF bufTable[i].dirty
                  THEN [disk EXCEPT ![bufTable[i].page] = bufPool[i]]
                  ELSE disk

(* The pages of a file that are allocated.  Page 0 is the file's header.   *)
Allocated(f) == {p \in PageNos : p < file[f].numPages /\ p \notin file[f].free}
Live         == {pg \in Pages : pg[2] \in Allocated(pg[1])}
IsHeld(pg)   == \E i \in Frames : held[pg][i] > 0

-----------------------------------------------------------------------------
(* allocBuf: the clock.  At most two sweeps; the k-th frame looked at is   *)
(* taken when it is invalid, or when it is not pinned and its reference    *)
(* bit is off.  The first sweep turns the bits off, so in the second only  *)
(* pins protect a frame.  ClockSweep.tla checks this against the loop.     *)

FrameAt(k) == (clockHand + k) % NumBufs

Stops(k) == LET b == bufTable[FrameAt(k)]
            IN  ~b.valid \/ (b.pinCnt = 0 /\ (~b.refbit \/ k > NumBufs))

(* Wrong: the clock goes round once. *)
Candidates_OneSweep == {k \in 1 .. NumBufs : Stops(k)}

Candidates == {k \in 1 .. 2 * NumBufs : Stops(k)}
LastScan   == CHOOSE k \in Candidates : \A j \in Candidates : k <= j
Victim     == FrameAt(LastScan)

(* The frame table after the first n frames looked at were passed over. *)
Swept(n) == [i \in Frames |-> IF \E k \in 1 .. n : FrameAt(k) = i
                              THEN [bufTable[i] EXCEPT !.refbit = FALSE]
                              ELSE bufTable[i]]

(* allocBuf finds no frame: every one is pinned. *)
BufferExceeded == /\ Candidates = {}
                  /\ bufTable' = Swept(2 * NumBufs)
                  /\ status' = "BUFFEREXCEEDED"
                  /\ UNCHANGED <<hashTable, clockHand>>

(* allocBuf finds a frame but cannot write its page: it has removed the    *)
(* page from the table and leaves the frame valid and dirty.               *)
WriteBackFails == /\ "disk error" \in Departures
                  /\ Candidates # {}
                  /\ bufTable[Victim].dirty
                  /\ bufTable' = Swept(LastScan - 1)
                  /\ hashTable' = Unhashed(Victim)
                  /\ clockHand' = Victim
                  /\ status' = "UNIXERR"

AllocBufFails == BufferExceeded \/ WriteBackFails
-----------------------------------------------------------------------------
(* readPage.                                                               *)

(* Users ask for pages that are allocated, or for any. *)
Asked(pg) == pg \in Live \/ "absent read" \in Departures

Hold(pg, i) == held' = [held EXCEPT ![pg][i] = @ + 1]

(* The bound on pins. *)
MayHold == MapThenSumSet(LAMBDA at : held[at[1]][at[2]], Pages \X Frames) < MaxPins

(* Wrong: a page in the pool has one pin, however many users it has. *)
ReadHit_PinnedOnce(pg) ==
  /\ Asked(pg) /\ MayHold
  /\ InPool(pg)
  /\ bufTable' = [bufTable EXCEPT ![hashTable[pg]].refbit = TRUE,
                                  ![hashTable[pg]].pinCnt = 1]
  /\ Hold(pg, hashTable[pg])
  /\ status' = "OK"
  /\ UNCHANGED <<bufPool, hashTable, clockHand, disk, file, owed>>

ReadHit(pg) ==
  /\ Asked(pg) /\ MayHold
  /\ InPool(pg)
  /\ bufTable' = [bufTable EXCEPT ![hashTable[pg]].refbit = TRUE,
                                  ![hashTable[pg]].pinCnt = @ + 1]
  /\ Hold(pg, hashTable[pg])
  /\ status' = "OK"
  /\ UNCHANGED <<bufPool, hashTable, clockHand, disk, file, owed>>

ReadMiss(pg) ==
  /\ Asked(pg) /\ MayHold
  /\ ~InPool(pg)
  /\ Candidates # {}
  /\ pg[2] < file[pg[1]].numPages
  /\ disk' = WrittenBack(Victim)
  /\ bufPool' = [bufPool EXCEPT ![Victim] = disk'[pg]]
  /\ bufTable' = [Swept(LastScan - 1) EXCEPT ![Victim] = Set(pg)]
  /\ hashTable' = [Unhashed(Victim) EXCEPT ![pg] = Victim]
  /\ clockHand' = Victim
  /\ Hold(pg, Victim)
  /\ status' = "OK"
  /\ UNCHANGED <<file, owed>>

ReadWithoutFrame(pg) ==
  /\ Asked(pg)
  /\ ~InPool(pg)
  /\ AllocBufFails
  /\ UNCHANGED <<bufPool, disk, file, held, owed>>

(* The disk read fails, past the end of the file or for an error of the    *)
(* disk.  The victim has left the table, but its descriptor still says     *)
(* that it is valid and which page it holds, and its content is what the   *)
(* read left there.                                                        *)
ReadFails(pg) ==
  /\ Asked(pg)
  /\ ~InPool(pg)
  /\ Candidates # {}
  /\ pg[2] >= file[pg[1]].numPages \/ "disk error" \in Departures
  /\ disk' = WrittenBack(Victim)
  /\ bufTable' = Swept(LastScan - 1)
  /\ hashTable' = Unhashed(Victim)
  /\ clockHand' = Victim
  /\ \E x \in Values : bufPool' = [bufPool EXCEPT ![Victim] = x]
  /\ status' = "UNIXERR"
  /\ UNCHANGED <<file, held, owed>>

ReadPage(pg) == ReadHit(pg) \/ ReadMiss(pg) \/ ReadWithoutFrame(pg) \/ ReadFails(pg)
-----------------------------------------------------------------------------
(* unPinPage.  The dirty flag is set before the pin count is looked at.    *)

(* Wrong: the last flag given replaces the earlier ones. *)
UnPinned_LastFlag(pg, dirty) ==
  IF InPool(pg)
  THEN LET b == bufTable[hashTable[pg]]
       IN  /\ bufTable' = [bufTable EXCEPT
                ![hashTable[pg]].dirty  = dirty,
                ![hashTable[pg]].pinCnt = IF @ = 0 THEN 0 ELSE @ - 1]
           /\ status' = IF b.pinCnt = 0 THEN "PAGENOTPINNED" ELSE "OK"
  ELSE bufTable' = bufTable /\ status' = "HASHNOTFOUND"

(* Wrong: the pin count is not looked at. *)
UnPinned_NoCheck(pg, dirty) ==
  IF InPool(pg)
  THEN /\ bufTable' = [bufTable EXCEPT
            ![hashTable[pg]].dirty  = @ \/ dirty,
            ![hashTable[pg]].pinCnt = @ - 1]
       /\ status' = "OK"
  ELSE bufTable' = bufTable /\ status' = "HASHNOTFOUND"

UnPinned(pg, dirty) ==
  IF InPool(pg)
  THEN LET b == bufTable[hashTable[pg]]
       IN  /\ bufTable' = [bufTable EXCEPT
                ![hashTable[pg]].dirty  = @ \/ dirty,
                ![hashTable[pg]].pinCnt = IF @ = 0 THEN 0 ELSE @ - 1]
           /\ status' = IF b.pinCnt = 0 THEN "PAGENOTPINNED" ELSE "OK"
  ELSE bufTable' = bufTable /\ status' = "HASHNOTFOUND"

(* A user gives up a pointer.  A user that has written says so: only when  *)
(* another pointer to the page is left may a page that is owed be unpinned *)
(* without the dirty flag.                                                 *)
UnPinPage(pg, i, dirty) ==
  /\ held[pg][i] > 0
  /\ held' = [held EXCEPT ![pg][i] = @ - 1]
  /\ (pg \in owed /\ ~dirty) => \E j \in Frames : held'[pg][j] > 0
  /\ owed' = IF dirty THEN owed \ {pg} ELSE owed
  /\ UnPinned(pg, dirty)
  /\ UNCHANGED <<bufPool, hashTable, clockHand, disk, file>>

(* A user unpins a page nobody has pinned (testbuf.C:206). *)
UnPinAgain(pg, dirty) ==
  /\ ~IsHeld(pg)
  /\ UnPinned(pg, dirty)
  /\ UNCHANGED <<bufPool, hashTable, clockHand, disk, file, held, owed>>

(* A user writes through the Page pointer it holds. *)
WritePage(pg, i, x) ==
  /\ held[pg][i] > 0
  /\ bufPool' = [bufPool EXCEPT ![i] = x]
  /\ owed' = owed \cup {pg}
  /\ UNCHANGED <<bufTable, hashTable, clockHand, disk, file, held, status>>
-----------------------------------------------------------------------------
(* allocPage.  The file gives a page, from its free list or past its end,  *)
(* before a frame is looked for.                                           *)

(* File::allocatePage gives page p of file f. *)
AllocatePage(f, p) ==
  \/ /\ p \in file[f].free
     /\ file' = [file EXCEPT ![f].free = @ \ {p}]
  \/ /\ file[f].free = {}
     /\ p = file[f].numPages
     /\ file' = [file EXCEPT ![f].numPages = @ + 1]

(* The disk once page pg was given: a page past the end is written zeroed. *)
Extended(pg) == IF pg[2] = file[pg[1]].numPages THEN [disk EXCEPT ![pg] = Blank] ELSE disk

AllocPage(pg) ==
  /\ MayHold
  /\ AllocatePage(pg[1], pg[2])
  /\ Candidates # {}
  /\ Unhashed(Victim)[pg] = NoFrame
  /\ disk' = IF bufTable[Victim].dirty
             THEN [Extended(pg) EXCEPT ![bufTable[Victim].page] = bufPool[Victim]]
             ELSE Extended(pg)
  /\ bufTable' = [Swept(LastScan - 1) EXCEPT ![Victim] = Set(pg)]
  /\ hashTable' = [Unhashed(Victim) EXCEPT ![pg] = Victim]
  /\ clockHand' = Victim
  /\ Hold(pg, Victim)
  /\ owed' = owed \cup {pg}      \* users initialise a new page
  /\ status' = "OK"
  /\ UNCHANGED bufPool           \* the frame is not zeroed

(* No frame for the page: the file keeps it allocated, nobody has it. *)
AllocPageWithoutFrame(pg) ==
  /\ AllocatePage(pg[1], pg[2])
  /\ AllocBufFails
  /\ disk' = Extended(pg)
  /\ UNCHANGED <<bufPool, held, owed>>

(* The page is in the table already, because it was read while it was on   *)
(* the free list: the frame stays pinned and the caller gets an error.     *)
AllocPageHashed(pg) ==
  /\ AllocatePage(pg[1], pg[2])
  /\ Candidates # {}
  /\ Unhashed(Victim)[pg] # NoFrame
  /\ disk' = WrittenBack(Victim)
  /\ bufTable' = [Swept(LastScan - 1) EXCEPT ![Victim] = Set(pg)]
  /\ hashTable' = Unhashed(Victim)
  /\ clockHand' = Victim
  /\ status' = "HASHTBLERROR"
  /\ UNCHANGED <<bufPool, held, owed>>
(* File::allocatePage fails on one of its reads and writes: the header of  *)
(* the file, written last, is as it was.                                   *)
AllocPageRefused(pg) ==
  /\ "disk error" \in Departures
  /\ pg[2] \notin Allocated(pg[1])
  /\ status' = "UNIXERR"
  /\ \/ UNCHANGED disk
     \/ disk' = Extended(pg)
  /\ UNCHANGED <<bufTable, bufPool, hashTable, clockHand, file, held, owed>>
-----------------------------------------------------------------------------
(* flushFile: the frames of the file in order, up to the first pinned one. *)

OfFile(i, f)  == bufTable[i].page # NoPage /\ bufTable[i].page[1] = f
Blocks(i, f)  == OfFile(i, f) /\ (~bufTable[i].valid \/ bufTable[i].pinCnt > 0)
Blocking(f)   == {i \in Frames : Blocks(i, f)}
FirstBlocking(f) == IF Blocking(f) = {} THEN NumBufs
                    ELSE CHOOSE i \in Blocking(f) : \A j \in Blocking(f) : i <= j

(* Frames of file f below n are written if dirty and emptied.              *)
FlushBelow(f, n) ==
  LET gone   == {i \in Frames : i < n /\ OfFile(i, f)}
      Of(pg) == {i \in gone : bufTable[i].page = pg}
      Written(pg) == {i \in Of(pg) : bufTable[i].dirty}
  IN  /\ disk' = [pg \in Pages |->
                    IF Written(pg) = {} THEN disk[pg]
                    ELSE bufPool[CHOOSE i \in Written(pg) : \A j \in Written(pg) : j <= i]]
      /\ hashTable' = [pg \in Pages |-> IF Of(pg) = {} THEN hashTable[pg] ELSE NoFrame]
      /\ bufTable' = [i \in Frames |->
                        IF i \in gone
                        THEN [bufTable[i] EXCEPT !.page = NoPage, !.dirty = FALSE, !.valid = FALSE]
                        ELSE bufTable[i]]

FlushFile(f) ==
  /\ FlushBelow(f, FirstBlocking(f))
  /\ status' = IF Blocking(f) = {} THEN "OK"
               ELSE IF bufTable[FirstBlocking(f)].valid THEN "PAGEPINNED" ELSE "BADBUFFER"
  /\ UNCHANGED <<bufPool, clockHand, file, held, owed>>

(* A write of the flush fails; the frames before it have been flushed. *)
FlushFails(f) ==
  /\ "disk error" \in Departures
  /\ \E n \in Frames : /\ n < FirstBlocking(f)
                       /\ OfFile(n, f) /\ bufTable[n].dirty
                       /\ FlushBelow(f, n)
  /\ status' = "UNIXERR"
  /\ UNCHANGED <<bufPool, clockHand, file, held, owed>>
-----------------------------------------------------------------------------
(* disposePage.  The frame is cleared first, whatever the file says next.  *)

MayDispose(pg) == /\ pg \in Live /\ ~IsHeld(pg)
                  /\ pg[2] # 1 \/ "first dispose" \in Departures

(* The frame is cleared and the page leaves the table. *)
Forget(pg) ==
  /\ bufTable' = IF InPool(pg)
                 THEN [bufTable EXCEPT ![hashTable[pg]] = Clear(@)]
                 ELSE bufTable
  /\ hashTable' = [hashTable EXCEPT ![pg] = NoFrame]

DisposePage(pg) ==
  /\ MayDispose(pg)
  /\ Forget(pg)
  /\ IF pg[2] = 1                \* header.firstPage
     THEN status' = "BADPAGENO" /\ UNCHANGED <<file, disk>>
     ELSE /\ file' = [file EXCEPT ![pg[1]].free = @ \cup {pg[2]}]
          /\ disk' = [disk EXCEPT ![pg] = Blank]
          /\ status' = "OK"
  /\ UNCHANGED <<bufPool, clockHand, held, owed>>

(* A read or a write of File::disposePage fails: the page is still         *)
(* allocated, and may have been zeroed.                                    *)
DisposeFails(pg) ==
  /\ "disk error" \in Departures
  /\ MayDispose(pg)
  /\ Forget(pg)
  /\ \/ UNCHANGED disk
     \/ disk' = [disk EXCEPT ![pg] = Blank]
  /\ status' = "UNIXERR"
  /\ UNCHANGED <<bufPool, clockHand, file, held, owed>>
-----------------------------------------------------------------------------
(* The destructor writes what is dirty; the next process starts with an    *)
(* empty pool.  The process ends when no write is unaccounted for.         *)

EmptyFrame == [page |-> NoPage, pinCnt |-> 0, dirty |-> FALSE, valid |-> FALSE,
               refbit |-> FALSE]

(* Frames are written in order.  The result of the writes is not looked    *)
(* at: those of the frames in lost fail.                                   *)
DirtyOf(pg, lost) == {i \in Frames \ lost : /\ bufTable[i].valid /\ bufTable[i].dirty
                                            /\ bufTable[i].page = pg}
AllWritten(lost) ==
  [pg \in Pages |->
     IF DirtyOf(pg, lost) = {} THEN disk[pg]
     ELSE bufPool[CHOOSE i \in DirtyOf(pg, lost) : \A j \in DirtyOf(pg, lost) : j <= i]]

Restart ==
  /\ owed = {}
  /\ \E lost \in SUBSET Frames : /\ lost = {} \/ "disk error" \in Departures
                                /\ disk' = AllWritten(lost)
  /\ bufTable' = [i \in Frames |-> EmptyFrame]
  /\ bufPool' = [i \in Frames |-> Blank]
  /\ hashTable' = [pg \in Pages |-> NoFrame]
  /\ clockHand' = NumBufs - 1
  /\ held' = [pg \in Pages |-> [i \in Frames |-> 0]]
  /\ status' = "OK"
  /\ UNCHANGED <<file, owed>>
-----------------------------------------------------------------------------
Init ==
  /\ bufTable = [i \in Frames |-> EmptyFrame]
  /\ bufPool = [i \in Frames |-> Blank]
  /\ hashTable = [pg \in Pages |-> NoFrame]
  /\ clockHand = NumBufs - 1
  /\ disk = [pg \in Pages |-> Blank]
  /\ file = [f \in Files |-> [numPages |-> 1, free |-> {}]]
  /\ held = [pg \in Pages |-> [i \in Frames |-> 0]]
  /\ owed = {}
  /\ status = "OK"

Next ==
  \/ \E pg \in Pages :
       \/ ReadPage(pg)
       \/ AllocPage(pg)
       \/ AllocPageWithoutFrame(pg)
       \/ AllocPageHashed(pg)
       \/ AllocPageRefused(pg)
       \/ DisposePage(pg)
       \/ DisposeFails(pg)
       \/ \E dirty \in BOOLEAN : UnPinAgain(pg, dirty)
       \/ \E i \in Frames, dirty \in BOOLEAN : UnPinPage(pg, i, dirty)
       \/ \E i \in Frames, x \in Values : WritePage(pg, i, x)
  \/ \E f \in Files : FlushFile(f) \/ FlushFails(f)
  \/ Restart

Spec == Init /\ [][Next]_vars
-----------------------------------------------------------------------------
(* Properties.                                                             *)

(* Every variable has its type, and page numbers stay within the file:     *)
(* pin counts never go below zero (unPinPage), and a frame is valid just   *)
(* when it has a page.                                                     *)
TypeOK ==
  /\ bufTable \in [Frames -> BufDesc]
  /\ \A i \in Frames : bufTable[i].valid <=> bufTable[i].page # NoPage
  /\ bufPool \in [Frames -> Values]
  /\ hashTable \in [Pages -> Frames \cup {NoFrame}]
  /\ clockHand \in Frames
  /\ disk \in [Pages -> Values]
  /\ file \in [Files -> [numPages : 1 .. MaxPages + 1, free : SUBSET PageNos]]
  /\ \A f \in Files : \A p \in file[f].free : 1 < p /\ p < file[f].numPages
  /\ held \in [Pages -> [Frames -> Nat]]
  /\ owed \subseteq Pages
  /\ status \in StatusCodes

(* An entry of the table leads to a valid frame that holds the page it is  *)
(* looked up under: no readPage hands out another page than was asked for. *)
(* This holds whatever callers and disks do.                               *)
HashSound == \A pg \in Pages : InPool(pg) => bufTable[hashTable[pg]].page = pg

(* "Check if (file,pageNo) is currently in the buffer pool (ie. in the     *)
(* hash table)" (buf.h:34): a page that a valid frame holds is in the      *)
(* table, and that frame is the one the table gives; so no page is in two  *)
(* frames.                                                                 *)
FramesHashed == \A i \in Frames : bufTable[i].valid => hashTable[bufTable[i].page] = i

(* A pointer that a user holds leads to the page it was given for, and the *)
(* pin count of a frame is the number of those pointers: no page is        *)
(* evicted, flushed away or reused under a user, and no pin is left behind.*)
PinSound ==
  \A i \in Frames :
    /\ \A pg \in Pages : held[pg][i] > 0 => bufTable[i].page = pg
    /\ bufTable[i].pinCnt = IF bufTable[i].valid THEN held[bufTable[i].page][i] ELSE 0

(* A frame that is clean and whose page no user owes an unpin agrees with  *)
(* the disk: what allocBuf and flushFile drop without writing is not lost. *)
CleanOnDisk ==
  \A i \in Frames :
    bufTable[i].valid /\ ~bufTable[i].dirty /\ bufTable[i].page \notin owed
      => bufPool[i] = disk[bufTable[i].page]

(* The value of a page: in its frame if it has one, else on disk. *)
store == [pg \in Pages |-> IF InPool(pg) THEN bufPool[hashTable[pg]] ELSE disk[pg]]

(* Caching is invisible: reads, evictions, flushes and the end of the      *)
(* process never change the value of a page, and a write changes one.      *)
inUse == {pg \in Pages : IsHeld(pg)}
PS == INSTANCE PageStore WITH live <- Live
StoreSpec == PS!Spec

(* allocBuf reports a full pool only when every frame is pinned. *)
ExceededOnlyWhenPinned ==
  [][status' = "BUFFEREXCEEDED" /\ status' # status =>
       \A i \in Frames : bufTable[i].valid /\ bufTable[i].pinCnt > 0]_vars
=============================================================================
