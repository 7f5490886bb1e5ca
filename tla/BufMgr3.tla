------------------------------ MODULE BufMgr3 ------------------------------
(***************************************************************************)
(* The buffer manager of phase 3 (phase3/buf.C) with its page table, chain *)
(* by chain (bufHash.C), and the files (db.C): what the program of that    *)
(* phase, testbuf.C, calls.  BufMgr.tla is the one of phase 6; there the   *)
(* table is a function, and users and errors are any.                      *)
(***************************************************************************)
EXTENDS Integers, Sequences, SequencesExt

CONSTANTS
  Files,       \* the File objects; each is of one file
  NumBufs,     \* frames in the pool
  MaxPages,    \* bound: pages of a file, its header page 0 not counted
  HTSIZE,      \* chains of the page table
  Address,     \* File object -> the pointer to it, as an int
  MaxInt,      \* the largest int
  Blank        \* the content of a page that was zeroed

Frames == 0 .. NumBufs - 1
Pages  == Files \X (1 .. MaxPages)
NoPage == <<>>

ASSUME NumBufs3Assumption == NumBufs \in Nat \ {0} /\ HTSIZE \in Nat \ {0}

ASSUME AddressAssumption == Address \in [Files -> Int]

VARIABLES
  bufTable,    \* frame -> its BufDesc; file and pageNo are one field, page
  bufPool,     \* frame -> the content of the page in it
  ht,          \* the chains: sequences of pages with their frames
  clockHand,
  disk,        \* page -> its content on disk
  numPages,    \* file -> its pages on disk, page 0 among them
  exists, opened,      \* the files that exist, and are open
  status, page         \* what the last call returned; the frame it gave

pool == <<bufTable, bufPool, ht, clockHand, disk, numPages, exists, opened, status, page>>

EmptyFrame == [page |-> NoPage, pinCnt |-> 0, dirty |-> FALSE, valid |-> FALSE, refbit |-> FALSE]
Set(pg)    == [page |-> pg, pinCnt |-> 1, dirty |-> FALSE, valid |-> TRUE, refbit |-> TRUE]

InitPool ==
  /\ bufTable = [i \in Frames |-> EmptyFrame]
  /\ bufPool = [i \in Frames |-> Blank]
  /\ ht = [h \in 0 .. HTSIZE - 1 |-> <<>>]
  /\ clockHand = NumBufs - 1
  /\ disk = [pg \in Pages |-> Blank]
  /\ numPages = [f \in Files |-> 1]
  /\ opened = {}
  /\ status = "OK" /\ page = 0
-----------------------------------------------------------------------------
(* BufHashTbl.                                                             *)

(* The remainder has the sign of the sum: hash may lead in front of the    *)
(* table, and not "between 0 and HTSIZE-1" (buf.h:24).                     *)
Sum(pg)  == Address[pg[1]] + pg[2]
hash(pg) == IF Sum(pg) >= 0 THEN Sum(pg) % HTSIZE ELSE -((-Sum(pg)) % HTSIZE)

(* What lookup and insert do for other pages is undefined; none of these   *)
(* comes into the table.                                                   *)
Defined(pg) == Sum(pg) <= MaxInt /\ hash(pg) >= 0

Chain(table, pg) == table[hash(pg)]
Entries(table, pg) == SelectInSeq(Chain(table, pg), LAMBDA e : e.page = pg)

IsHashed(table, pg) == Entries(table, pg) # 0
lookup(table, pg)   == Chain(table, pg)[Entries(table, pg)].frameNo

insert(table, pg, frameNo) ==
  [table EXCEPT ![hash(pg)] = <<[page |-> pg, frameNo |-> frameNo]>> \o @]

(* Wrong: the first of the chain goes. *)
remove_First(table, pg) ==
  IF IsHashed(table, pg) THEN [table EXCEPT ![hash(pg)] = Tail(@)] ELSE table

remove(table, pg) ==
  IF IsHashed(table, pg) THEN [table EXCEPT ![hash(pg)] = RemoveAt(@, Entries(table, pg))]
  ELSE table

(* The chain when every page of a set has been removed. *)
Without(chain, gone) ==
  LET kept[k \in 0 .. Len(chain)] ==
        IF k = 0 THEN <<>>
        ELSE IF chain[k].page \in gone THEN kept[k - 1] ELSE Append(kept[k - 1], chain[k])
  IN  kept[Len(chain)]
-----------------------------------------------------------------------------
(* allocBuf.  The k-th frame looked at is taken if it is invalid, or if it *)
(* is not pinned and its reference bit is off, as it is the second time.   *)

FrameAt(k) == (clockHand + k) % NumBufs

Stops(k) == LET b == bufTable[FrameAt(k)]
            IN  ~b.valid \/ (b.pinCnt = 0 /\ (~b.refbit \/ k > NumBufs))

Candidates == {k \in 1 .. 2 * NumBufs : Stops(k)}
LastScan   == CHOOSE k \in Candidates : \A j \in Candidates : k <= j
Victim     == FrameAt(LastScan)

Swept(n) == [i \in Frames |-> IF \E k \in 1 .. n : FrameAt(k) = i
                              THEN [bufTable[i] EXCEPT !.refbit = FALSE]
                              ELSE bufTable[i]]

(* Wrong: the victim is not written. *)
WrittenBack_Skipped(d) == d

(* The disk with the victim written, and the table without it.  An invalid *)
(* victim has no entry.                                                    *)
WrittenBack(d) == IF bufTable[Victim].valid /\ bufTable[Victim].dirty
                  THEN [d EXCEPT ![bufTable[Victim].page] = bufPool[Victim]] ELSE d
Unhashed == IF bufTable[Victim].valid THEN remove(ht, bufTable[Victim].page) ELSE ht

(* BUFFEREXCEEDED: a whole number of turns, so the hand is where it was.   *)
Exceeded == /\ Candidates = {}
            /\ bufTable' = Swept(2 * NumBufs)
            /\ status' = "BUFFEREXCEEDED"
            /\ UNCHANGED <<bufPool, ht, clockHand, page>>

(* The victim is given to page pg with this content. *)
Given(pg, content) ==
  /\ bufTable' = [Swept(LastScan - 1) EXCEPT ![Victim] = Set(pg)]
  /\ bufPool' = [bufPool EXCEPT ![Victim] = content]
  /\ ht' = insert(Unhashed, pg, Victim)
  /\ clockHand' = Victim
  /\ page' = Victim
  /\ status' = "OK"
-----------------------------------------------------------------------------
(* The calls.                                                              *)

ReadHit(pg) ==
  /\ IsHashed(ht, pg)
  /\ LET i == lookup(ht, pg)
     IN  /\ bufTable' = [bufTable EXCEPT ![i].refbit = TRUE, ![i].pinCnt = @ + 1]
         /\ page' = i
  /\ status' = "OK"
  /\ UNCHANGED <<bufPool, ht, clockHand, disk>>

ReadMiss(pg) ==
  /\ ~IsHashed(ht, pg)
  /\ \/ Exceeded /\ UNCHANGED disk
     \/ /\ Candidates # {}
        /\ pg[2] < numPages[pg[1]]
        /\ disk' = WrittenBack(disk)
        /\ Given(pg, disk'[pg])

(* The page is past the end of its file: the victim has lost its entry and *)
(* remains as it is.                                                       *)
ReadFails(pg) ==
  /\ ~IsHashed(ht, pg)
  /\ Candidates # {}
  /\ pg[2] >= numPages[pg[1]]
  /\ disk' = WrittenBack(disk)
  /\ bufTable' = [Swept(LastScan - 1) EXCEPT ![Victim].dirty = FALSE]
  /\ ht' = Unhashed
  /\ clockHand' = Victim
  /\ status' = "UNIXERR"
  /\ UNCHANGED <<bufPool, page>>

ReadPage(pg) == /\ Defined(pg)
                /\ ReadHit(pg) \/ ReadMiss(pg) \/ ReadFails(pg)
                /\ UNCHANGED <<numPages, exists, opened>>

(* unPinPage: the dirty flag is looked at after the pin count. *)
UnPinPage(pg, dirty) ==
  /\ Defined(pg)
  /\ IF ~IsHashed(ht, pg)
     THEN status' = "HASHNOTFOUND" /\ UNCHANGED bufTable
     ELSE LET i == lookup(ht, pg)
          IN  IF bufTable[i].pinCnt = 0
              THEN status' = "PAGENOTPINNED" /\ UNCHANGED bufTable
              ELSE /\ bufTable' = [bufTable EXCEPT ![i].pinCnt = @ - 1, ![i].dirty = @ \/ dirty]
                   /\ status' = "OK"
  /\ UNCHANGED <<bufPool, ht, clockHand, disk, numPages, exists, opened, page>>

(* allocPage: the file gets a page in any case.  The caller fills it, or   *)
(* leaves what the frame held before.                                      *)
NewPage(f) == <<f, numPages[f]>>

AllocPage(f, fills) ==
  /\ numPages[f] <= MaxPages
  /\ numPages' = [numPages EXCEPT ![f] = @ + 1]
  /\ LET extended == [disk EXCEPT ![NewPage(f)] = Blank]
     IN  \/ Exceeded /\ disk' = extended
         \/ /\ Candidates # {}
            /\ Defined(NewPage(f))
            /\ disk' = WrittenBack(extended)
            /\ Given(NewPage(f), IF fills THEN NewPage(f) ELSE bufPool[Victim])
  /\ UNCHANGED <<exists, opened>>

(* flushFile: the frames of the file up to the first that is pinned. *)
OfFile(i, f) == bufTable[i].valid /\ bufTable[i].page[1] = f

Flushed(f) == {i \in Frames : /\ OfFile(i, f)
                              /\ \A k \in 0 .. i : OfFile(k, f) => bufTable[k].pinCnt = 0}

FlushStatus(f) == IF \E i \in Frames : OfFile(i, f) /\ bufTable[i].pinCnt > 0 THEN "PAGEPINNED" ELSE "OK"

DoFlush(f) ==
  /\ disk' = [pg \in Pages |->
                IF \E i \in Flushed(f) : bufTable[i].page = pg /\ bufTable[i].dirty
                THEN bufPool[CHOOSE i \in Flushed(f) : bufTable[i].page = pg /\ bufTable[i].dirty]
                ELSE disk[pg]]
  /\ ht' = [h \in DOMAIN ht |-> Without(ht[h], {bufTable[i].page : i \in Flushed(f)})]
  /\ bufTable' = [i \in Frames |->
                    IF i \in Flushed(f)
                    THEN [bufTable[i] EXCEPT !.page = NoPage, !.dirty = FALSE, !.valid = FALSE]
                    ELSE bufTable[i]]
  /\ UNCHANGED <<bufPool, clockHand, numPages, exists, page>>

FlushFile(f) == /\ DoFlush(f)
                /\ status' = FlushStatus(f)
                /\ UNCHANGED opened
-----------------------------------------------------------------------------
(* DB: every file is opened once.  closeFile does not look at how the      *)
(* flush went.                                                             *)

Unchanged == UNCHANGED <<bufTable, bufPool, ht, clockHand, disk, page>>

CreateFile(f) == /\ status' = IF f \in exists THEN "FILEEXISTS" ELSE "OK"
                 /\ exists' = exists \cup {f}
                 /\ numPages' = IF f \in exists THEN numPages ELSE [numPages EXCEPT ![f] = 1]
                 /\ UNCHANGED opened /\ Unchanged

OpenFile(f) == /\ status' = IF f \in exists THEN "OK" ELSE "UNIXERR"
               /\ opened' = IF f \in exists THEN opened \cup {f} ELSE opened
               /\ UNCHANGED <<exists, numPages>> /\ Unchanged

CloseFile(f) == /\ DoFlush(f)
                /\ opened' = opened \ {f}
                /\ status' = "OK"

DestroyFile(f) == /\ status' = IF f \in opened THEN "FILEOPEN" ELSE IF f \in exists THEN "OK" ELSE "UNIXERR"
                  /\ exists' = IF f \in opened THEN exists ELSE exists \ {f}
                  /\ UNCHANGED <<opened, numPages>> /\ Unchanged
=============================================================================
