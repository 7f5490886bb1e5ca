--------------------------- MODULE BufMgr_proofs ---------------------------
(***************************************************************************)
(* Theorems about the buffer manager, for any pool, files and pages.       *)
(*                                                                         *)
(* TypeCorrect and TableSound hold whatever callers and disks do.  The     *)
(* others are about callers and disks that do nothing beyond the good      *)
(* case (Departures = {}); the runs of MCBufMgr show that they need it.    *)
(***************************************************************************)
EXTENDS ClockSweep, NatLemmas

-----------------------------------------------------------------------------
(* The clock.                                                              *)

(* The frames that the clock looks at are frames of the pool, and each one *)
(* comes up in the second sweep.                                           *)
LEMMA ClockFrames ==
  ASSUME clockHand \in Frames
  PROVE  /\ \A k \in Nat : FrameAt(k) \in Frames
         /\ \A i \in Frames : \E k \in NumBufs + 1 .. 2 * NumBufs : FrameAt(k) = i
BY NumBufsAssumption, Modulo DEF FrameAt, Frames

(* What allocBuf takes is a frame that is invalid or not pinned. *)
LEMMA VictimFree ==
  ASSUME TypeOK, Candidates # {}
  PROVE  /\ LastScan \in 1 .. 2 * NumBufs
         /\ Victim \in Frames
         /\ ~bufTable[Victim].valid \/ bufTable[Victim].pinCnt = 0
<1>1. \E k \in Candidates : \A j \in Candidates : k <= j
  <2>1. Candidates \subseteq Nat
    BY NumBufsAssumption DEF Candidates
  <2> QED
    BY <2>1, LeastElement
<1>2. LastScan \in Candidates
  BY <1>1 DEF LastScan
<1>3. LastScan \in 1 .. 2 * NumBufs /\ Stops(LastScan)
  BY <1>2 DEF Candidates
<1>4. LastScan \in Nat
  BY <1>3, NumBufsAssumption
<1>5. Victim \in Frames
  BY <1>4, ClockFrames DEF Victim, TypeOK
<1> QED
  BY <1>3, <1>5 DEF Stops, Victim

(* allocBuf finds nothing only when every frame is pinned. *)
LEMMA FullPoolPinned ==
  ASSUME TypeOK, Candidates = {}
  PROVE  \A i \in Frames : bufTable[i].valid /\ bufTable[i].pinCnt > 0
<1> SUFFICES ASSUME NEW i \in Frames
             PROVE  bufTable[i].valid /\ bufTable[i].pinCnt > 0
  OBVIOUS
<1>1. PICK k \in NumBufs + 1 .. 2 * NumBufs : FrameAt(k) = i
  BY ClockFrames DEF TypeOK
<1>2. k \in 1 .. 2 * NumBufs /\ k > NumBufs
  BY NumBufsAssumption
<1>3. ~Stops(k)
  BY <1>2 DEF Candidates
<1>4. bufTable[i].valid /\ bufTable[i].pinCnt # 0
  BY <1>1, <1>2, <1>3 DEF Stops
<1>5. bufTable[i].pinCnt \in Nat
  BY DEF TypeOK, BufDesc
<1> QED
  BY <1>4, <1>5

(* The sweep touches nothing but reference bits. *)
LEMMA SweptKeeps ==
  ASSUME TypeOK, NEW n
  PROVE  /\ Swept(n) \in [Frames -> BufDesc]
         /\ \A i \in Frames : /\ Swept(n)[i].page = bufTable[i].page
                              /\ Swept(n)[i].pinCnt = bufTable[i].pinCnt
                              /\ Swept(n)[i].dirty = bufTable[i].dirty
                              /\ Swept(n)[i].valid = bufTable[i].valid
<1>1. ASSUME NEW b \in BufDesc
      PROVE  /\ [b EXCEPT !.refbit = FALSE] \in BufDesc
             /\ [b EXCEPT !.refbit = FALSE].page = b.page
             /\ [b EXCEPT !.refbit = FALSE].pinCnt = b.pinCnt
             /\ [b EXCEPT !.refbit = FALSE].dirty = b.dirty
             /\ [b EXCEPT !.refbit = FALSE].valid = b.valid
  BY DEF BufDesc
<1>2. ASSUME NEW i \in Frames
      PROVE  bufTable[i] \in BufDesc /\ Swept(n)[i] \in {bufTable[i], [bufTable[i] EXCEPT !.refbit = FALSE]}
  BY DEF Swept, TypeOK
<1>3. \A i \in Frames : Swept(n)[i] \in BufDesc
  BY <1>1, <1>2
<1>4. Swept(n) \in [Frames -> BufDesc]
  BY <1>3 DEF Swept
<1> QED
  BY <1>1, <1>2, <1>4

-----------------------------------------------------------------------------
(* Types.  TypeOK is inductive.                                            *)

(* The part of TypeOK that is about the frame table. *)
TableOK(table) == /\ table \in [Frames -> BufDesc]
                  /\ \A i \in Frames : table[i].valid <=> table[i].page # NoPage

(* The frames are as they should be when no call is under way.           *)
LEMMA TableOKNow == TypeOK => TableOK(bufTable)
BY DEF TypeOK, TableOK

(* The frame descriptions that the operations make. *)
LEMMA Descriptions ==
  /\ \A pg \in Pages : /\ Set(pg) \in BufDesc
                       /\ Set(pg).page = pg /\ Set(pg).page # NoPage
                       /\ Set(pg).pinCnt = 1 /\ ~Set(pg).dirty /\ Set(pg).valid
  /\ \A b \in BufDesc : /\ Clear(b) \in BufDesc
                        /\ Clear(b).page = NoPage /\ Clear(b).pinCnt = 0
                        /\ ~Clear(b).dirty /\ ~Clear(b).valid
  /\ EmptyFrame \in BufDesc /\ ~EmptyFrame.valid /\ EmptyFrame.page = NoPage
  /\ EmptyFrame.pinCnt = 0 /\ ~EmptyFrame.dirty
BY NoPageAssumption DEF Set, Clear, EmptyFrame, BufDesc

(* Frame i given to page pg in a table that is well formed. *)
LEMMA GivenTo ==
  ASSUME NEW table, TableOK(table), NEW i \in Frames, NEW pg \in Pages
  PROVE  TableOK([table EXCEPT ![i] = Set(pg)])
BY Descriptions DEF TableOK

(* A sweep of the clock changes reference bits only.                     *)
LEMMA SweptOK == TypeOK => \A n : TableOK(Swept(n))
BY SweptKeeps DEF TypeOK, TableOK

(* Without the entry of a frame the hash table is one.                   *)
LEMMA UnhashedType ==
  ASSUME TypeOK, NEW i \in Frames
  PROVE  Unhashed(i) \in [Pages -> Frames \cup {NoFrame}]
BY DEF TypeOK, Unhashed

(* What is on disk when a frame has been written back.                   *)
LEMMA WrittenBackType ==
  ASSUME TypeOK, NEW i \in Frames
  PROVE  WrittenBack(i) \in [Pages -> Values]
BY DEF TypeOK, WrittenBack

(* One more pin for a user's page.                                       *)
LEMMA HoldType ==
  ASSUME TypeOK, NEW pg \in Pages, NEW i \in Frames, Hold(pg, i)
  PROVE  held' \in [Pages -> [Frames -> Nat]]
BY DEF TypeOK, Hold

(* One greatest frame among those that a write loop passes. *)
LEMMA LastFrame ==
  ASSUME NEW S \in SUBSET Frames, S # {}
  PROVE  (CHOOSE i \in S : \A j \in S : j <= i) \in S
<1>1. S \subseteq 0 .. NumBufs
  BY NumBufsAssumption DEF Frames
<1>2. \E i \in S : \A j \in S : j <= i
  BY <1>1, NumBufsAssumption, GreatestElement
<1> QED
  BY <1>2

(* What allocBuf leaves behind when it fails. *)
LEMMA AllocFailType ==
  ASSUME TypeOK, AllocBufFails
  PROVE  /\ TableOK(bufTable')
         /\ hashTable' \in [Pages -> Frames \cup {NoFrame}]
         /\ clockHand' \in Frames
         /\ status' \in StatusCodes
<1>1. CASE BufferExceeded
  BY <1>1, SweptOK DEF BufferExceeded, TypeOK, StatusCodes
<1>2. CASE WriteBackFails
  BY <1>2, SweptOK, VictimFree, UnhashedType DEF WriteBackFails, StatusCodes
<1> QED
  BY <1>1, <1>2 DEF AllocBufFails

(* readPage keeps the types, whatever its outcome.                       *)
LEMMA ReadType ==
  ASSUME TypeOK, NEW pg \in Pages, ReadPage(pg)
  PROVE  TypeOK'
<1>1. CASE ReadHit(pg)
  <2>1. hashTable[pg] \in Frames
    BY <1>1 DEF TypeOK, ReadHit, InPool
  <2>2. TableOK(bufTable')
    BY <1>1, <2>1, TableOKNow DEF ReadHit, TableOK, BufDesc
  <2>3. held' \in [Pages -> [Frames -> Nat]]
    BY <1>1, <2>1, HoldType DEF ReadHit
  <2> QED
    BY <1>1, <2>2, <2>3 DEF TypeOK, TableOK, ReadHit, StatusCodes
<1>2. CASE ReadMiss(pg)
  <2>1. Victim \in Frames
    BY <1>2, VictimFree DEF ReadMiss
  <2>2. TableOK(bufTable')
    BY <1>2, <2>1, SweptOK, GivenTo DEF ReadMiss
  <2>3. disk' \in [Pages -> Values] /\ bufPool' \in [Frames -> Values]
    BY <1>2, <2>1, WrittenBackType DEF ReadMiss, TypeOK
  <2>4. hashTable' \in [Pages -> Frames \cup {NoFrame}]
    BY <1>2, <2>1, UnhashedType DEF ReadMiss
  <2>5. held' \in [Pages -> [Frames -> Nat]]
    BY <1>2, <2>1, HoldType DEF ReadMiss
  <2> QED
    BY <1>2, <2>1, <2>2, <2>3, <2>4, <2>5 DEF TypeOK, TableOK, ReadMiss, StatusCodes
<1>3. CASE ReadWithoutFrame(pg)
  BY <1>3, AllocFailType DEF ReadWithoutFrame, TypeOK, TableOK
<1>4. CASE ReadFails(pg)
  <2>1. Victim \in Frames
    BY <1>4, VictimFree DEF ReadFails
  <2>2. TableOK(bufTable')
    BY <1>4, SweptOK DEF ReadFails
  <2>3. /\ disk' \in [Pages -> Values]
        /\ hashTable' \in [Pages -> Frames \cup {NoFrame}]
    BY <1>4, <2>1, WrittenBackType, UnhashedType DEF ReadFails
  <2> QED
    BY <1>4, <2>1, <2>2, <2>3 DEF TypeOK, TableOK, ReadFails, StatusCodes
<1> QED
  BY <1>1, <1>2, <1>3, <1>4 DEF ReadPage

(* What unPinPage does to the frames and what it returns.                *)
LEMMA UnPinnedType ==
  ASSUME TypeOK, NEW pg \in Pages, NEW dirty \in BOOLEAN, UnPinned(pg, dirty)
  PROVE  TableOK(bufTable') /\ status' \in StatusCodes
<1>1. CASE InPool(pg)
  <2>1. hashTable[pg] \in Frames
    BY <1>1 DEF TypeOK, InPool
  <2>2. status' \in StatusCodes
    BY <1>1 DEF UnPinned, StatusCodes
  <2>3. ASSUME NEW i \in Frames
        PROVE  /\ bufTable'[i] \in BufDesc
               /\ bufTable'[i].valid = bufTable[i].valid
               /\ bufTable'[i].page = bufTable[i].page
    <3>1. CASE i = hashTable[pg]
      BY <1>1, <2>1, <3>1 DEF UnPinned, TypeOK, BufDesc
    <3>2. CASE i # hashTable[pg]
      BY <1>1, <2>1, <3>2 DEF UnPinned, TypeOK
    <3> QED
      BY <3>1, <3>2
  <2>4. bufTable' \in [Frames -> BufDesc]
    BY <1>1, <2>3 DEF UnPinned, TypeOK
  <2> QED
    BY <2>2, <2>3, <2>4 DEF TypeOK, TableOK
<1>2. CASE ~InPool(pg)
  BY <1>2, TableOKNow DEF UnPinned, StatusCodes
<1> QED
  BY <1>1, <1>2

(* Unpinning changes no page, no valid bit, and no frame but that page's. *)
LEMMA UnPinnedPage ==
  ASSUME TypeOK, NEW pg \in Pages, NEW dirty \in BOOLEAN, UnPinned(pg, dirty)
  PROVE  /\ \A i \in Frames : /\ bufTable'[i].valid = bufTable[i].valid
                              /\ bufTable'[i].page = bufTable[i].page
                              /\ i # hashTable[pg] => bufTable'[i] = bufTable[i]
         /\ InPool(pg) =>
              /\ bufTable'[hashTable[pg]].dirty = (bufTable[hashTable[pg]].dirty \/ dirty)
              /\ bufTable'[hashTable[pg]].pinCnt =
                   IF bufTable[hashTable[pg]].pinCnt = 0 THEN 0
                   ELSE bufTable[hashTable[pg]].pinCnt - 1
<1>1. CASE InPool(pg)
  <2>1. hashTable[pg] \in Frames
    BY <1>1 DEF TypeOK, InPool
  <2>2. ASSUME NEW i \in Frames, i # hashTable[pg]
        PROVE  bufTable'[i] = bufTable[i]
    BY <1>1, <2>1, <2>2 DEF UnPinned, TypeOK
  <2>3. /\ bufTable'[hashTable[pg]].valid = bufTable[hashTable[pg]].valid
        /\ bufTable'[hashTable[pg]].page = bufTable[hashTable[pg]].page
        /\ bufTable'[hashTable[pg]].dirty = (bufTable[hashTable[pg]].dirty \/ dirty)
        /\ bufTable'[hashTable[pg]].pinCnt =
             IF bufTable[hashTable[pg]].pinCnt = 0 THEN 0
             ELSE bufTable[hashTable[pg]].pinCnt - 1
    BY <1>1, <2>1 DEF UnPinned, TypeOK, BufDesc
  <2> QED
    BY <2>2, <2>3
<1>2. CASE ~InPool(pg)
  BY <1>2 DEF UnPinned
<1> QED
  BY <1>1, <1>2

(* The file that a page is allocated in: its free list stays below its end. *)
LEMMA AllocatePageType ==
  ASSUME TypeOK, NEW pg \in Pages, AllocatePage(pg[1], pg[2])
  PROVE  /\ file' \in [Files -> [numPages : 1 .. MaxPages + 1, free : SUBSET PageNos]]
         /\ \A f \in Files : \A p \in file'[f].free : 1 < p /\ p < file'[f].numPages
         /\ Extended(pg) \in [Pages -> Values]
<1>1. pg[1] \in Files /\ pg[2] \in PageNos
  BY DEF Pages
<1>2. Extended(pg) \in [Pages -> Values]
  BY ValuesAssumption DEF Extended, TypeOK
<1>3. CASE pg[2] \in file[pg[1]].free /\ file' = [file EXCEPT ![pg[1]].free = @ \ {pg[2]}]
  BY <1>1, <1>2, <1>3 DEF TypeOK
<1>4. CASE /\ pg[2] = file[pg[1]].numPages
           /\ file' = [file EXCEPT ![pg[1]].numPages = @ + 1]
  <2>1. file[pg[1]].numPages \in 1 .. MaxPages
    BY <1>1, <1>4 DEF PageNos
  <2>2. file' \in [Files -> [numPages : 1 .. MaxPages + 1, free : SUBSET PageNos]]
    <3> DEFINE FileDesc == [numPages : 1 .. MaxPages + 1, free : SUBSET PageNos]
    <3>1. file[pg[1]].numPages + 1 \in 1 .. MaxPages + 1
      BY <2>1, BoundsAssumption
    <3>2. ASSUME NEW d \in FileDesc, d.numPages + 1 \in 1 .. MaxPages + 1
          PROVE  [d EXCEPT !.numPages = @ + 1] \in FileDesc
      BY <3>2
    <3>3. [file[pg[1]] EXCEPT !.numPages = @ + 1] \in FileDesc
      BY <1>1, <3>1, <3>2 DEF TypeOK
    <3> HIDE DEF FileDesc
    <3>4. file \in [Files -> FileDesc]
      BY DEF TypeOK, FileDesc
    <3>5. file' \in [Files -> FileDesc]
      BY <1>4, <3>3, <3>4
    <3> QED
      BY <3>5 DEF FileDesc
  <2>3. \A f \in Files : \A p \in file'[f].free : 1 < p /\ p < file'[f].numPages
    BY <1>1, <1>4, <2>1 DEF TypeOK, PageNos
  <2> QED
    BY <1>2, <2>2, <2>3
<1> QED
  BY <1>3, <1>4 DEF AllocatePage

(* allocPage keeps the types, whatever its outcome.                      *)
LEMMA AllocType ==
  ASSUME TypeOK, NEW pg \in Pages,
         \/ AllocPage(pg) \/ AllocPageWithoutFrame(pg)
         \/ AllocPageHashed(pg) \/ AllocPageRefused(pg)
  PROVE  TypeOK'
<1>1. CASE AllocPage(pg)
  <2>1. Victim \in Frames
    BY <1>1, VictimFree DEF AllocPage
  <2>2. TableOK(bufTable')
    BY <1>1, <2>1, SweptOK, GivenTo DEF AllocPage
  <2>3. disk' \in [Pages -> Values]
    BY <1>1, <2>1, AllocatePageType DEF AllocPage, TypeOK
  <2>4. hashTable' \in [Pages -> Frames \cup {NoFrame}]
    BY <1>1, <2>1, UnhashedType DEF AllocPage
  <2>5. held' \in [Pages -> [Frames -> Nat]]
    BY <1>1, <2>1, HoldType DEF AllocPage
  <2> QED
    BY <1>1, <2>1, <2>2, <2>3, <2>4, <2>5, AllocatePageType
    DEF TypeOK, TableOK, AllocPage, StatusCodes
<1>2. CASE AllocPageWithoutFrame(pg)
  BY <1>2, AllocatePageType, AllocFailType DEF AllocPageWithoutFrame, TypeOK, TableOK
<1>3. CASE AllocPageHashed(pg)
  <2>1. Victim \in Frames
    BY <1>3, VictimFree DEF AllocPageHashed
  <2>2. TableOK(bufTable')
    BY <1>3, <2>1, SweptOK, GivenTo DEF AllocPageHashed
  <2>3. /\ disk' \in [Pages -> Values]
        /\ hashTable' \in [Pages -> Frames \cup {NoFrame}]
    BY <1>3, <2>1, WrittenBackType, UnhashedType DEF AllocPageHashed
  <2> QED
    BY <1>3, <2>1, <2>2, <2>3, AllocatePageType
    DEF TypeOK, TableOK, AllocPageHashed, StatusCodes
<1>4. CASE AllocPageRefused(pg)
  BY <1>4, ValuesAssumption DEF AllocPageRefused, Extended, TypeOK, StatusCodes
<1> QED
  BY <1>1, <1>2, <1>3, <1>4

(* The frames below n are written back and forgotten.                    *)
LEMMA FlushBelowType ==
  ASSUME TypeOK, NEW f \in Files, NEW n \in Int, FlushBelow(f, n)
  PROVE  /\ TableOK(bufTable')
         /\ hashTable' \in [Pages -> Frames \cup {NoFrame}]
         /\ disk' \in [Pages -> Values]
<1> DEFINE gone        == {i \in Frames : i < n /\ OfFile(i, f)}
           Of(pg)      == {i \in gone : bufTable[i].page = pg}
           Written(pg) == {i \in Of(pg) : bufTable[i].dirty}
           emptied(i)  == [bufTable[i] EXCEPT !.page = NoPage, !.dirty = FALSE, !.valid = FALSE]
<1>1. ASSUME NEW i \in Frames
      PROVE  emptied(i) \in BufDesc /\ ~emptied(i).valid /\ emptied(i).page = NoPage
  BY DEF TypeOK, BufDesc
<1>2. bufTable' = [i \in Frames |-> IF i \in gone THEN emptied(i) ELSE bufTable[i]]
  BY DEF FlushBelow
<1>3. TableOK(bufTable')
  <2> HIDE DEF gone, emptied
  <2> QED
    BY <1>1, <1>2 DEF TableOK, TypeOK
<1>4. hashTable' \in [Pages -> Frames \cup {NoFrame}]
  BY DEF FlushBelow, TypeOK
<1>5. ASSUME NEW pg \in Pages, Written(pg) # {}
      PROVE  (CHOOSE i \in Written(pg) : \A j \in Written(pg) : j <= i) \in Frames
  <2>1. Written(pg) \in SUBSET Frames
    OBVIOUS
  <2> HIDE DEF Written
  <2> QED
    BY <1>5, <2>1, LastFrame
<1>6. disk' = [pg \in Pages |->
                 IF Written(pg) = {} THEN disk[pg]
                 ELSE bufPool[CHOOSE i \in Written(pg) : \A j \in Written(pg) : j <= i]]
  BY DEF FlushBelow
<1>7. disk' \in [Pages -> Values]
  <2> HIDE DEF Written
  <2> QED
    BY <1>5, <1>6 DEF TypeOK
<1> QED
  BY <1>3, <1>4, <1>7

(* flushFile keeps the types, whether or not it comes to the end.        *)
LEMMA FlushType ==
  ASSUME TypeOK, NEW f \in Files, FlushFile(f) \/ FlushFails(f)
  PROVE  TypeOK'
<1>1. FirstBlocking(f) \in Int
  <2>1. CASE Blocking(f) = {}
    BY <2>1, NumBufsAssumption DEF FirstBlocking
  <2>2. CASE Blocking(f) # {}
    <3>1. Blocking(f) \subseteq Nat
      BY NumBufsAssumption DEF Blocking, Frames
    <3>2. \E i \in Blocking(f) : \A j \in Blocking(f) : i <= j
      BY <2>2, <3>1, LeastElement
    <3> QED
      BY <2>2, <3>1, <3>2 DEF FirstBlocking
  <2> QED
    BY <2>1, <2>2
<1>2. CASE FlushFile(f)
  BY <1>1, <1>2, FlushBelowType DEF FlushFile, TypeOK, TableOK, StatusCodes
<1>3. CASE FlushFails(f)
  <2>1. PICK n \in Frames : FlushBelow(f, n)
    BY <1>3 DEF FlushFails
  <2>2. n \in Int
    BY NumBufsAssumption DEF Frames
  <2> QED
    BY <1>3, <2>1, <2>2, FlushBelowType DEF FlushFails, TypeOK, TableOK, StatusCodes
<1> QED
  BY <1>2, <1>3

(* disposePage keeps the types, whatever its outcome.                    *)
LEMMA DisposeType ==
  ASSUME TypeOK, NEW pg \in Pages, DisposePage(pg) \/ DisposeFails(pg)
  PROVE  TypeOK'
<1>1. pg[1] \in Files /\ pg[2] \in PageNos
  BY DEF Pages
<1>2. Forget(pg)
  BY DEF DisposePage, DisposeFails
<1>3. TableOK(bufTable')
  <2>1. CASE InPool(pg)
    <3>1. hashTable[pg] \in Frames
      BY <2>1 DEF TypeOK, InPool
    <3>2. Clear(bufTable[hashTable[pg]]) \in BufDesc
          /\ ~Clear(bufTable[hashTable[pg]]).valid
          /\ Clear(bufTable[hashTable[pg]]).page = NoPage
      BY <3>1, Descriptions DEF TypeOK
    <3>3. bufTable' = [bufTable EXCEPT ![hashTable[pg]] = Clear(bufTable[hashTable[pg]])]
      BY <1>2, <2>1 DEF Forget
    <3> QED
      BY <3>1, <3>2, <3>3, TableOKNow DEF TableOK
  <2>2. CASE ~InPool(pg)
    BY <1>2, <2>2, TableOKNow DEF Forget
  <2> QED
    BY <2>1, <2>2
<1>4. hashTable' \in [Pages -> Frames \cup {NoFrame}]
  BY <1>2 DEF Forget, TypeOK
<1>5. pg[2] < file[pg[1]].numPages
  BY <1>1 DEF DisposePage, DisposeFails, MayDispose, Live, Allocated
<1>6. CASE DisposePage(pg) /\ pg[2] # 1
  <2>1. file' = [file EXCEPT ![pg[1]].free = @ \cup {pg[2]}]
    BY <1>6 DEF DisposePage
  <2>2. file' \in [Files -> [numPages : 1 .. MaxPages + 1, free : SUBSET PageNos]]
    BY <1>1, <2>1 DEF TypeOK
  <2>3. 1 < pg[2]
    BY <1>1, <1>6 DEF PageNos
  <2>4. \A f \in Files : \A p \in file'[f].free : 1 < p /\ p < file'[f].numPages
    BY <1>1, <1>5, <2>1, <2>3 DEF TypeOK
  <2>5. disk' \in [Pages -> Values]
    BY <1>6, ValuesAssumption DEF DisposePage, TypeOK
  <2> QED
    BY <1>3, <1>4, <1>6, <2>2, <2>4, <2>5 DEF DisposePage, TypeOK, TableOK, StatusCodes
<1>7. CASE DisposePage(pg) /\ pg[2] = 1
  BY <1>3, <1>4, <1>7 DEF DisposePage, TypeOK, TableOK, StatusCodes
<1>8. CASE DisposeFails(pg)
  BY <1>3, <1>4, <1>8, ValuesAssumption DEF DisposeFails, TypeOK, TableOK, StatusCodes
<1> QED
  BY <1>6, <1>7, <1>8

(* A new pool over the same disk.                                        *)
LEMMA RestartType ==
  ASSUME TypeOK, Restart
  PROVE  TypeOK'
<1>1. PICK lost \in SUBSET Frames : disk' = AllWritten(lost)
  BY DEF Restart
<1>2. disk' \in [Pages -> Values]
  <2>1. \A pg \in Pages : DirtyOf(pg, lost) \in SUBSET Frames
    BY DEF DirtyOf
  <2> QED
    BY <1>1, <2>1, LastFrame DEF AllWritten, TypeOK
<1>3. TableOK(bufTable')
  BY Descriptions DEF Restart, TableOK
<1>4. /\ bufPool' \in [Frames -> Values]
      /\ hashTable' \in [Pages -> Frames \cup {NoFrame}]
      /\ clockHand' \in Frames
      /\ held' \in [Pages -> [Frames -> Nat]]
  <2>1. clockHand' \in Frames
    <3>1. NumBufs - 1 \in 0 .. NumBufs - 1
      BY NumBufsAssumption
    <3> QED
      BY <3>1 DEF Restart, Frames
  <2>2. bufPool' \in [Frames -> Values]
    BY ValuesAssumption DEF Restart
  <2>3. hashTable' \in [Pages -> Frames \cup {NoFrame}]
    BY DEF Restart
  <2>4. held' \in [Pages -> [Frames -> Nat]]
    BY DEF Restart
  <2> QED
    BY <2>1, <2>2, <2>3, <2>4
<1> QED
  BY <1>2, <1>3, <1>4 DEF Restart, TypeOK, TableOK, StatusCodes

(* A user who unpins or writes to a page keeps the types.                *)
LEMMA UserType ==
  ASSUME TypeOK, NEW pg \in Pages,
         \/ \E dirty \in BOOLEAN : UnPinAgain(pg, dirty)
         \/ \E i \in Frames, dirty \in BOOLEAN : UnPinPage(pg, i, dirty)
         \/ \E i \in Frames, x \in Values : WritePage(pg, i, x)
  PROVE  TypeOK'
<1>1. ASSUME NEW dirty \in BOOLEAN, UnPinAgain(pg, dirty)
      PROVE  TypeOK'
  BY <1>1, UnPinnedType DEF UnPinAgain, TypeOK, TableOK
<1>2. ASSUME NEW i \in Frames, NEW dirty \in BOOLEAN, UnPinPage(pg, i, dirty)
      PROVE  TypeOK'
  <2>1. held' \in [Pages -> [Frames -> Nat]]
    BY <1>2 DEF UnPinPage, TypeOK
  <2> QED
    BY <1>2, <2>1, UnPinnedType DEF UnPinPage, TypeOK, TableOK
<1>3. ASSUME NEW i \in Frames, NEW x \in Values, WritePage(pg, i, x)
      PROVE  TypeOK'
  BY <1>3 DEF WritePage, TypeOK
<1> QED
  BY <1>1, <1>2, <1>3

(* Initially the variables have their types.                             *)
LEMMA TypeInit == Init => TypeOK
BY ValuesAssumption, NumBufsAssumption, BoundsAssumption, Descriptions
DEF Init, TypeOK, Frames, StatusCodes

(* Every step keeps the types.                                           *)
LEMMA TypeStep == TypeOK /\ [Next]_vars => TypeOK'
<1> SUFFICES ASSUME TypeOK, [Next]_vars
             PROVE  TypeOK'
  OBVIOUS
<1>1. CASE UNCHANGED vars
  BY <1>1 DEF vars, TypeOK
<1>2. ASSUME NEW pg \in Pages, ReadPage(pg)
      PROVE  TypeOK'
  BY <1>2, ReadType
<1>3. ASSUME NEW pg \in Pages,
             \/ AllocPage(pg) \/ AllocPageWithoutFrame(pg)
             \/ AllocPageHashed(pg) \/ AllocPageRefused(pg)
      PROVE  TypeOK'
  BY <1>3, AllocType
<1>4. ASSUME NEW pg \in Pages, DisposePage(pg) \/ DisposeFails(pg)
      PROVE  TypeOK'
  BY <1>4, DisposeType
<1>5. ASSUME NEW pg \in Pages,
             \/ \E dirty \in BOOLEAN : UnPinAgain(pg, dirty)
             \/ \E i \in Frames, dirty \in BOOLEAN : UnPinPage(pg, i, dirty)
             \/ \E i \in Frames, x \in Values : WritePage(pg, i, x)
      PROVE  TypeOK'
  BY <1>5, UserType
<1>6. ASSUME NEW f \in Files, FlushFile(f) \/ FlushFails(f)
      PROVE  TypeOK'
  BY <1>6, FlushType
<1>7. CASE Restart
  BY <1>7, RestartType
<1> QED
  BY <1>1, <1>2, <1>3, <1>4, <1>5, <1>6, <1>7 DEF Next

(* Every variable keeps its type: pin counts stay natural numbers, a frame *)
(* is valid just when it has a page, and the table leads to frames.        *)
THEOREM TypeCorrect == Spec => []TypeOK
<1>1. Init => TypeOK
  BY TypeInit
<1>2. TypeOK /\ [Next]_vars => TypeOK'
  BY TypeStep
<1> QED
  BY <1>1, <1>2, PTL DEF Spec

(* allocBuf reports a full pool only when every frame is pinned. *)
THEOREM ExceededWhenPinned == Spec => ExceededOnlyWhenPinned
<1> DEFINE A == status' = "BUFFEREXCEEDED" /\ status' # status
                  => \A i \in Frames : bufTable[i].valid /\ bufTable[i].pinCnt > 0
<1>1. TypeOK /\ [Next]_vars => [A]_vars
  <2> SUFFICES ASSUME TypeOK, Next, status' = "BUFFEREXCEEDED", status' # status
               PROVE  Candidates = {}
    BY FullPoolPinned
  <2>1. BufferExceeded => Candidates = {}
    BY DEF BufferExceeded
  <2>2. ~WriteBackFails
    BY DEF WriteBackFails
  <2>3. ASSUME NEW pg \in Pages, ReadPage(pg) PROVE Candidates = {}
    BY <2>1, <2>2, <2>3 DEF ReadPage, ReadHit, ReadMiss, ReadFails, ReadWithoutFrame, AllocBufFails
  <2>4. ASSUME NEW pg \in Pages,
               \/ AllocPage(pg) \/ AllocPageWithoutFrame(pg)
               \/ AllocPageHashed(pg) \/ AllocPageRefused(pg)
        PROVE  Candidates = {}
    BY <2>1, <2>2, <2>4
    DEF AllocPage, AllocPageWithoutFrame, AllocPageHashed, AllocPageRefused, AllocBufFails
  <2>5. ASSUME NEW pg \in Pages, DisposePage(pg) \/ DisposeFails(pg) PROVE FALSE
    BY <2>5 DEF DisposePage, DisposeFails
  <2>6. ASSUME NEW pg \in Pages, NEW dirty \in BOOLEAN, UnPinned(pg, dirty) PROVE FALSE
    BY <2>6 DEF UnPinned
  <2>7. ASSUME NEW pg \in Pages, NEW i \in Frames, NEW x \in Values, WritePage(pg, i, x)
        PROVE  FALSE
    BY <2>7 DEF WritePage
  <2>8. ASSUME NEW f \in Files, FlushFile(f) \/ FlushFails(f) PROVE FALSE
    BY <2>8 DEF FlushFile, FlushFails
  <2>9. ~Restart
    BY DEF Restart
  <2> QED
    BY <2>3, <2>4, <2>5, <2>6, <2>7, <2>8, <2>9 DEF Next, UnPinAgain, UnPinPage
<1> QED
  BY <1>1, TypeCorrect, PTL DEF Spec, ExceededOnlyWhenPinned
-----------------------------------------------------------------------------
(* The table.  HashSound is inductive together with TypeOK: an entry goes  *)
(* before its frame gets another page.                                     *)

(* Removing the page of a frame removes every entry that leads to it. *)
LEMMA UnhashedSound ==
  ASSUME TypeOK, HashSound, NEW i \in Frames, NEW pg \in Pages,
         Unhashed(i)[pg] # NoFrame
  PROVE  /\ Unhashed(i)[pg] = hashTable[pg]
         /\ hashTable[pg] \in Frames
         /\ hashTable[pg] # i
         /\ bufTable[hashTable[pg]].page = pg
<1>1. CASE bufTable[i].valid
  <2>1. pg # bufTable[i].page /\ Unhashed(i)[pg] = hashTable[pg]
    BY <1>1 DEF Unhashed, TypeOK
  <2> QED
    BY <2>1 DEF HashSound, InPool, TypeOK
<1>2. CASE ~bufTable[i].valid
  <2>1. bufTable[i].page = NoPage /\ pg # NoPage
    BY <1>2, NoPageAssumption DEF TypeOK
  <2> QED
    BY <1>2, <2>1 DEF Unhashed, HashSound, InPool, TypeOK
<1> QED
  BY <1>1, <1>2

(* Frame i is unhashed and given to page pg; the other frames keep theirs. *)
LEMMA SoundWhenGiven ==
  ASSUME TypeOK, HashSound, NEW i \in Frames, NEW pg \in Pages,
         hashTable' \in {Unhashed(i), [Unhashed(i) EXCEPT ![pg] = i]},
         bufTable'[i].page = pg,
         \A j \in Frames \ {i} : bufTable'[j].page = bufTable[j].page
  PROVE  HashSound'
<1> SUFFICES ASSUME NEW q \in Pages, hashTable'[q] # NoFrame
             PROVE  bufTable'[hashTable'[q]].page = q
  BY DEF HashSound, InPool
<1>1. CASE q = pg /\ hashTable' = [Unhashed(i) EXCEPT ![pg] = i]
  BY <1>1, UnhashedType
<1>2. CASE hashTable'[q] = Unhashed(i)[q]
  BY <1>2, UnhashedSound
<1> QED
  BY <1>1, <1>2, UnhashedType

(* A frame is unhashed and no frame changes its page. *)
LEMMA SoundWhenUnhashed ==
  ASSUME TypeOK, HashSound, NEW i \in Frames,
         hashTable' \in {hashTable, Unhashed(i)},
         \A j \in Frames : bufTable'[j].page = bufTable[j].page
  PROVE  HashSound'
<1> SUFFICES ASSUME NEW q \in Pages, hashTable'[q] # NoFrame
             PROVE  bufTable'[hashTable'[q]].page = q
  BY DEF HashSound, InPool
<1>1. CASE hashTable' = hashTable
  BY <1>1 DEF HashSound, InPool, TypeOK
<1>2. CASE hashTable' = Unhashed(i)
  BY <1>2, UnhashedSound
<1> QED
  BY <1>1, <1>2

(* A call of allocBuf that fails leaves the hash table sound.            *)
LEMMA SoundWhenAllocFails ==
  ASSUME TypeOK, HashSound, AllocBufFails
  PROVE  HashSound'
<1>1. CASE BufferExceeded
  <2>1. \A j \in Frames : bufTable'[j].page = bufTable[j].page
    BY <1>1, SweptKeeps DEF BufferExceeded
  <2> QED
    BY <1>1, <2>1 DEF BufferExceeded, HashSound, InPool, TypeOK
<1>2. CASE WriteBackFails
  BY <1>2, VictimFree, SweptKeeps, SoundWhenUnhashed DEF WriteBackFails
<1> QED
  BY <1>1, <1>2 DEF AllocBufFails

(* So does readPage,                                                     *)
LEMMA SoundWhenRead ==
  ASSUME TypeOK, HashSound, NEW pg \in Pages, ReadPage(pg)
  PROVE  HashSound'
<1>1. CASE ReadHit(pg)
  <2>1. hashTable[pg] \in Frames
    BY <1>1 DEF ReadHit, InPool, TypeOK
  <2>2. \A j \in Frames : bufTable'[j].page = bufTable[j].page
    BY <1>1, <2>1 DEF ReadHit, TypeOK, BufDesc
  <2> QED
    BY <1>1, <2>1, <2>2, SoundWhenUnhashed DEF ReadHit
<1>2. CASE ReadMiss(pg)
  <2>1. Victim \in Frames
    BY <1>2, VictimFree DEF ReadMiss
  <2>2. bufTable'[Victim].page = pg
    BY <1>2, <2>1, SweptKeeps, Descriptions DEF ReadMiss
  <2>3. \A j \in Frames \ {Victim} : bufTable'[j].page = bufTable[j].page
    BY <1>2, <2>1, SweptKeeps DEF ReadMiss
  <2> QED
    BY <1>2, <2>1, <2>2, <2>3, SoundWhenGiven DEF ReadMiss
<1>3. CASE ReadWithoutFrame(pg)
  BY <1>3, SoundWhenAllocFails DEF ReadWithoutFrame
<1>4. CASE ReadFails(pg)
  BY <1>4, VictimFree, SweptKeeps, SoundWhenUnhashed DEF ReadFails
<1> QED
  BY <1>1, <1>2, <1>3, <1>4 DEF ReadPage

(* allocPage,                                                            *)
LEMMA SoundWhenAllocated ==
  ASSUME TypeOK, HashSound, NEW pg \in Pages,
         \/ AllocPage(pg) \/ AllocPageWithoutFrame(pg)
         \/ AllocPageHashed(pg) \/ AllocPageRefused(pg)
  PROVE  HashSound'
<1>1. CASE AllocPage(pg) \/ AllocPageHashed(pg)
  <2>1. Victim \in Frames
    BY <1>1, VictimFree DEF AllocPage, AllocPageHashed
  <2>2. bufTable' = [Swept(LastScan - 1) EXCEPT ![Victim] = Set(pg)]
    BY <1>1 DEF AllocPage, AllocPageHashed
  <2>3. bufTable'[Victim].page = pg
    BY <2>1, <2>2, SweptKeeps, Descriptions
  <2>4. \A j \in Frames \ {Victim} : bufTable'[j].page = bufTable[j].page
    BY <2>1, <2>2, SweptKeeps
  <2>5. hashTable' \in {Unhashed(Victim), [Unhashed(Victim) EXCEPT ![pg] = Victim]}
    BY <1>1 DEF AllocPage, AllocPageHashed
  <2> QED
    BY <2>1, <2>3, <2>4, <2>5, SoundWhenGiven
<1>2. CASE AllocPageWithoutFrame(pg)
  BY <1>2, SoundWhenAllocFails DEF AllocPageWithoutFrame
<1>3. CASE AllocPageRefused(pg)
  BY <1>3 DEF AllocPageRefused, HashSound, InPool
<1> QED
  BY <1>1, <1>2, <1>3

(* the removal of a page from table and frame,                           *)
LEMMA SoundWhenForgotten ==
  ASSUME TypeOK, HashSound, NEW pg \in Pages, Forget(pg)
  PROVE  HashSound'
<1> SUFFICES ASSUME NEW q \in Pages, hashTable'[q] # NoFrame
             PROVE  bufTable'[hashTable'[q]].page = q
  BY DEF HashSound, InPool
<1>1. q # pg /\ hashTable'[q] = hashTable[q]
  BY DEF Forget, TypeOK
<1>2. bufTable[hashTable[q]].page = q /\ hashTable[q] \in Frames
  BY <1>1 DEF HashSound, InPool, TypeOK
<1>3. hashTable[q] # hashTable[pg]
  BY <1>1, <1>2 DEF HashSound, InPool
<1> QED
  BY <1>1, <1>2, <1>3 DEF Forget, TypeOK

(* and flushFile, as far as it gets.                                     *)
LEMMA SoundWhenFlushed ==
  ASSUME TypeOK, HashSound, NEW f \in Files, NEW n, FlushBelow(f, n)
  PROVE  HashSound'
<1> DEFINE gone   == {i \in Frames : i < n /\ OfFile(i, f)}
           Of(pg) == {i \in gone : bufTable[i].page = pg}
<1> SUFFICES ASSUME NEW q \in Pages, hashTable'[q] # NoFrame
             PROVE  bufTable'[hashTable'[q]].page = q
  BY DEF HashSound, InPool
<1>1. Of(q) = {} /\ hashTable'[q] = hashTable[q]
  BY DEF FlushBelow
<1>2. hashTable[q] \in Frames /\ bufTable[hashTable[q]].page = q
  BY <1>1 DEF HashSound, InPool, TypeOK
<1>3. hashTable[q] \notin gone
  BY <1>1, <1>2
<1>4. bufTable'[hashTable[q]] = bufTable[hashTable[q]]
  BY <1>2, <1>3 DEF FlushBelow
<1> QED
  BY <1>1, <1>2, <1>4

(* An entry of the table leads to a valid frame that holds the page it is  *)
(* looked up under, whatever callers and disks do: readPage and unPinPage  *)
(* never reach another page's frame.                                       *)
THEOREM TableSound == Spec => []HashSound
<1>1. Init => HashSound
  BY DEF Init, HashSound, InPool
<1>2. TypeOK /\ HashSound /\ [Next]_vars => HashSound'
  <2> SUFFICES ASSUME TypeOK, HashSound, [Next]_vars
               PROVE  HashSound'
    OBVIOUS
  <2>1. CASE UNCHANGED vars
    BY <2>1 DEF vars, HashSound, InPool
  <2>2. ASSUME NEW pg \in Pages, ReadPage(pg)
        PROVE  HashSound'
    BY <2>2, SoundWhenRead
  <2>3. ASSUME NEW pg \in Pages,
               \/ AllocPage(pg) \/ AllocPageWithoutFrame(pg)
               \/ AllocPageHashed(pg) \/ AllocPageRefused(pg)
        PROVE  HashSound'
    BY <2>3, SoundWhenAllocated
  <2>4. ASSUME NEW pg \in Pages, DisposePage(pg) \/ DisposeFails(pg)
        PROVE  HashSound'
    BY <2>4, SoundWhenForgotten DEF DisposePage, DisposeFails
  <2>5. ASSUME NEW pg \in Pages, NEW dirty \in BOOLEAN,
               UnPinned(pg, dirty), hashTable' = hashTable
        PROVE  HashSound'
    <3>1. \A j \in Frames : bufTable'[j].page = bufTable[j].page
      BY <2>5, UnPinnedPage
    <3> QED
      BY <2>5, <3>1 DEF HashSound, InPool, TypeOK
  <2>6. ASSUME NEW pg \in Pages, NEW i \in Frames, NEW x \in Values, WritePage(pg, i, x)
        PROVE  HashSound'
    BY <2>6 DEF WritePage, HashSound, InPool
  <2>7. ASSUME NEW f \in Files, FlushFile(f) \/ FlushFails(f)
        PROVE  HashSound'
    BY <2>7, SoundWhenFlushed DEF FlushFile, FlushFails
  <2>8. CASE Restart
    BY <2>8 DEF Restart, HashSound, InPool
  <2> QED
    BY <2>1, <2>2, <2>3, <2>4, <2>5, <2>6, <2>7, <2>8 DEF Next, UnPinAgain, UnPinPage
<1> QED
  BY <1>1, <1>2, TypeCorrect, PTL DEF Spec
-----------------------------------------------------------------------------
(* Coherence: what pool, table, pins and disk have to do with each other   *)
(* while callers and disks keep to the good case.                          *)

(* A page that is owed an unpin is held by somebody. *)
OwedHeld == \A pg \in owed : IsHeld(pg)

(* Only allocated pages are in the pool. *)
FramesLive == \A i \in Frames : bufTable[i].valid => bufTable[i].page \in Live

(* A frame that holds nothing has nothing to write. *)
InvalidClean == \A i \in Frames : ~bufTable[i].valid => ~bufTable[i].dirty

(* The inductive invariant.  HashSound and FramesHashed make frames and    *)
(* entries one to one, so that the frame that leaves the pool cannot be a  *)
(* second copy; PinSound says that nobody points to it, CleanOnDisk that   *)
(* it may be dropped when it is not dirty, and FramesLive that a page the  *)
(* file has just given out is not in the pool yet.                         *)
Coherent == /\ TypeOK
            /\ HashSound
            /\ FramesHashed
            /\ PinSound
            /\ CleanOnDisk
            /\ OwedHeld
            /\ FramesLive
            /\ InvalidClean

(* A valid frame has a page.                                             *)
LEMMA ValidPage ==
  ASSUME TypeOK, NEW i \in Frames, bufTable[i].valid
  PROVE  bufTable[i].page \in Pages
BY DEF TypeOK, BufDesc

(* A page without an entry is in no frame, and nobody holds it. *)
LEMMA NotInPool ==
  ASSUME Coherent, NEW pg \in Pages, ~InPool(pg)
  PROVE  /\ \A i \in Frames : bufTable[i].page # pg
         /\ \A i \in Frames : held[pg][i] = 0
         /\ pg \notin owed
<1>1. \A i \in Frames : bufTable[i].page # pg
  <2> SUFFICES ASSUME NEW i \in Frames, bufTable[i].page = pg PROVE FALSE
    OBVIOUS
  <2>1. bufTable[i].valid
    BY NoPageAssumption DEF Coherent, TypeOK
  <2>2. hashTable[pg] = i
    BY <2>1 DEF Coherent, FramesHashed
  <2>3. i # NoFrame
    BY NumBufsAssumption DEF Frames, NoFrame
  <2> QED
    BY <2>2, <2>3 DEF InPool
<1>2. \A i \in Frames : held[pg][i] = 0
  BY <1>1 DEF Coherent, TypeOK, PinSound
<1> QED
  BY <1>1, <1>2 DEF Coherent, OwedHeld, IsHeld

(* A frame that is not pinned is one that nobody points to. *)
LEMMA NotPinned ==
  ASSUME Coherent, NEW i \in Frames, ~bufTable[i].valid \/ bufTable[i].pinCnt = 0
  PROVE  /\ \A q \in Pages : held[q][i] = 0
         /\ bufTable[i].valid => bufTable[i].page \notin owed
<1>1. \A q \in Pages : held[q][i] = 0
  <2> SUFFICES ASSUME NEW q \in Pages, held[q][i] > 0 PROVE FALSE
    BY DEF Coherent, TypeOK
  <2>1. bufTable[i].page = q
    BY DEF Coherent, PinSound
  <2>2. bufTable[i].valid
    BY <2>1, NoPageAssumption DEF Coherent, TypeOK
  <2>3. bufTable[i].pinCnt = held[q][i]
    BY <2>1, <2>2 DEF Coherent, PinSound
  <2> QED
    BY <2>2, <2>3
<1>2. ASSUME bufTable[i].valid PROVE bufTable[i].page \notin owed
  <2> SUFFICES ASSUME bufTable[i].page \in owed PROVE FALSE
    OBVIOUS
  <2>1. bufTable[i].page \in Pages
    BY DEF Coherent, TypeOK
  <2>2. PICK j \in Frames : held[bufTable[i].page][j] > 0
    BY DEF Coherent, OwedHeld, IsHeld
  <2>3. bufTable[j].page = bufTable[i].page
    BY <2>1, <2>2 DEF Coherent, PinSound
  <2>4. bufTable[j].valid
    BY <2>1, <2>3, NoPageAssumption DEF Coherent, TypeOK
  <2>5. i = j
    BY <1>2, <2>3, <2>4 DEF Coherent, FramesHashed
  <2> QED
    BY <1>1, <2>1, <2>2, <2>5
<1> QED
  BY <1>1, <1>2

(* Two valid frames hold different pages. *)
LEMMA OneFrame ==
  ASSUME Coherent, NEW i \in Frames, NEW j \in Frames,
         bufTable[i].valid, bufTable[i].page = bufTable[j].page
  PROVE  i = j
BY NoPageAssumption DEF Coherent, FramesHashed, TypeOK

(* A pointer leads to the frame that the table gives. *)
LEMMA HeldInTable ==
  ASSUME Coherent, NEW pg \in Pages, NEW i \in Frames, held[pg][i] > 0
  PROVE  /\ bufTable[i].page = pg /\ bufTable[i].valid
         /\ hashTable[pg] = i /\ InPool(pg)
         /\ bufTable[i].pinCnt = held[pg][i]
<1>1. bufTable[i].page = pg /\ bufTable[i].valid
  BY NoPageAssumption DEF Coherent, PinSound, TypeOK
<1>2. i # NoFrame
  BY NumBufsAssumption DEF Frames, NoFrame
<1> QED
  BY <1>1, <1>2 DEF Coherent, FramesHashed, PinSound, InPool

(* What only turns reference bits off keeps the frame side coherent. *)
LEMMA CoherentWhenSwept ==
  ASSUME Coherent, NEW n, bufTable' = Swept(n),
         UNCHANGED <<hashTable, held, bufPool>>
  PROVE  FramesHashed' /\ PinSound' /\ InvalidClean'
BY SweptKeeps DEF Coherent, FramesHashed, PinSound, InvalidClean

(* The victim is given to a page that is not in the pool. *)
LEMMA CoherentWhenTaken ==
  ASSUME Coherent, Candidates # {}, NEW pg \in Pages, ~InPool(pg),
         bufTable' = [Swept(LastScan - 1) EXCEPT ![Victim] = Set(pg)],
         hashTable' = [Unhashed(Victim) EXCEPT ![pg] = Victim],
         Hold(pg, Victim)
  PROVE  /\ FramesHashed' /\ PinSound' /\ InvalidClean'
         /\ Victim \in Frames
         /\ bufTable'[Victim].page = pg
         /\ \A i \in Frames \ {Victim} : /\ bufTable'[i].page = bufTable[i].page
                                         /\ bufTable'[i].dirty = bufTable[i].dirty
                                         /\ bufTable'[i].valid = bufTable[i].valid
                                         /\ bufTable[i].valid => bufTable[i].page # pg
                                         /\ bufTable[i].valid => bufTable[i].page # bufTable[Victim].page
<1>1. /\ Victim \in Frames
      /\ ~bufTable[Victim].valid \/ bufTable[Victim].pinCnt = 0
  BY VictimFree DEF Coherent
<1>2. /\ bufTable'[Victim].page = pg /\ bufTable'[Victim].pinCnt = 1
      /\ bufTable'[Victim].valid /\ ~bufTable'[Victim].dirty
  BY <1>1, SweptKeeps, Descriptions DEF Coherent
<1>3. \A i \in Frames \ {Victim} : /\ bufTable'[i].page = bufTable[i].page
                                   /\ bufTable'[i].pinCnt = bufTable[i].pinCnt
                                   /\ bufTable'[i].dirty = bufTable[i].dirty
                                   /\ bufTable'[i].valid = bufTable[i].valid
  BY <1>1, SweptKeeps DEF Coherent
<1>4. \A i \in Frames \ {Victim} : bufTable[i].valid =>
         bufTable[i].page # pg /\ bufTable[i].page # bufTable[Victim].page
  BY <1>1, NotInPool, OneFrame
<1>5. FramesHashed'
  <2> SUFFICES ASSUME NEW i \in Frames, bufTable'[i].valid
               PROVE  hashTable'[bufTable'[i].page] = i
    BY DEF FramesHashed
  <2>1. CASE i = Victim
    BY <1>1, <1>2, <2>1, UnhashedType DEF Coherent
  <2>2. CASE i # Victim
    <3>1. bufTable[i].valid /\ bufTable'[i].page = bufTable[i].page
      BY <1>3, <2>2
    <3>2. bufTable[i].page # pg /\ bufTable[i].page # bufTable[Victim].page
      BY <1>4, <2>2, <3>1
    <3>3. hashTable[bufTable[i].page] = i /\ bufTable[i].page \in Pages
      BY <3>1, ValidPage DEF Coherent, FramesHashed
    <3>4. Unhashed(Victim)[bufTable[i].page] = i
      BY <3>2, <3>3 DEF Unhashed, Coherent, TypeOK
    <3> QED
      BY <1>1, <3>1, <3>2, <3>3, <3>4, UnhashedType DEF Coherent
  <2> QED
    BY <2>1, <2>2
<1>6. PinSound'
  <2> SUFFICES ASSUME NEW i \in Frames
               PROVE  /\ \A q \in Pages : held'[q][i] > 0 => bufTable'[i].page = q
                      /\ bufTable'[i].pinCnt =
                           IF bufTable'[i].valid THEN held'[bufTable'[i].page][i] ELSE 0
    BY DEF PinSound
  <2>1. CASE i = Victim
    <3>1. \A q \in Pages : held'[q][i] = IF q = pg THEN 1 ELSE 0
      BY <1>1, <2>1, NotPinned DEF Hold, Coherent, TypeOK
    <3> QED
      BY <1>2, <2>1, <3>1
  <2>2. CASE i # Victim
    <3>1. \A q \in Pages : held'[q][i] = held[q][i]
      BY <1>1, <2>2 DEF Hold, Coherent, TypeOK
    <3>2. bufTable[i].valid => bufTable[i].page \in Pages
      BY ValidPage DEF Coherent
    <3> QED
      BY <1>3, <2>2, <3>1, <3>2 DEF Coherent, PinSound
  <2> QED
    BY <2>1, <2>2
<1>7. InvalidClean'
  BY <1>2, <1>3 DEF InvalidClean, Coherent
<1> QED
  BY <1>1, <1>2, <1>3, <1>4, <1>5, <1>6, <1>7

(* The file gives a page that is not allocated, and the page then is. *)
LEMMA AllocatedAnew ==
  ASSUME TypeOK, NEW pg \in Pages, AllocatePage(pg[1], pg[2])
  PROVE  pg \notin Live /\ Live' = Live \cup {pg}
<1>1. pg[1] \in Files /\ pg[2] \in PageNos /\ pg = <<pg[1], pg[2]>>
  BY DEF Pages
<1>2. ASSUME NEW f \in Files
      PROVE  /\ pg[2] \notin Allocated(pg[1])
             /\ Allocated(f)' = IF f = pg[1] THEN Allocated(f) \cup {pg[2]} ELSE Allocated(f)
  <2>1. CASE pg[2] \in file[pg[1]].free /\ file' = [file EXCEPT ![pg[1]].free = @ \ {pg[2]}]
    BY <1>1, <2>1 DEF TypeOK, Allocated
  <2>2. CASE /\ file[pg[1]].free = {}
             /\ pg[2] = file[pg[1]].numPages
             /\ file' = [file EXCEPT ![pg[1]].numPages = @ + 1]
    <3>1. \A p \in PageNos : p \in Int
      BY BoundsAssumption DEF PageNos
    <3>2. file[pg[1]].numPages \in Int
      BY <1>1, <2>2, <3>1
    <3>3. file'[f] = IF f = pg[1] THEN [file[f] EXCEPT !.numPages = @ + 1] ELSE file[f]
      BY <1>1, <2>2 DEF TypeOK
    <3>4. pg[2] \notin Allocated(pg[1])
      BY <2>2, <3>1, <3>2 DEF Allocated
    <3>5. CASE f # pg[1]
      BY <3>3, <3>4, <3>5 DEF Allocated
    <3>6. CASE f = pg[1]
      <4>1. file'[f].numPages = pg[2] + 1 /\ file'[f].free = {} /\ file[f].free = {}
        BY <2>2, <3>3, <3>6 DEF TypeOK
      <4>2. \A p \in PageNos : p < pg[2] + 1 <=> p < pg[2] \/ p = pg[2]
        BY <1>1, <3>1
      <4>3. Allocated(f) = {p \in PageNos : p < pg[2]}
        BY <2>2, <3>6, <4>1 DEF Allocated
      <4>4. Allocated(f)' = {p \in PageNos : p < pg[2] + 1}
        BY <4>1 DEF Allocated
      <4>5. Allocated(f)' = Allocated(f) \cup {pg[2]}
        BY <1>1, <4>2, <4>3, <4>4
      <4> QED
        BY <3>4, <3>6, <4>5
    <3> QED
      BY <3>5, <3>6
  <2> QED
    BY <2>1, <2>2 DEF AllocatePage
<1> QED
  BY <1>1, <1>2 DEF Live, Pages

(* readPage keeps the pool coherent,                                     *)
LEMMA ReadCoherent ==
  ASSUME Coherent, Departures = {}, NEW pg \in Pages, ReadPage(pg)
  PROVE  FramesHashed' /\ PinSound' /\ CleanOnDisk' /\ OwedHeld' /\ FramesLive' /\ InvalidClean'
<1>0. pg \in Live
  BY DEF ReadPage, ReadHit, ReadMiss, ReadWithoutFrame, ReadFails, Asked
<1>1. CASE ReadHit(pg)
  <2> DEFINE h == hashTable[pg]
  <2>1. h \in Frames /\ bufTable[h].page = pg /\ bufTable[h].valid
    BY <1>1, NoPageAssumption DEF ReadHit, InPool, Coherent, HashSound, TypeOK
  <2>2. \A i \in Frames : /\ bufTable'[i].page = bufTable[i].page
                          /\ bufTable'[i].valid = bufTable[i].valid
                          /\ bufTable'[i].dirty = bufTable[i].dirty
                          /\ bufTable'[i].pinCnt = IF i = h THEN bufTable[i].pinCnt + 1
                                                   ELSE bufTable[i].pinCnt
    BY <1>1, <2>1 DEF ReadHit, Coherent, TypeOK, BufDesc
  <2>3. \A q \in Pages, i \in Frames :
          held'[q][i] = IF q = pg /\ i = h THEN held[q][i] + 1 ELSE held[q][i]
    BY <1>1, <2>1 DEF ReadHit, Hold, Coherent, TypeOK
  <2>4. UNCHANGED <<bufPool, hashTable, disk, file, owed>>
    BY <1>1 DEF ReadHit
  <2> HIDE DEF h
  <2>5. FramesHashed'
    BY <2>2, <2>4 DEF Coherent, FramesHashed
  <2>6. PinSound'
    <3> SUFFICES ASSUME NEW i \in Frames
                 PROVE  /\ \A q \in Pages : held'[q][i] > 0 => bufTable'[i].page = q
                        /\ bufTable'[i].pinCnt =
                             IF bufTable'[i].valid THEN held'[bufTable'[i].page][i] ELSE 0
      BY DEF PinSound
    <3>1. CASE i = h
      BY <2>1, <2>2, <2>3, <3>1 DEF Coherent, PinSound
    <3>2. CASE i # h
      BY <2>2, <2>3, <3>2, ValidPage DEF Coherent, PinSound
    <3> QED
      BY <3>1, <3>2
  <2>7. CleanOnDisk' /\ InvalidClean'
    BY <2>2, <2>4 DEF Coherent, CleanOnDisk, InvalidClean
  <2>8. OwedHeld'
    <3> SUFFICES ASSUME NEW q \in owed PROVE \E i \in Frames : held'[q][i] > 0
      BY <2>4 DEF OwedHeld, IsHeld
    <3>1. q \in Pages
      BY DEF Coherent, TypeOK
    <3>2. PICK i \in Frames : held[q][i] > 0
      BY DEF Coherent, OwedHeld, IsHeld
    <3>3. held[q][i] \in Nat
      BY <3>1 DEF Coherent, TypeOK
    <3> QED
      BY <2>3, <3>1, <3>2, <3>3
  <2>9. FramesLive'
    BY <2>2, <2>4 DEF Coherent, FramesLive, Live, Allocated
  <2> QED
    BY <2>5, <2>6, <2>7, <2>8, <2>9
<1>2. CASE ReadMiss(pg)
  <2>1. /\ FramesHashed' /\ PinSound' /\ InvalidClean'
        /\ Victim \in Frames
        /\ bufTable'[Victim].page = pg
        /\ \A i \in Frames \ {Victim} : /\ bufTable'[i].page = bufTable[i].page
                                        /\ bufTable'[i].dirty = bufTable[i].dirty
                                        /\ bufTable'[i].valid = bufTable[i].valid
                                        /\ bufTable[i].valid => bufTable[i].page # pg
                                        /\ bufTable[i].valid => bufTable[i].page # bufTable[Victim].page
    BY <1>2, CoherentWhenTaken DEF ReadMiss
  <2>2. CleanOnDisk'
    <3> SUFFICES ASSUME NEW i \in Frames, bufTable'[i].valid, ~bufTable'[i].dirty,
                        bufTable'[i].page \notin owed
                 PROVE  bufPool'[i] = disk'[bufTable'[i].page]
      BY <1>2 DEF CleanOnDisk, ReadMiss
    <3>1. CASE i = Victim
      BY <1>2, <2>1, <3>1 DEF ReadMiss, Coherent, TypeOK
    <3>2. CASE i # Victim
      <4>1. bufTable[i].valid /\ bufTable[i].page # bufTable[Victim].page
        BY <2>1, <3>2
      <4>2. bufPool[i] = disk[bufTable[i].page]
        BY <2>1, <3>2, <4>1 DEF Coherent, CleanOnDisk
      <4>3. bufTable[i].page \in Pages
        BY <4>1, ValidPage DEF Coherent
      <4>4. WrittenBack(Victim)[bufTable[i].page] = disk[bufTable[i].page]
        BY <4>1, <4>3 DEF WrittenBack, Coherent, TypeOK
      <4> QED
        BY <1>2, <2>1, <3>2, <4>2, <4>4 DEF ReadMiss, Coherent, TypeOK
    <3> QED
      BY <3>1, <3>2
  <2>3. OwedHeld'
    <3> SUFFICES ASSUME NEW q \in owed PROVE \E i \in Frames : held'[q][i] > 0
      BY <1>2 DEF OwedHeld, IsHeld, ReadMiss
    <3>1. q \in Pages /\ q # pg
      BY <1>2, NotInPool DEF Coherent, TypeOK, ReadMiss
    <3>2. PICK i \in Frames : held[q][i] > 0
      BY DEF Coherent, OwedHeld, IsHeld
    <3> QED
      BY <1>2, <3>1, <3>2 DEF ReadMiss, Hold, Coherent, TypeOK
  <2>4. FramesLive'
    BY <1>0, <1>2, <2>1 DEF ReadMiss, Coherent, FramesLive, Live, Allocated
  <2> QED
    BY <2>1, <2>2, <2>3, <2>4
<1>3. CASE ReadWithoutFrame(pg)
  <2>1. /\ bufTable' = Swept(2 * NumBufs)
        /\ UNCHANGED <<hashTable, bufPool, disk, file, held, owed>>
    BY <1>3 DEF ReadWithoutFrame, AllocBufFails, BufferExceeded, WriteBackFails
  <2>2. FramesHashed' /\ PinSound' /\ InvalidClean'
    BY <2>1, CoherentWhenSwept
  <2>3. CleanOnDisk' /\ OwedHeld' /\ FramesLive'
    BY <2>1, SweptKeeps
    DEF Coherent, CleanOnDisk, OwedHeld, IsHeld, FramesLive, Live, Allocated
  <2> QED
    BY <2>2, <2>3
<1>4. CASE ReadFails(pg)
  <2>1. pg[2] < file[pg[1]].numPages
    BY <1>0 DEF Live, Allocated
  <2>2. pg[2] \in Int /\ file[pg[1]].numPages \in Int
    BY DEF Coherent, TypeOK, Pages, PageNos
  <2> QED
    BY <1>4, <2>1, <2>2 DEF ReadFails
<1> QED
  BY <1>1, <1>2, <1>3, <1>4 DEF ReadPage

(* so does allocPage,                                                    *)
LEMMA AllocCoherent ==
  ASSUME Coherent, Departures = {}, NEW pg \in Pages,
         \/ AllocPage(pg) \/ AllocPageWithoutFrame(pg)
         \/ AllocPageHashed(pg) \/ AllocPageRefused(pg)
  PROVE  FramesHashed' /\ PinSound' /\ CleanOnDisk' /\ OwedHeld' /\ FramesLive' /\ InvalidClean'
<1>0. AllocatePage(pg[1], pg[2])
  BY DEF AllocPage, AllocPageWithoutFrame, AllocPageHashed, AllocPageRefused
<1>1. pg \notin Live /\ Live' = Live \cup {pg}
  BY <1>0, AllocatedAnew DEF Coherent
<1>2. ~InPool(pg)
  BY <1>1, NoPageAssumption DEF InPool, Coherent, HashSound, FramesLive, TypeOK
<1>3. \A q \in Pages \ {pg} : Extended(pg)[q] = disk[q]
  BY DEF Extended, Coherent, TypeOK
<1>4. CASE AllocPage(pg)
  <2>1. /\ FramesHashed' /\ PinSound' /\ InvalidClean'
        /\ Victim \in Frames
        /\ bufTable'[Victim].page = pg
        /\ \A i \in Frames \ {Victim} : /\ bufTable'[i].page = bufTable[i].page
                                        /\ bufTable'[i].dirty = bufTable[i].dirty
                                        /\ bufTable'[i].valid = bufTable[i].valid
                                        /\ bufTable[i].valid => bufTable[i].page # pg
                                        /\ bufTable[i].valid => bufTable[i].page # bufTable[Victim].page
    BY <1>2, <1>4, CoherentWhenTaken DEF AllocPage
  <2>2. CleanOnDisk'
    <3> SUFFICES ASSUME NEW i \in Frames, bufTable'[i].valid, ~bufTable'[i].dirty,
                        bufTable'[i].page \notin owed'
                 PROVE  bufPool'[i] = disk'[bufTable'[i].page]
      BY DEF CleanOnDisk
    <3>1. CASE i = Victim
      BY <1>4, <2>1, <3>1 DEF AllocPage
    <3>2. CASE i # Victim
      <4>1. bufTable[i].valid /\ bufTable[i].page \notin {pg, bufTable[Victim].page}
        BY <2>1, <3>2
      <4>2. bufPool[i] = disk[bufTable[i].page]
        BY <1>4, <2>1, <3>2, <4>1 DEF Coherent, CleanOnDisk, AllocPage
      <4>3. bufTable[i].page \in Pages
        BY <4>1, ValidPage DEF Coherent
      <4>4. disk'[bufTable[i].page] = Extended(pg)[bufTable[i].page]
        BY <1>4, <4>1, <4>3 DEF AllocPage, Extended, Coherent, TypeOK
      <4> QED
        BY <1>3, <1>4, <2>1, <3>2, <4>1, <4>2, <4>3, <4>4 DEF AllocPage
    <3> QED
      BY <3>1, <3>2
  <2>3. OwedHeld'
    <3> SUFFICES ASSUME NEW q \in owed \cup {pg} PROVE \E i \in Frames : held'[q][i] > 0
      BY <1>4 DEF OwedHeld, IsHeld, AllocPage
    <3>1. CASE q = pg
      BY <1>4, <2>1, <3>1 DEF AllocPage, Hold, Coherent, TypeOK
    <3>2. CASE q # pg
      <4>1. q \in owed /\ q \in Pages
        BY <3>2 DEF Coherent, TypeOK
      <4>2. PICK i \in Frames : held[q][i] > 0
        BY <4>1 DEF Coherent, OwedHeld, IsHeld
      <4> QED
        BY <1>4, <3>2, <4>1, <4>2 DEF AllocPage, Hold, Coherent, TypeOK
    <3> QED
      BY <3>1, <3>2
  <2>4. FramesLive'
    BY <1>1, <2>1 DEF Coherent, FramesLive
  <2> QED
    BY <2>1, <2>2, <2>3, <2>4
<1>5. CASE AllocPageWithoutFrame(pg)
  <2>1. /\ bufTable' = Swept(2 * NumBufs)
        /\ disk' = Extended(pg)
        /\ UNCHANGED <<hashTable, bufPool, held, owed>>
    BY <1>5 DEF AllocPageWithoutFrame, AllocBufFails, BufferExceeded, WriteBackFails
  <2>2. FramesHashed' /\ PinSound' /\ InvalidClean'
    BY <2>1, CoherentWhenSwept
  <2>3. \A i \in Frames : /\ bufTable'[i].page = bufTable[i].page
                          /\ bufTable'[i].dirty = bufTable[i].dirty
                          /\ bufTable'[i].valid = bufTable[i].valid
    BY <2>1, SweptKeeps DEF Coherent
  <2>4. CleanOnDisk'
    BY <1>2, <1>3, <2>1, <2>3, NotInPool, ValidPage DEF Coherent, CleanOnDisk
  <2>5. OwedHeld' /\ FramesLive'
    BY <1>1, <2>1, <2>3 DEF Coherent, OwedHeld, IsHeld, FramesLive
  <2> QED
    BY <2>2, <2>4, <2>5
<1>6. CASE AllocPageHashed(pg)
  <2>1. Victim \in Frames /\ Unhashed(Victim)[pg] # NoFrame
    BY <1>6, VictimFree DEF AllocPageHashed, Coherent
  <2> QED
    BY <1>2, <2>1, UnhashedSound, NotInPool DEF Coherent
<1>7. CASE AllocPageRefused(pg)
  BY <1>7 DEF AllocPageRefused
<1> QED
  BY <1>4, <1>5, <1>6, <1>7

(* disposePage,                                                          *)
LEMMA DisposeCoherent ==
  ASSUME Coherent, Departures = {}, NEW pg \in Pages, DisposePage(pg) \/ DisposeFails(pg)
  PROVE  FramesHashed' /\ PinSound' /\ CleanOnDisk' /\ OwedHeld' /\ FramesLive' /\ InvalidClean'
<1>1. /\ DisposePage(pg) /\ pg[2] # 1 /\ pg \in Live /\ Forget(pg)
      /\ file' = [file EXCEPT ![pg[1]].free = @ \cup {pg[2]}]
      /\ disk' = [disk EXCEPT ![pg] = Blank]
      /\ UNCHANGED <<bufPool, held, owed>>
      /\ \A i \in Frames : held[pg][i] = 0
  BY DEF DisposePage, DisposeFails, MayDispose, IsHeld, Coherent, TypeOK
<1>2. \A q \in Pages : hashTable'[q] = IF q = pg THEN NoFrame ELSE hashTable[q]
  BY <1>1 DEF Forget, Coherent, TypeOK
<1>3. ASSUME NEW i \in Frames
      PROVE  IF bufTable[i].page = pg
             THEN /\ ~bufTable'[i].valid /\ ~bufTable'[i].dirty
                  /\ bufTable'[i].pinCnt = 0 /\ bufTable'[i].page = NoPage
             ELSE bufTable'[i] = bufTable[i]
  <2>1. CASE bufTable[i].page = pg
    <3>1. hashTable[pg] = i /\ i # NoFrame
      BY <2>1, NoPageAssumption, NumBufsAssumption
      DEF Coherent, TypeOK, FramesHashed, Frames, NoFrame
    <3>2. bufTable' = [bufTable EXCEPT ![i] = Clear(@)]
      BY <1>1, <3>1 DEF Forget, InPool
    <3> QED
      BY <2>1, <3>2, Descriptions DEF Coherent, TypeOK
  <2>2. CASE bufTable[i].page # pg
    BY <1>1, <2>2 DEF Forget, InPool, Coherent, HashSound, TypeOK
  <2> QED
    BY <2>1, <2>2
<1>4. FramesHashed' /\ InvalidClean'
  BY <1>2, <1>3, ValidPage DEF Coherent, FramesHashed, InvalidClean
<1>5. PinSound'
  BY <1>1, <1>3, NoPageAssumption DEF Coherent, PinSound
<1>6. CleanOnDisk' /\ OwedHeld'
  BY <1>1, <1>3, ValidPage DEF Coherent, CleanOnDisk, OwedHeld, IsHeld, TypeOK
<1>7. Live \ {pg} \subseteq Live'
  BY <1>1 DEF Live, Allocated, Pages, Coherent, TypeOK
<1>8. FramesLive'
  BY <1>3, <1>7 DEF Coherent, FramesLive
<1> QED
  BY <1>4, <1>5, <1>6, <1>8

(* unPinPage,                                                            *)
LEMMA UnPinCoherent ==
  ASSUME Coherent, NEW pg \in Pages, NEW dirty \in BOOLEAN,
         \/ UnPinAgain(pg, dirty)
         \/ \E i \in Frames : UnPinPage(pg, i, dirty)
  PROVE  FramesHashed' /\ PinSound' /\ CleanOnDisk' /\ OwedHeld' /\ FramesLive' /\ InvalidClean'
<1>1. UnPinned(pg, dirty) /\ UNCHANGED <<bufPool, hashTable, disk, file>>
  BY DEF UnPinAgain, UnPinPage
<1>2. \A i \in Frames : /\ bufTable'[i].valid = bufTable[i].valid
                        /\ bufTable'[i].page = bufTable[i].page
                        /\ i # hashTable[pg] => bufTable'[i] = bufTable[i]
  BY <1>1, UnPinnedPage DEF Coherent
<1>3. FramesHashed' /\ FramesLive'
  BY <1>1, <1>2 DEF Coherent, FramesHashed, FramesLive, Live, Allocated
<1>4. InPool(pg) =>
        /\ hashTable[pg] \in Frames
        /\ bufTable[hashTable[pg]].page = pg /\ bufTable[hashTable[pg]].valid
        /\ bufTable'[hashTable[pg]].dirty = (bufTable[hashTable[pg]].dirty \/ dirty)
        /\ bufTable'[hashTable[pg]].pinCnt =
             IF bufTable[hashTable[pg]].pinCnt = 0 THEN 0
             ELSE bufTable[hashTable[pg]].pinCnt - 1
  BY <1>1, UnPinnedPage, NoPageAssumption DEF Coherent, HashSound, InPool, TypeOK
<1>5. ~InPool(pg) => bufTable' = bufTable
  BY <1>1 DEF UnPinned
<1>6. InvalidClean'
  <2> SUFFICES ASSUME NEW i \in Frames, ~bufTable'[i].valid PROVE ~bufTable'[i].dirty
    BY DEF InvalidClean
  <2> QED
    BY <1>2, <1>4, <1>5 DEF Coherent, InvalidClean, InPool
<1>7. CASE UnPinAgain(pg, dirty)
  <2>1. held' = held /\ owed' = owed
    BY <1>7 DEF UnPinAgain
  <2>2. InPool(pg) => bufTable[hashTable[pg]].pinCnt = 0
    BY <1>4, <1>7 DEF UnPinAgain, IsHeld, Coherent, PinSound, TypeOK
  <2>3. \A i \in Frames : bufTable'[i].pinCnt = bufTable[i].pinCnt
    BY <1>2, <1>4, <1>5, <2>2 DEF InPool
  <2>4. PinSound'
    BY <1>2, <2>1, <2>3 DEF Coherent, PinSound
  <2>5. CleanOnDisk'
    <3> SUFFICES ASSUME NEW i \in Frames, bufTable'[i].valid, ~bufTable'[i].dirty,
                        bufTable'[i].page \notin owed'
                 PROVE  bufPool'[i] = disk'[bufTable'[i].page]
      BY DEF CleanOnDisk
    <3>1. ~bufTable[i].dirty
      BY <1>2, <1>4, <1>5 DEF InPool
    <3> QED
      BY <1>1, <1>2, <2>1, <3>1 DEF Coherent, CleanOnDisk
  <2>6. OwedHeld'
    BY <2>1 DEF Coherent, OwedHeld, IsHeld
  <2> QED
    BY <1>3, <1>6, <2>4, <2>5, <2>6
<1>8. ASSUME NEW i \in Frames, UnPinPage(pg, i, dirty)
      PROVE  PinSound' /\ CleanOnDisk' /\ OwedHeld'
  <2>1. /\ held[pg][i] > 0 /\ held' = [held EXCEPT ![pg][i] = @ - 1]
        /\ owed' = IF dirty THEN owed \ {pg} ELSE owed
        /\ (pg \in owed /\ ~dirty) => \E j \in Frames : held'[pg][j] > 0
    BY <1>8 DEF UnPinPage
  <2>2. /\ bufTable[i].page = pg /\ bufTable[i].valid
        /\ hashTable[pg] = i /\ InPool(pg)
        /\ bufTable[i].pinCnt = held[pg][i]
    BY <2>1, HeldInTable
  <2>3. \A q \in Pages, j \in Frames :
          held'[q][j] = IF q = pg /\ j = i THEN held[q][j] - 1 ELSE held[q][j]
    BY <2>1 DEF Coherent, TypeOK
  <2>4. \A q \in Pages, j \in Frames : held[q][j] \in Nat
    BY DEF Coherent, TypeOK
  <2>5. PinSound'
    <3> SUFFICES ASSUME NEW j \in Frames
                 PROVE  /\ \A q \in Pages : held'[q][j] > 0 => bufTable'[j].page = q
                        /\ bufTable'[j].pinCnt =
                             IF bufTable'[j].valid THEN held'[bufTable'[j].page][j] ELSE 0
      BY DEF PinSound
    <3>1. CASE j = i
      BY <1>2, <1>4, <2>1, <2>2, <2>3, <2>4, <3>1 DEF Coherent, PinSound
    <3>2. CASE j # i
      BY <1>2, <2>2, <2>3, <3>2, ValidPage DEF Coherent, PinSound
    <3> QED
      BY <3>1, <3>2
  <2>6. CleanOnDisk'
    <3> SUFFICES ASSUME NEW j \in Frames, bufTable'[j].valid, ~bufTable'[j].dirty,
                        bufTable'[j].page \notin owed'
                 PROVE  bufPool'[j] = disk'[bufTable'[j].page]
      BY DEF CleanOnDisk
    <3>1. CASE j = i
      <4>1. ~bufTable[i].dirty /\ ~dirty
        BY <1>4, <2>2, <3>1
      <4> QED
        BY <1>1, <1>2, <2>1, <2>2, <3>1, <4>1 DEF Coherent, CleanOnDisk
    <3>2. CASE j # i
      <4>1. bufTable'[j] = bufTable[j]
        BY <1>2, <2>2, <3>2
      <4>2. bufTable[j].page # pg
        BY <2>2, <3>2, <4>1, OneFrame
      <4> QED
        BY <1>1, <2>1, <4>1, <4>2 DEF Coherent, CleanOnDisk
    <3> QED
      BY <3>1, <3>2
  <2>7. OwedHeld'
    <3> SUFFICES ASSUME NEW q \in owed' PROVE \E j \in Frames : held'[q][j] > 0
      BY DEF OwedHeld, IsHeld
    <3>1. q \in owed /\ q \in Pages
      BY <2>1 DEF Coherent, TypeOK
    <3>2. CASE q = pg
      BY <2>1, <3>1, <3>2
    <3>3. CASE q # pg
      BY <2>3, <3>1, <3>3 DEF Coherent, OwedHeld, IsHeld
    <3> QED
      BY <3>2, <3>3
  <2> QED
    BY <2>5, <2>6, <2>7
<1> QED
  BY <1>3, <1>6, <1>7, <1>8

(* a write to a pinned page,                                             *)
LEMMA WriteCoherent ==
  ASSUME Coherent, NEW pg \in Pages, NEW i \in Frames, NEW x \in Values, WritePage(pg, i, x)
  PROVE  FramesHashed' /\ PinSound' /\ CleanOnDisk' /\ OwedHeld' /\ FramesLive' /\ InvalidClean'
<1>1. /\ held[pg][i] > 0
      /\ bufPool' = [bufPool EXCEPT ![i] = x]
      /\ owed' = owed \cup {pg}
      /\ UNCHANGED <<bufTable, hashTable, disk, file, held>>
  BY DEF WritePage
<1>2. bufTable[i].page = pg
  BY <1>1 DEF Coherent, PinSound
<1>3. FramesHashed' /\ PinSound' /\ FramesLive' /\ InvalidClean'
  BY <1>1 DEF Coherent, FramesHashed, PinSound, FramesLive, Live, Allocated, InvalidClean
<1>4. OwedHeld'
  BY <1>1 DEF Coherent, OwedHeld, IsHeld
<1>5. CleanOnDisk'
  BY <1>1, <1>2 DEF Coherent, CleanOnDisk, TypeOK
<1> QED
  BY <1>3, <1>4, <1>5

(* The frames that a flush empties are those of the file before the first  *)
(* pinned one; none of them is pinned.                                     *)
LEMMA FlushedFree ==
  ASSUME Coherent, NEW f \in Files, NEW i \in Frames,
         i < FirstBlocking(f), OfFile(i, f)
  PROVE  bufTable[i].valid /\ bufTable[i].pinCnt = 0
<1>1. ~Blocks(i, f)
  <2> SUFFICES ASSUME i \in Blocking(f) PROVE FALSE
    BY DEF Blocking
  <2>1. Blocking(f) \subseteq Nat
    BY NumBufsAssumption DEF Blocking, Frames
  <2>2. \E k \in Blocking(f) : \A j \in Blocking(f) : k <= j
    BY <2>1, LeastElement
  <2>3. FirstBlocking(f) \in Blocking(f) /\ \A j \in Blocking(f) : FirstBlocking(f) <= j
    BY <2>2 DEF FirstBlocking
  <2>4. FirstBlocking(f) <= i /\ FirstBlocking(f) \in Nat /\ i \in Nat
    BY <2>1, <2>3
  <2> QED
    BY <2>4
<1>2. bufTable[i].pinCnt \in Nat
  BY DEF Coherent, TypeOK, BufDesc
<1> QED
  BY <1>1, <1>2 DEF Blocks

(* What a flush does to the pool, the table and the disk. *)
LEMMA FlushEffect ==
  ASSUME Coherent, NEW f \in Files, FlushBelow(f, FirstBlocking(f)), NEW i \in Frames
  PROVE  IF i < FirstBlocking(f) /\ OfFile(i, f)
         THEN /\ bufTable[i].valid
              /\ bufTable'[i].page = NoPage /\ ~bufTable'[i].valid
              /\ ~bufTable'[i].dirty /\ bufTable'[i].pinCnt = 0
              /\ hashTable'[bufTable[i].page] = NoFrame
              /\ disk'[bufTable[i].page] = IF bufTable[i].dirty THEN bufPool[i]
                                           ELSE disk[bufTable[i].page]
         ELSE /\ bufTable'[i] = bufTable[i]
              /\ bufTable[i].valid =>
                   /\ hashTable'[bufTable[i].page] = hashTable[bufTable[i].page]
                   /\ disk'[bufTable[i].page] = disk[bufTable[i].page]
<1> DEFINE gone        == {k \in Frames : k < FirstBlocking(f) /\ OfFile(k, f)}
           Of(pg)      == {k \in gone : bufTable[k].page = pg}
           Written(pg) == {k \in Of(pg) : bufTable[k].dirty}
<1>1. /\ hashTable' = [pg \in Pages |-> IF Of(pg) = {} THEN hashTable[pg] ELSE NoFrame]
      /\ bufTable' = [k \in Frames |->
                        IF k \in gone
                        THEN [bufTable[k] EXCEPT !.page = NoPage, !.dirty = FALSE, !.valid = FALSE]
                        ELSE bufTable[k]]
      /\ disk' = [pg \in Pages |->
                    IF Written(pg) = {} THEN disk[pg]
                    ELSE bufPool[CHOOSE k \in Written(pg) : \A j \in Written(pg) : j <= k]]
  BY DEF FlushBelow
<1>2. \A k \in gone : bufTable[k].valid /\ bufTable[k].pinCnt = 0
  BY FlushedFree
<1>3. ASSUME bufTable[i].valid
      PROVE  /\ bufTable[i].page \in Pages
             /\ Of(bufTable[i].page) = IF i \in gone THEN {i} ELSE {}
             /\ Written(bufTable[i].page) = IF i \in gone /\ bufTable[i].dirty THEN {i} ELSE {}
  <2>1. bufTable[i].page \in Pages
    BY <1>3, ValidPage DEF Coherent
  <2>2. \A k \in gone : bufTable[k].page = bufTable[i].page => k = i
    BY <1>3, OneFrame
  <2> QED
    BY <2>1, <2>2
<1>4. CASE i \in gone
  <2>1. bufTable[i].valid /\ bufTable[i].pinCnt = 0
    BY <1>2, <1>4
  <2>2. hashTable'[bufTable[i].page] = NoFrame
    BY <1>1, <1>3, <1>4, <2>1
  <2>3. disk'[bufTable[i].page] = IF bufTable[i].dirty THEN bufPool[i] ELSE disk[bufTable[i].page]
    <3>1. CASE bufTable[i].dirty
      <4> DEFINE last == CHOOSE k \in Written(bufTable[i].page) :
                            \A j \in Written(bufTable[i].page) : j <= k
      <4>1. Written(bufTable[i].page) = {i} /\ bufTable[i].page \in Pages
        BY <1>3, <1>4, <2>1, <3>1
      <4> HIDE DEF Written
      <4>2. disk'[bufTable[i].page] = bufPool[last]
        BY <1>1, <4>1
      <4>3. last \in Written(bufTable[i].page)
        BY <4>1, LastFrame
      <4> HIDE DEF last
      <4>4. last = i
        BY <4>1, <4>3
      <4> QED
        BY <3>1, <4>2, <4>4
    <3>2. CASE ~bufTable[i].dirty
      <4>1. Written(bufTable[i].page) = {} /\ bufTable[i].page \in Pages
        BY <1>3, <1>4, <2>1, <3>2
      <4> HIDE DEF Written
      <4> QED
        BY <1>1, <3>2, <4>1
    <3> QED
      BY <3>1, <3>2
  <2>4. /\ bufTable'[i].page = NoPage /\ ~bufTable'[i].valid
        /\ ~bufTable'[i].dirty /\ bufTable'[i].pinCnt = 0
    <3>1. bufTable'[i] = [bufTable[i] EXCEPT !.page = NoPage, !.dirty = FALSE, !.valid = FALSE]
      BY <1>1, <1>4
    <3>2. bufTable[i] \in BufDesc
      BY DEF Coherent, TypeOK
    <3> QED
      BY <2>1, <3>1, <3>2 DEF BufDesc
  <2> QED
    BY <1>4, <2>1, <2>2, <2>3, <2>4
<1>5. CASE i \notin gone
  <2>1. bufTable'[i] = bufTable[i]
    BY <1>1, <1>5
  <2>2. ASSUME bufTable[i].valid
        PROVE  /\ hashTable'[bufTable[i].page] = hashTable[bufTable[i].page]
               /\ disk'[bufTable[i].page] = disk[bufTable[i].page]
    <3>1. bufTable[i].page \in Pages /\ Of(bufTable[i].page) = {} /\ Written(bufTable[i].page) = {}
      BY <1>3, <1>5, <2>2
    <3> HIDE DEF Of, Written
    <3> QED
      BY <1>1, <3>1
  <2> QED
    BY <1>5, <2>1, <2>2
<1> QED
  BY <1>4, <1>5

(* flushFile                                                             *)
LEMMA FlushCoherent ==
  ASSUME Coherent, Departures = {}, NEW f \in Files, FlushFile(f) \/ FlushFails(f)
  PROVE  FramesHashed' /\ PinSound' /\ CleanOnDisk' /\ OwedHeld' /\ FramesLive' /\ InvalidClean'
<1>1. /\ FlushBelow(f, FirstBlocking(f))
      /\ UNCHANGED <<bufPool, file, held, owed>>
  BY DEF FlushFile, FlushFails
<1>2. FramesHashed' /\ InvalidClean'
  BY <1>1, FlushEffect DEF Coherent, FramesHashed, InvalidClean
<1>3. PinSound'
  <2> SUFFICES ASSUME NEW i \in Frames
               PROVE  /\ \A q \in Pages : held[q][i] > 0 => bufTable'[i].page = q
                      /\ bufTable'[i].pinCnt =
                           IF bufTable'[i].valid THEN held[bufTable'[i].page][i] ELSE 0
    BY <1>1 DEF PinSound
  <2>1. CASE i < FirstBlocking(f) /\ OfFile(i, f)
    <3>1. bufTable[i].pinCnt = 0
      BY <2>1, FlushedFree
    <3> QED
      BY <1>1, <2>1, <3>1, FlushEffect, NotPinned
  <2>2. CASE ~(i < FirstBlocking(f) /\ OfFile(i, f))
    BY <1>1, <2>2, FlushEffect DEF Coherent, PinSound
  <2> QED
    BY <2>1, <2>2
<1>4. CleanOnDisk' /\ FramesLive'
  BY <1>1, FlushEffect DEF Coherent, CleanOnDisk, FramesLive, Live, Allocated
<1>5. OwedHeld'
  BY <1>1 DEF Coherent, OwedHeld, IsHeld
<1> QED
  BY <1>2, <1>3, <1>4, <1>5

(* and a restart.                                                        *)
LEMMA RestartCoherent ==
  ASSUME Restart
  PROVE  FramesHashed' /\ PinSound' /\ CleanOnDisk' /\ OwedHeld' /\ FramesLive' /\ InvalidClean'
<1>1. \A i \in Frames : bufTable'[i] = EmptyFrame
  BY DEF Restart
<1>2. owed' = {} /\ \A pg \in Pages, i \in Frames : held'[pg][i] = 0
  BY DEF Restart
<1>3. PinSound'
  BY <1>1, <1>2, Descriptions DEF PinSound
<1> QED
  BY <1>1, <1>2, <1>3, Descriptions
  DEF FramesHashed, CleanOnDisk, OwedHeld, FramesLive, InvalidClean

(* An empty pool is coherent.                                            *)
LEMMA InitCoherent == Init => Coherent
<1> SUFFICES ASSUME Init PROVE Coherent
  OBVIOUS
<1>1. TypeOK
  BY TypeInit
<1>2. \A i \in Frames : bufTable[i] = EmptyFrame
  BY DEF Init
<1>3. owed = {} /\ (\A pg \in Pages, i \in Frames : held[pg][i] = 0)
      /\ (\A pg \in Pages : hashTable[pg] = NoFrame)
  BY DEF Init
<1> QED
  BY <1>1, <1>2, <1>3, Descriptions
  DEF Coherent, HashSound, InPool, FramesHashed, PinSound, CleanOnDisk, OwedHeld,
      FramesLive, InvalidClean

(* Coherence is inductive: one case for each operation. *)
LEMMA CoherentStep ==
  ASSUME Departures = {}, Coherent, TypeOK', HashSound', [Next]_vars
  PROVE  Coherent'
<1> DEFINE Goal == /\ FramesHashed' /\ PinSound' /\ CleanOnDisk'
                   /\ OwedHeld' /\ FramesLive' /\ InvalidClean'
<1> SUFFICES Goal
  BY DEF Coherent
<1>1. CASE UNCHANGED vars
  BY <1>1 DEF vars, Coherent, FramesHashed, PinSound, CleanOnDisk, OwedHeld, IsHeld,
              FramesLive, Live, Allocated, InvalidClean
<1>2. ASSUME NEW pg \in Pages, ReadPage(pg)
      PROVE  Goal
  BY <1>2, ReadCoherent
<1>3. ASSUME NEW pg \in Pages,
             \/ AllocPage(pg) \/ AllocPageWithoutFrame(pg)
             \/ AllocPageHashed(pg) \/ AllocPageRefused(pg)
      PROVE  Goal
  BY <1>3, AllocCoherent
<1>4. ASSUME NEW pg \in Pages, DisposePage(pg) \/ DisposeFails(pg)
      PROVE  Goal
  BY <1>4, DisposeCoherent
<1>5. ASSUME NEW pg \in Pages, NEW dirty \in BOOLEAN,
             UnPinAgain(pg, dirty) \/ \E i \in Frames : UnPinPage(pg, i, dirty)
      PROVE  Goal
  BY <1>5, UnPinCoherent
<1>6. ASSUME NEW pg \in Pages, NEW i \in Frames, NEW x \in Values, WritePage(pg, i, x)
      PROVE  Goal
  BY <1>6, WriteCoherent
<1>7. ASSUME NEW f \in Files, FlushFile(f) \/ FlushFails(f)
      PROVE  Goal
  BY <1>7, FlushCoherent
<1>8. CASE Restart
  BY <1>8, RestartCoherent
<1> HIDE DEF Goal
<1> QED
  BY <1>1, <1>2, <1>3, <1>4, <1>5, <1>6, <1>7, <1>8 DEF Next

(* Users who keep to the rules always meet a coherent pool.              *)
LEMMA AlwaysCoherent == ASSUME Departures = {} PROVE Spec => []Coherent
<1>1. Init => Coherent
  BY InitCoherent
<1>2. Coherent /\ TypeOK' /\ HashSound' /\ [Next]_vars => Coherent'
  BY CoherentStep
<1> QED
  BY <1>1, <1>2, TypeCorrect, TableSound, PTL DEF Spec

(* A page that a valid frame holds is in the table, under that frame: the  *)
(* pool never holds two copies of a page.                                  *)
THEOREM PoolMatchesTable == ASSUME Departures = {} PROVE Spec => []FramesHashed
<1>1. Coherent => FramesHashed
  BY DEF Coherent
<1> QED
  BY <1>1, AlwaysCoherent, PTL

(* No frame that a user points to is taken for another page, and the pin   *)
(* count of a frame is the number of its pointers.                         *)
THEOREM PinsAreSound == ASSUME Departures = {} PROVE Spec => []PinSound
<1>1. Coherent => PinSound
  BY DEF Coherent
<1> QED
  BY <1>1, AlwaysCoherent, PTL

(* What is dropped without being written is on disk already. *)
THEOREM CleanIsOnDisk == ASSUME Departures = {} PROVE Spec => []CleanOnDisk
<1>1. Coherent => CleanOnDisk
  BY DEF Coherent
<1> QED
  BY <1>1, AlwaysCoherent, PTL

-----------------------------------------------------------------------------
(* Implementing PageStore: as long as callers and disks do nothing beyond  *)
(* the good case, the value of a page is the one last written, whatever is *)
(* cached, evicted, flushed or written at the end.                         *)

(* A page in the table has a valid frame, and that frame has its value. *)
LEMMA PooledValue ==
  ASSUME Coherent, NEW pg \in Pages, InPool(pg)
  PROVE  /\ hashTable[pg] \in Frames
         /\ bufTable[hashTable[pg]].page = pg /\ bufTable[hashTable[pg]].valid
         /\ store[pg] = bufPool[hashTable[pg]]
BY NoPageAssumption DEF Coherent, HashSound, InPool, TypeOK, store

(* A page that is not in the pool has its value on disk.                 *)
LEMMA DiskValue ==
  ASSUME NEW pg \in Pages, ~InPool(pg)
  PROVE  store[pg] = disk[pg]
BY DEF store

(* Every page has one value.                                             *)
LEMMA StoreType == Coherent => store \in [Pages -> Values]
<1> SUFFICES ASSUME Coherent, NEW pg \in Pages
             PROVE  (IF InPool(pg) THEN bufPool[hashTable[pg]] ELSE disk[pg]) \in Values
  BY DEF store
<1> QED
  BY DEF Coherent, TypeOK, InPool

(* Users hold pages that are allocated. *)
LEMMA HeldLive == Coherent => inUse \subseteq Live
<1> SUFFICES ASSUME Coherent, NEW pg \in inUse PROVE pg \in Live
  OBVIOUS
<1>1. pg \in Pages /\ \E i \in Frames : held[pg][i] > 0
  BY DEF inUse, IsHeld
<1> QED
  BY <1>1, HeldInTable DEF Coherent, FramesLive

(* The pages there are change with the files only,                       *)
LEMMA LiveKept == file' = file => Live' = Live
BY DEF Live, Allocated

(* those in use with the pins of users.                                  *)
LEMMA InUseKept == held' = held => inUse' = inUse
BY DEF inUse, IsHeld

(* A step that changes no value and no allocation is one of the users. *)
LEMMA UseStep ==
  ASSUME Coherent, Coherent', file' = file, \A q \in Pages : store'[q] = store[q]
  PROVE  PS!Use
<1>1. store' = store
  BY DEF store
<1>2. (inUse \subseteq Live)'
  BY HeldLive, PTL
<1> QED
  BY <1>1, <1>2, LiveKept DEF PS!Use

(* The same, with the value of one page changed. *)
LEMMA OneChange ==
  ASSUME Coherent, Coherent', NEW pg \in Pages,
         \A q \in Pages \ {pg} : store'[q] = store[q]
  PROVE  PS!OnlyChanges(pg)
<1>1. (store \in [Pages -> Values])'
  BY StoreType, PTL
<1>2. store \in [Pages -> Values]
  BY StoreType
<1>3. store' = [store EXCEPT ![pg] = store'[pg]]
  <2> DEFINE s == store
             t == store'
  <2>1. s \in [Pages -> Values] /\ t \in [Pages -> Values] /\ \A q \in Pages \ {pg} : t[q] = s[q]
    BY <1>1, <1>2
  <2> HIDE DEF s, t
  <2>2. t = [s EXCEPT ![pg] = t[pg]]
    BY <2>1
  <2> QED
    BY <2>2 DEF s, t
<1>4. store'[pg] \in Values
  BY <1>1
<1> QED
  BY <1>3, <1>4 DEF PS!OnlyChanges

-----------------------------------------------------------------------------
(* A victim is taken: the page that leaves is on disk with its last value. *)
LEMMA TakenStore ==
  ASSUME Coherent, Candidates # {}, NEW pg \in Pages, ~InPool(pg),
         hashTable' = [Unhashed(Victim) EXCEPT ![pg] = Victim],
         \A i \in Frames \ {Victim} : bufPool'[i] = bufPool[i],
         \A q \in Pages \ {pg} : disk'[q] = WrittenBack(Victim)[q]
  PROVE  \A q \in Pages \ {pg} : store'[q] = store[q]
<1> SUFFICES ASSUME NEW q \in Pages, q # pg
             PROVE  store'[q] = store[q]
  OBVIOUS
<1>1. /\ Victim \in Frames
      /\ ~bufTable[Victim].valid \/ bufTable[Victim].pinCnt = 0
  BY VictimFree DEF Coherent
<1>2. hashTable'[q] = Unhashed(Victim)[q]
  BY <1>1, UnhashedType DEF Coherent
<1>3. store'[q] = IF hashTable'[q] # NoFrame THEN bufPool'[hashTable'[q]] ELSE disk'[q]
  BY DEF store, InPool
<1>4. CASE bufTable[Victim].valid /\ bufTable[Victim].page = q
  <2>1. hashTable[q] = Victim /\ InPool(q)
    BY <1>1, <1>4 DEF Coherent, FramesHashed, InPool, Frames, NoFrame
  <2>2. store[q] = bufPool[Victim]
    BY <2>1, PooledValue
  <2>3. hashTable'[q] = NoFrame
    BY <1>2, <1>4 DEF Unhashed, Coherent, TypeOK
  <2>4. q \notin owed
    BY <1>1, <1>4, NotPinned
  <2>5. WrittenBack(Victim)[q] = bufPool[Victim]
    BY <1>1, <1>4, <2>4 DEF WrittenBack, Coherent, CleanOnDisk, TypeOK
  <2> QED
    BY <1>3, <2>2, <2>3, <2>5
<1>5. CASE ~(bufTable[Victim].valid /\ bufTable[Victim].page = q)
  <2>1. hashTable'[q] = hashTable[q]
    BY <1>2, <1>5 DEF Unhashed, Coherent, TypeOK
  <2>2. CASE InPool(q)
    <3>1. hashTable[q] \in Frames /\ hashTable[q] # Victim /\ store[q] = bufPool[hashTable[q]]
      BY <1>5, <2>2, PooledValue
    <3> QED
      BY <1>3, <2>1, <2>2, <3>1 DEF InPool
  <2>3. CASE ~InPool(q)
    <3>1. WrittenBack(Victim)[q] = disk[q]
      BY <1>1, <1>5 DEF WrittenBack, Coherent, InvalidClean, TypeOK
    <3> QED
      BY <1>3, <2>1, <2>3, <3>1, DiskValue DEF InPool
  <2> QED
    BY <2>2, <2>3
<1> QED
  BY <1>4, <1>5

(* Reads change no value. *)
LEMMA ReadMaps ==
  ASSUME Coherent, Coherent', Departures = {}, NEW pg \in Pages, ReadPage(pg)
  PROVE  PS!Use
<1>1. file' = file
  BY DEF ReadPage, ReadHit, ReadMiss, ReadWithoutFrame, ReadFails
<1>2. CASE ReadHit(pg)
  BY <1>1, <1>2, UseStep DEF ReadHit, store, InPool
<1>3. CASE ReadMiss(pg)
  <2>1. \A q \in Pages \ {pg} : store'[q] = store[q]
    BY <1>3, VictimFree, TakenStore DEF ReadMiss, Coherent, TypeOK
  <2>2. store'[pg] = store[pg]
    <3>1. Victim \in Frames /\ Victim # NoFrame
      BY <1>3, VictimFree, NumBufsAssumption DEF ReadMiss, Coherent, Frames, NoFrame
    <3>2. hashTable'[pg] = Victim /\ bufPool'[Victim] = WrittenBack(Victim)[pg]
      BY <1>3, <3>1, UnhashedType DEF ReadMiss, Coherent, TypeOK
    <3>3. bufTable[Victim].page # pg
      BY <1>3, <3>1, NotInPool DEF ReadMiss
    <3>4. WrittenBack(Victim)[pg] = disk[pg]
      BY <3>1, <3>3 DEF WrittenBack, Coherent, TypeOK
    <3>5. store'[pg] = bufPool'[Victim]
      BY <3>1, <3>2 DEF store, InPool
    <3> QED
      BY <1>3, <3>2, <3>4, <3>5, DiskValue DEF ReadMiss
  <2> QED
    BY <1>1, <2>1, <2>2, UseStep
<1>4. CASE ReadWithoutFrame(pg)
  <2>1. UNCHANGED <<bufPool, hashTable, disk>>
    BY <1>4 DEF ReadWithoutFrame, AllocBufFails, BufferExceeded, WriteBackFails
  <2> QED
    BY <1>1, <2>1, UseStep DEF store, InPool
<1>5. CASE ReadFails(pg)
  <2>1. pg \in Live /\ pg[2] >= file[pg[1]].numPages
    BY <1>5 DEF ReadFails, Asked
  <2>2. pg[2] < file[pg[1]].numPages /\ pg[1] \in Files /\ pg[2] \in Int
    BY <2>1, BoundsAssumption DEF Live, Allocated, Pages, PageNos
  <2>3. file[pg[1]].numPages \in Int
    BY <2>2, BoundsAssumption DEF Coherent, TypeOK
  <2> QED
    BY <2>1, <2>2, <2>3
<1> QED
  BY <1>2, <1>3, <1>4, <1>5 DEF ReadPage

(* A new page is allocated; no other page changes. *)
LEMMA AllocMaps ==
  ASSUME Coherent, Coherent', Departures = {}, NEW pg \in Pages,
         \/ AllocPage(pg) \/ AllocPageWithoutFrame(pg)
         \/ AllocPageHashed(pg) \/ AllocPageRefused(pg)
  PROVE  PS!Allocate(pg)
<1>1. AllocatePage(pg[1], pg[2])
  BY DEF AllocPage, AllocPageWithoutFrame, AllocPageHashed, AllocPageRefused
<1>2. pg \notin Live /\ Live' = Live \cup {pg}
  BY <1>1, AllocatedAnew DEF Coherent
<1>3. ~InPool(pg)
  BY <1>2, PooledValue DEF Coherent, FramesLive
<1>4. \A q \in Pages \ {pg} : Extended(pg)[q] = disk[q]
  BY DEF Extended, Coherent, TypeOK
<1>5. CASE AllocPage(pg)
  <2>1. Victim \in Frames
    BY <1>5, VictimFree DEF AllocPage, Coherent
  <2>2. \A q \in Pages \ {pg} : disk'[q] = WrittenBack(Victim)[q]
    BY <1>4, <1>5, AllocatePageType, <1>1 DEF AllocPage, WrittenBack, Coherent, TypeOK
  <2>3. \A q \in Pages \ {pg} : store'[q] = store[q]
    BY <1>3, <1>5, <2>2, TakenStore DEF AllocPage
  <2>4. inUse' = inUse \cup {pg}
    BY <1>5, <2>1 DEF AllocPage, Hold, inUse, IsHeld, Coherent, TypeOK
  <2> QED
    BY <1>2, <2>3, <2>4, OneChange DEF PS!Allocate
<1>6. CASE AllocPageWithoutFrame(pg)
  <2>1. BufferExceeded
    BY <1>6 DEF AllocPageWithoutFrame, AllocBufFails, WriteBackFails
  <2>2. UNCHANGED <<hashTable, bufPool, held>> /\ disk' = Extended(pg)
    BY <1>6, <2>1 DEF AllocPageWithoutFrame, BufferExceeded
  <2>3. \A q \in Pages \ {pg} : store'[q] = store[q]
    BY <1>4, <2>2 DEF store, InPool
  <2> QED
    BY <1>2, <2>2, <2>3, InUseKept, OneChange DEF PS!Allocate
<1>7. ~AllocPageHashed(pg)
  BY <1>3 DEF AllocPageHashed, Unhashed, InPool, Coherent, TypeOK
<1>8. ~AllocPageRefused(pg)
  BY DEF AllocPageRefused
<1> QED
  BY <1>5, <1>6, <1>7, <1>8

(* A page is given back; no other page changes. *)
LEMMA DisposeMaps ==
  ASSUME Coherent, Coherent', Departures = {}, NEW pg \in Pages,
         DisposePage(pg) \/ DisposeFails(pg)
  PROVE  PS!Dispose(pg)
<1>1. /\ pg[2] # 1 /\ pg \in Live /\ ~IsHeld(pg) /\ Forget(pg)
      /\ file' = [file EXCEPT ![pg[1]].free = @ \cup {pg[2]}]
      /\ disk' = [disk EXCEPT ![pg] = Blank]
      /\ UNCHANGED <<bufPool, held>>
  BY DEF DisposePage, DisposeFails, MayDispose
<1>2. \A q \in Pages \ {pg} : store'[q] = store[q]
  BY <1>1 DEF Forget, store, InPool, Coherent, TypeOK
<1>3. pg[1] \in Files /\ pg[2] \in PageNos /\ pg = <<pg[1], pg[2]>>
  BY DEF Pages
<1>4. ASSUME NEW f \in Files
      PROVE  Allocated(f)' = IF f = pg[1] THEN Allocated(f) \ {pg[2]} ELSE Allocated(f)
  <2>1. /\ file'[f].numPages = file[f].numPages
        /\ file'[f].free = IF f = pg[1] THEN file[f].free \cup {pg[2]} ELSE file[f].free
    BY <1>1, <1>3 DEF Coherent, TypeOK
  <2> QED
    BY <2>1 DEF Allocated
<1>5. Live' = Live \ {pg}
  BY <1>3, <1>4 DEF Live, Pages
<1>6. pg \in Live \ inUse /\ inUse' = inUse
  BY <1>1, InUseKept DEF inUse
<1> QED
  BY <1>2, <1>5, <1>6, OneChange DEF PS!Dispose

(* A user writes into its page; no other page is in that frame. *)
LEMMA WriteMaps ==
  ASSUME Coherent, Coherent', NEW pg \in Pages, NEW i \in Frames, NEW x \in Values,
         WritePage(pg, i, x)
  PROVE  PS!Write(pg)
<1>1. /\ held[pg][i] > 0 /\ bufPool' = [bufPool EXCEPT ![i] = x]
      /\ UNCHANGED <<hashTable, disk, file, held>>
  BY DEF WritePage
<1>2. \A q \in Pages \ {pg} : store'[q] = store[q]
  <2> SUFFICES ASSUME NEW q \in Pages, q # pg PROVE store'[q] = store[q]
    OBVIOUS
  <2>1. CASE InPool(q)
    <3>1. hashTable[q] \in Frames /\ hashTable[q] # i
      BY <1>1, <2>1, PooledValue, HeldInTable
    <3> QED
      BY <1>1, <2>1, <3>1 DEF store, InPool, Coherent, TypeOK
  <2>2. CASE ~InPool(q)
    BY <1>1, <2>2 DEF store, InPool
  <2> QED
    BY <2>1, <2>2
<1>3. pg \in inUse
  BY <1>1 DEF inUse, IsHeld
<1> QED
  BY <1>1, <1>2, <1>3, OneChange, LiveKept, InUseKept DEF PS!Write

(* A flush writes what it drops; other pages stay where they are. *)
LEMMA FlushMaps ==
  ASSUME Coherent, Coherent', Departures = {}, NEW f \in Files,
         FlushFile(f) \/ FlushFails(f)
  PROVE  PS!Use
<1>1. FlushBelow(f, FirstBlocking(f)) /\ UNCHANGED <<bufPool, file>>
  BY DEF FlushFile, FlushFails
<1>2. ASSUME NEW q \in Pages
      PROVE  store'[q] = store[q]
  <2>1. CASE ~InPool(q)
    <3>1. \A i \in Frames : bufTable[i].page # q
      BY <2>1, NotInPool
    <3>2. hashTable'[q] = hashTable[q] /\ disk'[q] = disk[q]
      BY <1>1, <3>1 DEF FlushBelow
    <3> QED
      BY <2>1, <3>2 DEF store, InPool
  <2>2. CASE InPool(q)
    <3> DEFINE i == hashTable[q]
    <3>1. /\ i \in Frames /\ bufTable[i].page = q /\ bufTable[i].valid
          /\ store[q] = bufPool[i]
      BY <2>2, PooledValue
    <3>2. CASE i < FirstBlocking(f) /\ OfFile(i, f)
      <4>1. bufTable[i].pinCnt = 0
        BY <3>1, <3>2, FlushedFree
      <4>2. q \notin owed
        BY <3>1, <4>1, NotPinned
      <4>3. disk'[q] = bufPool[i] /\ hashTable'[q] = NoFrame
        BY <1>1, <3>1, <3>2, <4>2, FlushEffect DEF Coherent, CleanOnDisk
      <4> QED
        BY <3>1, <4>3 DEF store, InPool
    <3>3. CASE ~(i < FirstBlocking(f) /\ OfFile(i, f))
      <4>1. hashTable'[q] = hashTable[q]
        BY <1>1, <3>1, <3>3, FlushEffect
      <4> QED
        BY <1>1, <2>2, <4>1 DEF store, InPool
    <3> QED
      BY <3>2, <3>3
  <2> QED
    BY <2>1, <2>2
<1> QED
  BY <1>1, <1>2, UseStep

(* The end of the process writes every page that the disk does not have. *)
LEMMA RestartMaps ==
  ASSUME Coherent, Coherent', Departures = {}, Restart
  PROVE  PS!Use
<1>1. /\ owed = {} /\ disk' = AllWritten({}) /\ file' = file
      /\ \A q \in Pages : hashTable'[q] = NoFrame
  BY DEF Restart
<1>2. ASSUME NEW q \in Pages
      PROVE  store'[q] = store[q]
  <2>1. store'[q] = AllWritten({})[q]
    BY <1>1 DEF store, InPool
  <2>2. CASE ~InPool(q)
    <3>1. DirtyOf(q, {}) = {}
      BY <2>2, NotInPool DEF DirtyOf
    <3> QED
      BY <2>1, <2>2, <3>1, DiskValue DEF AllWritten
  <2>3. CASE InPool(q)
    <3> DEFINE i == hashTable[q]
    <3>1. /\ i \in Frames /\ bufTable[i].page = q /\ bufTable[i].valid
          /\ store[q] = bufPool[i]
      BY <2>3, PooledValue
    <3>2. DirtyOf(q, {}) = IF bufTable[i].dirty THEN {i} ELSE {}
      BY <3>1, OneFrame DEF DirtyOf
    <3>3. CASE bufTable[i].dirty
      <4> DEFINE last == CHOOSE k \in DirtyOf(q, {}) : \A j \in DirtyOf(q, {}) : j <= k
      <4>1. last \in DirtyOf(q, {})
        <5>1. DirtyOf(q, {}) \in SUBSET Frames /\ DirtyOf(q, {}) # {}
          BY <3>1, <3>2, <3>3
        <5> QED
          BY <5>1, LastFrame
      <4>2. AllWritten({})[q] = bufPool[last]
        BY <3>2, <3>3 DEF AllWritten
      <4> HIDE DEF last
      <4>3. last = i
        BY <3>2, <3>3, <4>1
      <4> QED
        BY <2>1, <3>1, <4>2, <4>3
    <3>4. CASE ~bufTable[i].dirty
      BY <1>1, <2>1, <3>1, <3>2, <3>4 DEF AllWritten, Coherent, CleanOnDisk
    <3> QED
      BY <3>3, <3>4
  <2> QED
    BY <2>2, <2>3
<1> QED
  BY <1>1, <1>2, UseStep

-----------------------------------------------------------------------------
(* The detailed steps map to abstract ones: one case for each operation. *)
LEMMA StepMaps ==
  ASSUME Departures = {}, Coherent, Coherent', [Next]_vars
  PROVE  [PS!Next]_<<store, Live, inUse>>
<1>1. CASE UNCHANGED vars
  BY <1>1, LiveKept, InUseKept DEF vars, store, InPool
<1>2. ASSUME NEW pg \in Pages, ReadPage(pg)
      PROVE  PS!Next
  BY <1>2, ReadMaps DEF PS!Next
<1>3. ASSUME NEW pg \in Pages,
             \/ AllocPage(pg) \/ AllocPageWithoutFrame(pg)
             \/ AllocPageHashed(pg) \/ AllocPageRefused(pg)
      PROVE  PS!Next
  BY <1>3, AllocMaps DEF PS!Next
<1>4. ASSUME NEW pg \in Pages, DisposePage(pg) \/ DisposeFails(pg)
      PROVE  PS!Next
  BY <1>4, DisposeMaps DEF PS!Next
<1>5. ASSUME NEW pg \in Pages, NEW dirty \in BOOLEAN,
             UnPinAgain(pg, dirty) \/ \E i \in Frames : UnPinPage(pg, i, dirty)
      PROVE  PS!Next
  <2>1. UNCHANGED <<bufPool, hashTable, disk, file>>
    BY <1>5 DEF UnPinAgain, UnPinPage
  <2> QED
    BY <2>1, UseStep DEF PS!Next, store, InPool
<1>6. ASSUME NEW pg \in Pages, NEW i \in Frames, NEW x \in Values, WritePage(pg, i, x)
      PROVE  PS!Next
  BY <1>6, WriteMaps DEF PS!Next
<1>7. ASSUME NEW f \in Files, FlushFile(f) \/ FlushFails(f)
      PROVE  PS!Next
  BY <1>7, FlushMaps DEF PS!Next
<1>8. CASE Restart
  BY <1>8, RestartMaps DEF PS!Next
<1> QED
  BY <1>1, <1>2, <1>3, <1>4, <1>5, <1>6, <1>7, <1>8 DEF Next

(* An initial state of the pool is one of the page store.                *)
LEMMA InitMaps == Init => PS!Init
<1> SUFFICES ASSUME Init PROVE PS!Init
  OBVIOUS
<1>1. store \in [Pages -> Values]
  BY InitCoherent, StoreType
<1>2. Live = {}
  <2> SUFFICES ASSUME NEW pg \in Live PROVE FALSE
    OBVIOUS
  <2>1. pg[2] \in 1 .. MaxPages /\ pg[2] < 1
    BY DEF Init, Live, Allocated, Pages, PageNos
  <2> QED
    BY <2>1, BoundsAssumption
<1>3. inUse = {}
  BY DEF Init, inUse, IsHeld
<1> QED
  BY <1>1, <1>2, <1>3 DEF PS!Init

(* Caching is invisible: with a pool of any size over any files, the       *)
(* readPage, allocPage, unPinPage, flushFile, disposePage and shutdown of  *)
(* buf.C behave as a store that has one value for each page.               *)
THEOREM PoolImplementsStore == ASSUME Departures = {} PROVE Spec => StoreSpec
<1>1. Init => PS!Init
  BY InitMaps
<1>2. Coherent /\ Coherent' /\ [Next]_vars => [PS!Next]_<<store, Live, inUse>>
  BY StepMaps
<1> QED
  BY <1>1, <1>2, AlwaysCoherent, PTL DEF Spec, StoreSpec, PS!Spec
-----------------------------------------------------------------------------
(* The hand.                                                               *)

(* The hand goes from frame to frame, looks at each once in a sweep, and   *)
(* ends where it started.                                                  *)
LEMMA HandMoves ==
  ASSUME clockHand \in Frames
  PROVE  /\ FrameAt(0) = clockHand /\ FrameAt(2 * NumBufs) = clockHand
         /\ \A k \in 0 .. 2 * NumBufs : FrameAt(k) \in Frames
         /\ \A k \in 1 .. 2 * NumBufs : (FrameAt(k - 1) + 1) % NumBufs = FrameAt(k)
         /\ \A k \in NumBufs + 1 .. 2 * NumBufs : FrameAt(k) = FrameAt(k - NumBufs)
         /\ \A j, k \in 1 .. NumBufs : FrameAt(j) = FrameAt(k) => j = k
<1> DEFINE n == NumBufs
           h == clockHand
<1>1. n \in Nat \ {0} /\ h \in 0 .. n - 1
  BY NumBufsAssumption DEF Frames
<1>2. \A k \in 0 .. 2 * n : h + k \in 0 .. 3 * n - 1
  BY <1>1
<1> DEFINE R(x) == IF x < n THEN x ELSE IF x < 2 * n THEN x - n ELSE x - 2 * n
<1>3. \A x \in 0 .. 3 * n - 1 : x % n = R(x)
  BY <1>1, Residue
<1>4. \A k \in 0 .. 2 * n : FrameAt(k) = R(h + k)
  BY <1>2, <1>3 DEF FrameAt
<1> HIDE DEF n, h
<1>5. FrameAt(0) = h /\ FrameAt(2 * n) = h
  BY <1>1, <1>4
<1>6. \A k \in 0 .. 2 * n : FrameAt(k) \in 0 .. n - 1
  BY <1>1, <1>4
<1>7. ASSUME NEW k \in 1 .. 2 * n PROVE (FrameAt(k - 1) + 1) % n = FrameAt(k)
  <2>1. k - 1 \in 0 .. 2 * n /\ k \in 0 .. 2 * n
    BY <1>1
  <2>2. FrameAt(k - 1) = R(h + (k - 1)) /\ FrameAt(k) = R(h + k)
    BY <1>4, <2>1
  <2>3. R(h + (k - 1)) + 1 \in 0 .. 3 * n - 1
    BY <1>1, <2>1
  <2>4. R(R(h + (k - 1)) + 1) = R(h + k)
    BY <1>1, <2>1
  <2> QED
    BY <1>3, <2>2, <2>3, <2>4
<1>8. ASSUME NEW k \in n + 1 .. 2 * n PROVE FrameAt(k) = FrameAt(k - n)
  <2>1. k - n \in 0 .. 2 * n /\ k \in 0 .. 2 * n
    BY <1>1
  <2> QED
    BY <1>1, <1>4, <2>1
<1>9. ASSUME NEW j \in 1 .. n, NEW k \in 1 .. n, FrameAt(j) = FrameAt(k) PROVE j = k
  <2>1. j \in 0 .. 2 * n /\ k \in 0 .. 2 * n
    BY <1>1
  <2> QED
    BY <1>1, <1>4, <1>9, <2>1
<1> QED
  BY <1>5, <1>6, <1>7, <1>8, <1>9 DEF n, h, Frames

-----------------------------------------------------------------------------
(* The loop.                                                               *)

(* The loop after n frames that it went past, and when it takes the n-th.  *)
Passed(n) == [bufTable |-> Swept(n), clockHand |-> FrameAt(n), numScanned |-> n,
              outcome |-> "scanning"]
Taken(n)  == [bufTable |-> Swept(n - 1), clockHand |-> FrameAt(n), numScanned |-> n,
              outcome |-> "found"]
After(k)  == IF \E j \in Candidates : j <= k THEN Taken(LastScan) ELSE Passed(k)

(* The first candidate.                                                    *)
LEMMA LastScanIs ==
  ASSUME Candidates # {}
  PROVE  LastScan \in Candidates /\ \A j \in Candidates : LastScan <= j
<1>1. Candidates \subseteq Nat
  BY NumBufsAssumption DEF Candidates
<1>2. \E k \in Candidates : \A j \in Candidates : k <= j
  BY <1>1, LeastElement
<1> QED
  BY <1>2 DEF LastScan

(* One more frame goes past: its reference bit is turned off. *)
LEMMA SweptOne ==
  ASSUME TypeOK, NEW k \in 1 .. 2 * NumBufs
  PROVE  LET i == FrameAt(k)
         IN  /\ Swept(k) = [Swept(k - 1) EXCEPT ![i].refbit = FALSE]
             /\ Swept(k - 1)[i].valid = bufTable[i].valid
             /\ Swept(k - 1)[i].pinCnt = bufTable[i].pinCnt
             /\ k <= NumBufs => Swept(k - 1)[i].refbit = bufTable[i].refbit
             /\ k > NumBufs => Swept(k - 1)[i].refbit = FALSE
<1> DEFINE i == FrameAt(k)
<1>1. /\ NumBufs \in Nat \ {0} /\ i \in Frames /\ bufTable \in [Frames -> BufDesc]
      /\ \A x \in Frames : bufTable[x] \in BufDesc
      /\ clockHand \in Frames
  <2>1. k \in 0 .. 2 * NumBufs
    BY NumBufsAssumption
  <2> QED
    BY <2>1, NumBufsAssumption, HandMoves DEF TypeOK
<1>2. \A n : /\ Swept(n) \in [Frames -> BufDesc]
             /\ \A x \in Frames : /\ Swept(n)[x].valid = bufTable[x].valid
                                  /\ Swept(n)[x].pinCnt = bufTable[x].pinCnt
  BY SweptKeeps
<1>3. Swept(k) = [Swept(k - 1) EXCEPT ![i].refbit = FALSE]
  <2>1. \A x \in Frames : (\E j \in 1 .. k : FrameAt(j) = x)
                          <=> (x = i \/ \E j \in 1 .. k - 1 : FrameAt(j) = x)
    <3>1. \A j \in Int : j \in 1 .. k <=> j = k \/ j \in 1 .. k - 1
      BY <1>1
    <3> QED
      BY <3>1
  <2> DEFINE T == Swept(k - 1)
  <2>2. /\ T \in [Frames -> BufDesc]
        /\ \A x \in Frames : T[x] = IF \E j \in 1 .. k - 1 : FrameAt(j) = x
                                    THEN [bufTable[x] EXCEPT !.refbit = FALSE] ELSE bufTable[x]
    BY <1>2 DEF Swept
  <2>3. \A x \in Frames : Swept(k)[x] = IF \E j \in 1 .. k : FrameAt(j) = x
                                        THEN [bufTable[x] EXCEPT !.refbit = FALSE] ELSE bufTable[x]
    BY DEF Swept
  <2> HIDE DEF T, i
  <2>4. [T[i] EXCEPT !.refbit = FALSE] = [bufTable[i] EXCEPT !.refbit = FALSE]
    BY <1>1, <2>2 DEF BufDesc
  <2>5. \A x \in Frames : Swept(k)[x] = [T EXCEPT ![i].refbit = FALSE][x]
    BY <1>1, <2>1, <2>2, <2>3, <2>4
  <2>6. Swept(k) \in [Frames -> BufDesc]
    BY <1>2
  <2>7. DOMAIN [T EXCEPT ![i].refbit = FALSE] = Frames
    BY <2>2
  <2> QED
    BY <2>2, <2>5, <2>6, <2>7 DEF T, i
<1>4. ASSUME k <= NumBufs PROVE Swept(k - 1)[i].refbit = bufTable[i].refbit
  <2>1. ASSUME NEW j \in 1 .. k - 1, FrameAt(j) = i PROVE FALSE
    <3>1. j \in 1 .. NumBufs /\ k \in 1 .. NumBufs /\ j # k
      BY <1>1, <1>4
    <3> QED
      BY <1>1, <2>1, <3>1, HandMoves
  <2>2. Swept(k - 1)[i] = bufTable[i]
    BY <1>1, <2>1 DEF Swept
  <2> QED
    BY <2>2
<1>5. ASSUME k > NumBufs PROVE Swept(k - 1)[i].refbit = FALSE
  <2>1. k - NumBufs \in 1 .. k - 1 /\ k \in NumBufs + 1 .. 2 * NumBufs
    BY <1>1, <1>5
  <2>2. FrameAt(k - NumBufs) = i
    BY <1>1, <2>1, HandMoves
  <2>3. Swept(k - 1)[i] = [bufTable[i] EXCEPT !.refbit = FALSE]
    BY <1>1, <2>1, <2>2 DEF Swept
  <2> QED
    BY <1>1, <2>3 DEF BufDesc
<1> QED
  BY <1>1, <1>2, <1>3, <1>4, <1>5

(* The loop goes on from what it came to after k - 1 frames.               *)
LEMMA LoopStep ==
  ASSUME TypeOK, NEW k \in 1 .. 2 * NumBufs
  PROVE  After(k) = IF MayScan(After(k - 1)) THEN Look(After(k - 1)) ELSE After(k - 1)
<1>1. NumBufs \in Nat \ {0} /\ clockHand \in Frames /\ k - 1 \in 0 .. 2 * NumBufs /\ k - 1 < k
      /\ Candidates \subseteq Nat
  BY NumBufsAssumption DEF TypeOK, Candidates
<1>2. CASE \E j \in Candidates : j <= k - 1
  <2>1. After(k) = Taken(LastScan) /\ After(k - 1) = Taken(LastScan)
    BY <1>1, <1>2 DEF After
  <2>2. ~MayScan(Taken(LastScan))
    BY DEF MayScan, Taken
  <2> QED
    BY <2>1, <2>2
<1>3. CASE ~\E j \in Candidates : j <= k - 1
  <2> DEFINE i == FrameAt(k)
             b == Swept(k - 1)[i]
  <2>1. After(k - 1) = Passed(k - 1) /\ MayScan(Passed(k - 1))
    BY <1>1, <1>3 DEF After, MayScan, Passed
  <2>2. /\ i \in Frames /\ bufTable[i] \in BufDesc
        /\ Swept(k) = [Swept(k - 1) EXCEPT ![i].refbit = FALSE]
        /\ b.valid = bufTable[i].valid
        /\ b.pinCnt = bufTable[i].pinCnt
        /\ k <= NumBufs => b.refbit = bufTable[i].refbit
        /\ k > NumBufs => b.refbit = FALSE
        /\ Swept(k - 1) \in [Frames -> BufDesc] /\ b \in BufDesc
    <3>1. k \in 0 .. 2 * NumBufs
      BY <1>1
    <3>2. i \in Frames
      BY <1>1, <3>1, HandMoves
    <3>3. Swept(k - 1) \in [Frames -> BufDesc]
      BY SweptKeeps
    <3> QED
      BY <3>2, <3>3, SweptOne DEF TypeOK
  <2>3. Look(Passed(k - 1)) =
          [bufTable   |-> IF b.valid THEN Swept(k) ELSE Swept(k - 1),
           clockHand  |-> i,
           numScanned |-> k,
           outcome    |-> IF ~b.valid THEN IF k < 2 * NumBufs THEN "found" ELSE "exceeded"
                          ELSE IF ~b.refbit /\ b.pinCnt = 0 THEN "found" ELSE "scanning"]
    <3>1. (FrameAt(k - 1) + 1) % NumBufs = i /\ (k - 1) + 1 = k
      BY <1>1, HandMoves
    <3>2. /\ Passed(k - 1).bufTable = Swept(k - 1) /\ Passed(k - 1).clockHand = FrameAt(k - 1)
          /\ Passed(k - 1).numScanned = k - 1
      BY DEF Passed
    <3> HIDE DEF i
    <3> QED
      BY <2>2, <3>1, <3>2 DEF Look
  <2>4. Stops(k) <=> ~bufTable[i].valid
                     \/ (bufTable[i].pinCnt = 0 /\ (~bufTable[i].refbit \/ k > NumBufs))
    BY DEF Stops
  <2> HIDE DEF i, b
  <2>5. CASE Stops(k)
    <3>1. LastScan = k
      <4>1. k \in Candidates
        BY <2>5 DEF Candidates
      <4>2. LastScan \in Candidates /\ LastScan <= k
        BY <4>1, LastScanIs
      <4> QED
        BY <1>1, <1>3, <4>1, <4>2
    <3>2. After(k) = Taken(k)
      <4>1. k \in Candidates /\ k <= k
        BY <1>1, <2>5 DEF Candidates
      <4> QED
        BY <3>1, <4>1 DEF After
    <3>3. ~b.valid => k < 2 * NumBufs
      <4>1. ASSUME ~b.valid, k = 2 * NumBufs PROVE FALSE
        <5>1. k \in NumBufs + 1 .. 2 * NumBufs /\ k - NumBufs \in 1 .. 2 * NumBufs
              /\ k - NumBufs <= k - 1
          BY <1>1, <4>1
        <5>2. FrameAt(k - NumBufs) = i
          BY <1>1, <5>1, HandMoves DEF i
        <5>3. Stops(k - NumBufs)
          BY <2>2, <4>1, <5>2 DEF Stops
        <5>4. k - NumBufs \in Candidates
          BY <5>1, <5>3 DEF Candidates
        <5> QED
          BY <1>3, <5>1, <5>4
      <4> QED
        BY <1>1, <4>1
    <3>4. CASE ~b.valid
      BY <2>1, <2>3, <3>2, <3>3, <3>4 DEF Taken, i
    <3>5. CASE b.valid
      <4>1. b.pinCnt = 0 /\ b.refbit = FALSE
        BY <1>1, <2>2, <2>4, <2>5, <3>5 DEF BufDesc
      <4>2. Swept(k) = Swept(k - 1)
        <5>1. [b EXCEPT !.refbit = FALSE] = b
          BY <2>2, <4>1 DEF BufDesc
        <5>2. [Swept(k - 1) EXCEPT ![i].refbit = FALSE]
                = [Swept(k - 1) EXCEPT ![i] = [b EXCEPT !.refbit = FALSE]]
          BY DEF b
        <5> QED
          BY <2>2, <5>1, <5>2 DEF b
      <4> QED
        BY <2>1, <2>3, <3>2, <3>5, <4>1, <4>2 DEF Taken, i
    <3> QED
      BY <3>4, <3>5
  <2>6. CASE ~Stops(k)
    <3>1. ~\E j \in Candidates : j <= k
      <4>1. ASSUME NEW j \in Candidates, j <= k PROVE FALSE
        <5>1. j # k
          BY <2>6 DEF Candidates
        <5> QED
          BY <1>1, <1>3, <4>1, <5>1
      <4> QED
        BY <4>1
    <3>2. After(k) = Passed(k)
      BY <3>1 DEF After
    <3>3. b.valid /\ ~(~b.refbit /\ b.pinCnt = 0)
      BY <1>1, <2>2, <2>4, <2>6
    <3> QED
      BY <2>1, <2>3, <3>2, <3>3 DEF Passed, i
  <2> QED
    BY <2>5, <2>6
<1> QED
  BY <1>2, <1>3

(* What the loop comes to. *)
LEMMA LoopIs ==
  ASSUME TypeOK
  PROVE  SweptClock(bufTable, clockHand)
           = IF Candidates = {} THEN [Passed(2 * NumBufs) EXCEPT !.outcome = "exceeded"]
             ELSE Taken(LastScan)
<1> DEFINE N == 2 * NumBufs
           Loop(f) == [k \in 0 .. N |-> IF k = 0 THEN Called(bufTable, clockHand)
                                        ELSE IF MayScan(f[k - 1]) THEN Look(f[k - 1]) ELSE f[k - 1]]
           after == CHOOSE f : f = Loop(f)
           w == [k \in 0 .. N |-> After(k)]
<1>1. N \in Nat /\ NumBufs \in Nat \ {0} /\ clockHand \in Frames
  BY NumBufsAssumption DEF TypeOK
<1>2. After(0) = Called(bufTable, clockHand)
  <2>1. ~\E j \in Candidates : j <= 0
    BY <1>1 DEF Candidates
  <2>2. Swept(0) = bufTable
    <3>1. \A i \in Frames : Swept(0)[i] = bufTable[i]
      BY DEF Swept
    <3>2. Swept(0) \in [Frames -> BufDesc] /\ bufTable \in [Frames -> BufDesc]
      BY SweptKeeps DEF TypeOK
    <3> QED
      BY <3>1, <3>2
  <2> QED
    BY <1>1, <2>1, <2>2, HandMoves DEF After, Passed, Called
<1>3. \A k \in 1 .. N :
        After(k) = IF MayScan(After(k - 1)) THEN Look(After(k - 1)) ELSE After(k - 1)
  BY LoopStep
<1>4. w = Loop(w)
  <2>1. ASSUME NEW k \in 0 .. N PROVE w[k] = Loop(w)[k]
    <3>1. CASE k = 0
      BY <1>2, <3>1
    <3>2. CASE k # 0
      <4>1. k \in 1 .. N /\ k - 1 \in 0 .. N
        BY <1>1, <3>2
      <4> QED
        BY <1>3, <3>2, <4>1
    <3> QED
      BY <3>1, <3>2
  <2> QED
    BY <2>1
<1>5. after = Loop(after)
  <2> HIDE DEF Loop, w
  <2> QED
    BY <1>4
<1> HIDE DEF after
<1>6. \A k \in Nat : k <= N => after[k] = After(k)
  <2> DEFINE S == {k \in Nat : k <= N => after[k] = After(k)}
  <2>1. 0 \in S
    BY <1>1, <1>2, <1>5
  <2>2. ASSUME NEW k \in S PROVE k + 1 \in S
    <3> SUFFICES ASSUME k + 1 <= N PROVE after[k + 1] = After(k + 1)
      OBVIOUS
    <3>1. k + 1 \in 0 .. N /\ k + 1 # 0 /\ (k + 1) - 1 = k /\ k <= N /\ k + 1 \in 1 .. N
      BY <1>1
    <3>2. after[k] = After(k)
      BY <3>1
    <3> HIDE DEF S
    <3>3. after[k + 1] = IF MayScan(after[k]) THEN Look(after[k]) ELSE after[k]
      BY <1>5, <3>1
    <3> QED
      BY <1>3, <3>1, <3>2, <3>3
  <2>3. S \subseteq Nat
    OBVIOUS
  <2> HIDE DEF S
  <2>4. S = Nat
    BY <2>1, <2>2, <2>3, SetInduction
  <2> QED
    BY <2>4 DEF S
<1>7. after[N] = After(N)
  BY <1>1, <1>6
<1>8. SweptClock(bufTable, clockHand)
        = IF after[N].outcome = "scanning" THEN [after[N] EXCEPT !.outcome = "exceeded"] ELSE after[N]
  BY DEF SweptClock, after
<1>9. CASE Candidates = {}
  <2>1. After(N) = Passed(N) /\ Passed(N).outcome = "scanning"
    BY <1>9 DEF After, Passed
  <2> QED
    BY <1>7, <1>8, <1>9, <2>1
<1>10. CASE Candidates # {}
  <2>1. LastScan \in Candidates /\ LastScan <= N
    BY <1>10, LastScanIs, <1>1 DEF Candidates
  <2>2. After(N) = Taken(LastScan) /\ Taken(LastScan).outcome = "found"
    BY <2>1 DEF After, Taken
  <2> QED
    BY <1>7, <1>8, <1>10, <2>2
<1> QED
  BY <1>9, <1>10

(* For any pool, the loop of allocBuf stops where BufMgr.tla says: at the  *)
(* first frame that is invalid, or unpinned with its bit off, in two       *)
(* sweeps, and it gives up exactly when there is none.                     *)
THEOREM LoopEndsAtVictim == Spec => []EndsAtVictim
<1>1. TypeOK => EndsAtVictim
  <2> SUFFICES ASSUME TypeOK PROVE EndsAtVictim
    OBVIOUS
  <2>1. clockHand \in Frames
    BY DEF TypeOK
  <2>2. CASE Candidates = {}
    <3>1. SweptClock(bufTable, clockHand) = [Passed(2 * NumBufs) EXCEPT !.outcome = "exceeded"]
      BY <2>2, LoopIs
    <3>2. FrameAt(2 * NumBufs) = clockHand
      BY <2>1, HandMoves
    <3> QED
      BY <2>2, <3>1, <3>2 DEF EndsAtVictim, Passed
  <2>3. CASE Candidates # {}
    <3>1. SweptClock(bufTable, clockHand) = Taken(LastScan)
      BY <2>3, LoopIs
    <3> QED
      BY <2>3, <3>1 DEF EndsAtVictim, Taken, Victim
  <2> QED
    BY <2>2, <2>3
<1> QED
  BY <1>1, TypeCorrect, PTL
=============================================================================
