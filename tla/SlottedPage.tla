---------------------------- MODULE SlottedPage ----------------------------
(***************************************************************************)
(* A data page of a heap file (phase6/page.C, the same in all phases): the *)
(* bytes of the records from the left, the slot array growing towards them *)
(* from the right.  Deleting a record closes the gap it leaves; its slot   *)
(* stays, empty, unless it is the last one.                                *)
(*                                                                         *)
(* Slot numbers are those of RIDs, 0, 1, ...; the code negates them to     *)
(* index the array.                                                        *)
(***************************************************************************)
EXTENDS Integers, FiniteSets

CONSTANTS
  DataSize,    \* PAGESIZE - DPFIXED: bytes of data (1004)
  SlotSize,    \* sizeof(slot_t) (4)
  Bytes,       \* the bytes
  Zero,        \* a byte of a zeroed page
  Lengths      \* the lengths of the records that are inserted

ASSUME SizesAssumption   == DataSize \in Nat /\ SlotSize \in Nat \ {0}
ASSUME BytesAssumption   == Zero \in Bytes
ASSUME LengthsAssumption == Lengths \subseteq Nat

VARIABLES
  slot,        \* the slot array
  slotCnt,     \* the number of slots (the code keeps it negative)
  freePtr,     \* where the next record goes
  freeSpace,   \* bytes left for records and their slots
  data         \* the bytes

vars == <<slot, slotCnt, freePtr, freeSpace, data>>

Slots   == 0 .. DataSize          \* more than the array can have
Places  == 0 .. DataSize - 1
Unused  == [offset |-> 0, length |-> -1]
IsEmpty(s) == slot[s].length = -1

Init == /\ slot = [s \in Slots |-> Unused]
        /\ slotCnt = 0
        /\ freePtr = 0
        /\ freeSpace = DataSize
        /\ data = [a \in Places |-> Zero]
-----------------------------------------------------------------------------
(* insertRecord.                                                           *)

(* A record is a function from 0 .. length - 1 to bytes. *)
RecordsOf(n) == [0 .. n - 1 -> Bytes]

(* There must be room for a new slot, even if an empty one is found. *)
Fits(n) == n + SlotSize <= freeSpace

(* The first empty slot, or the one past the end. *)
FreeSlot == CHOOSE s \in 0 .. slotCnt : /\ s = slotCnt \/ IsEmpty(s)
                                        /\ \A t \in 0 .. s - 1 : ~IsEmpty(t)

(* Wrong: a slot is charged for, found or new. *)
SpaceTaken_NewSlot(n) == n + SlotSize

(* What a record takes: its bytes, and its slot if that is a new one. *)
SpaceTaken(n) == IF FreeSlot = slotCnt THEN n + SlotSize ELSE n

InsertRecord(n, r) ==
  /\ Fits(n)
  /\ slot' = [slot EXCEPT ![FreeSlot] = [offset |-> freePtr, length |-> n]]
  /\ slotCnt' = IF FreeSlot = slotCnt THEN slotCnt + 1 ELSE slotCnt
  /\ freeSpace' = freeSpace - SpaceTaken(n)
  /\ data' = [a \in Places |-> IF freePtr <= a /\ a < freePtr + n THEN r[a - freePtr] ELSE data[a]]
  /\ freePtr' = freePtr + n
-----------------------------------------------------------------------------
(* deleteRecord.                                                           *)

InUse(s) == s < slotCnt /\ slot[s].length > 0

(* The slots left when s is emptied: the last slot goes, and the empty     *)
(* ones before it.                                                         *)
SlotCntWithout(s) ==
  IF s = slotCnt - 1
  THEN CHOOSE c \in 0 .. s : /\ c = 0 \/ ~IsEmpty(c - 1)
                             /\ \A t \in c .. s - 1 : IsEmpty(t)
  ELSE slotCnt

(* Wrong: only the record next to the gap is moved. *)
Moved_Next(s) == {t \in 0 .. slotCnt - 1 : /\ slot[t].length >= 0
                                          /\ slot[t].offset = slot[s].offset + slot[s].length}

(* The slots whose records lie to the right of that of s. *)
Moved(s) == {t \in 0 .. slotCnt - 1 : slot[t].length >= 0 /\ slot[t].offset > slot[s].offset}

DeleteRecord(s) ==
  /\ InUse(s)
  /\ LET n == slot[s].length
         o == slot[s].offset
     IN  /\ data' = [a \in Places |-> IF o <= a /\ a < freePtr - n THEN data[a + n] ELSE data[a]]
         /\ slot' = [t \in Slots |->
                       IF t = s /\ s # slotCnt - 1 THEN Unused
                       ELSE IF t \in Moved(s) THEN [slot[t] EXCEPT !.offset = @ - n]
                       ELSE slot[t]]
         /\ freePtr' = freePtr - n
         /\ slotCnt' = SlotCntWithout(s)
         /\ freeSpace' = freeSpace + n + SlotSize * (slotCnt - SlotCntWithout(s))

Next == \/ \E n \in Lengths : \E r \in RecordsOf(n) : InsertRecord(n, r)
        \/ \E s \in Slots : DeleteRecord(s)

Spec == Init /\ [][Next]_vars
-----------------------------------------------------------------------------
(* firstRecord, nextRecord, getRecord.  NoSlot stands for NORECORDS and    *)
(* ENDOFPAGE.                                                              *)

NoSlot == -1

(* The loops of both pass over empty slots, from slot i on. *)
SkipEmpty[i \in Slots] == IF i < slotCnt /\ IsEmpty(i) THEN SkipEmpty[i + 1] ELSE i

RecordFrom(i) == IF SkipEmpty[i] >= slotCnt THEN NoSlot ELSE SkipEmpty[i]

FirstRecord == RecordFrom(0)

(* Wrong: an empty slot is passed over, but not two in a row. *)
NextRecord_OneStep(s) ==
  LET i == IF s + 1 < slotCnt /\ IsEmpty(s + 1) THEN s + 2 ELSE s + 1
  IN  IF i >= slotCnt THEN NoSlot ELSE i

NextRecord(s) == RecordFrom(s + 1)

GetRecord(s) == [k \in 0 .. slot[s].length - 1 |-> data[slot[s].offset + k]]
-----------------------------------------------------------------------------
(* Properties.                                                             *)

TypeOK == /\ slot \in [Slots -> [offset : 0 .. DataSize, length : -1 .. DataSize]]
          /\ slotCnt \in Slots
          /\ freePtr \in 0 .. DataSize
          /\ freeSpace \in 0 .. DataSize
          /\ data \in [Places -> Bytes]

(* The space adds up: what is not free is records and slots, so that the   *)
(* slot array never reaches the bytes of a record (page.C:63 and the       *)
(* bookkeeping of insertRecord and deleteRecord).                          *)
SpaceAddsUp == freeSpace = DataSize - freePtr - SlotSize * slotCnt

Extent(s) == slot[s].offset .. slot[s].offset + slot[s].length - 1
Used      == {s \in 0 .. slotCnt - 1 : slot[s].length > 0}

(* The records of a page are side by side: their bytes are those to the    *)
(* left of freePtr, without an overlap and without a gap.                  *)
Compact == /\ UNION {Extent(s) : s \in Used} = 0 .. freePtr - 1
           /\ \A s, t \in Used : s # t => Extent(s) \cap Extent(t) = {}

(* Where a walk from firstRecord is after n calls of nextRecord. *)
Walk[n \in Slots] == IF n = 0 THEN FirstRecord
                     ELSE IF Walk[n - 1] = NoSlot THEN NoSlot
                     ELSE NextRecord(Walk[n - 1])

(* A walk from firstRecord with nextRecord comes to every record of the    *)
(* page, once, in the order of the slots, and to nothing else; and it ends.*)
WalkComplete ==
  /\ {Walk[n] : n \in Slots} \ {NoSlot} = Used
  /\ \A m, n \in Slots : m < n /\ Walk[n] # NoSlot => Walk[m] \in 0 .. Walk[n] - 1
  /\ Walk[slotCnt] = NoSlot

(* A slot number names the same record, with the same bytes, until it is   *)
(* deleted, whatever is inserted and deleted around it.                    *)
recs == [s \in Used |-> GetRecord(s)]
RP == INSTANCE RecordPage WITH SlotNos <- Slots, Records <- UNION {RecordsOf(n) : n \in Lengths}
RecordsSpec == RP!Spec
=============================================================================
