------------------------- MODULE SlottedPage_proofs -------------------------
(***************************************************************************)
(* Theorems about data pages, for any size of page and slot and any        *)
(* lengths of records, zero among them.                                    *)
(***************************************************************************)
EXTENDS SlottedPage, NatLemmas

(* Slots whose bytes are accounted for, those of length 0 among them. *)
Taken == {s \in 0 .. slotCnt - 1 : slot[s].length >= 0}

(* Records lie to the left of freePtr. *)
Placed == \A s \in Taken : slot[s].offset + slot[s].length <= freePtr

(* Of two records one lies to the left of the other. *)
Apart == \A s, t \in Taken : s # t =>
           \/ slot[s].offset + slot[s].length <= slot[t].offset
           \/ slot[t].offset + slot[t].length <= slot[s].offset

(* Every byte to the left of freePtr is one of a record. *)
Covered == \A a \in 0 .. freePtr - 1 : \E s \in Taken :
             slot[s].offset <= a /\ a < slot[s].offset + slot[s].length

(* The inductive invariant. *)
Sound == TypeOK /\ SpaceAddsUp /\ Placed /\ Apart /\ Covered

-----------------------------------------------------------------------------
(* Every slot costs at least a byte. *)
LEMMA SlotCost ==
  ASSUME NEW c \in Nat
  PROVE  SlotSize * c \in Nat /\ c <= SlotSize * c /\ SlotSize * (c + 1) = SlotSize * c + SlotSize
BY SizesAssumption, SMT

(* The slot that insertRecord takes. *)
LEMMA FreeSlotIs ==
  ASSUME TypeOK
  PROVE  /\ FreeSlot \in 0 .. slotCnt
         /\ FreeSlot = slotCnt \/ IsEmpty(FreeSlot)
<1> DEFINE S == {s \in 0 .. slotCnt : s = slotCnt \/ IsEmpty(s)}
<1>1. slotCnt \in Nat
  BY SizesAssumption DEF TypeOK, Slots
<1>2. S \subseteq Nat /\ slotCnt \in S
  BY <1>1
<1>3. PICK s \in S : \A t \in S : s <= t
  <2> HIDE DEF S
  <2> QED
    BY <1>2, LeastElement
<1>4. s \in 0 .. slotCnt /\ (s = slotCnt \/ IsEmpty(s)) /\ s \in Nat
  BY <1>2, <1>3
<1>5. \A t \in 0 .. s - 1 : ~IsEmpty(t)
  <2> SUFFICES ASSUME NEW t \in 0 .. s - 1, IsEmpty(t) PROVE FALSE
    OBVIOUS
  <2>1. t \in S /\ t < s
    BY <1>1, <1>4
  <2> HIDE DEF S
  <2> QED
    BY <1>3, <1>4, <2>1
<1> QED
  BY <1>4, <1>5 DEF FreeSlot

(* The slots that are left when s is emptied: none of those that go holds  *)
(* a record, s apart.                                                      *)
LEMMA SlotCntWithoutIs ==
  ASSUME TypeOK, NEW s \in Slots, s < slotCnt
  PROVE  /\ SlotCntWithout(s) \in 0 .. slotCnt
         /\ s # slotCnt - 1 => SlotCntWithout(s) = slotCnt
         /\ s = slotCnt - 1 => SlotCntWithout(s) <= s
         /\ \A t \in SlotCntWithout(s) .. slotCnt - 1 : t # s => IsEmpty(t)
<1> DEFINE S == {c \in 0 .. s : \A t \in c .. s - 1 : IsEmpty(t)}
<1>1. slotCnt \in Nat /\ s \in Nat
  BY SizesAssumption DEF TypeOK, Slots
<1>2. S \subseteq Nat /\ s \in S
  BY <1>1
<1>3. PICK c \in S : \A t \in S : c <= t
  <2> HIDE DEF S
  <2> QED
    BY <1>2, LeastElement
<1>4. c \in 0 .. s /\ (\A t \in c .. s - 1 : IsEmpty(t)) /\ c \in Nat
  BY <1>2, <1>3
<1>5. c = 0 \/ ~IsEmpty(c - 1)
  <2> SUFFICES ASSUME c # 0, IsEmpty(c - 1) PROVE FALSE
    OBVIOUS
  <2>1. c - 1 \in S
    BY <1>1, <1>4
  <2> HIDE DEF S
  <2> QED
    BY <1>3, <1>4, <2>1
<1>6. CASE s = slotCnt - 1
  <2> DEFINE w == CHOOSE d \in 0 .. s : /\ d = 0 \/ ~IsEmpty(d - 1)
                                        /\ \A t \in d .. s - 1 : IsEmpty(t)
  <2>1. SlotCntWithout(s) = w
    BY <1>6 DEF SlotCntWithout
  <2>2. w \in 0 .. s /\ \A t \in w .. s - 1 : IsEmpty(t)
    BY <1>4, <1>5
  <2> HIDE DEF w
  <2>3. w \in Int /\ w <= s /\ 0 <= w
    BY <1>1, <2>2
  <2>4. \A t \in w .. slotCnt - 1 : t # s => t \in w .. s - 1
    BY <1>1, <1>6, <2>3
  <2> QED
    BY <1>1, <1>6, <2>1, <2>2, <2>3, <2>4
<1>7. CASE s # slotCnt - 1
  BY <1>1, <1>7 DEF SlotCntWithout
<1> QED
  BY <1>6, <1>7

-----------------------------------------------------------------------------

(* An empty page is sound.                                               *)
LEMMA SoundInit == Init => Sound
BY SizesAssumption, BytesAssumption
DEF Init, Sound, TypeOK, SpaceAddsUp, Placed, Apart, Covered, Taken, Slots, Places, Unused

(* What insertRecord does to the slots in use. *)
LEMMA Inserting ==
  ASSUME Sound, NEW n \in Lengths, NEW r \in RecordsOf(n), InsertRecord(n, r)
  PROVE  /\ FreeSlot \in Slots /\ FreeSlot \notin Taken
         /\ Taken' = Taken \cup {FreeSlot}
         /\ slot'[FreeSlot].offset = freePtr /\ slot'[FreeSlot].length = n
         /\ \A s \in Taken : slot'[s] = slot[s]
         /\ freePtr' = freePtr + n
         /\ n \in Nat /\ freePtr + n \in 0 .. DataSize
         /\ TypeOK' /\ SpaceAddsUp'
<1>1. n \in Nat /\ DataSize \in Nat /\ SlotSize \in Nat /\ SlotSize > 0
  BY LengthsAssumption, SizesAssumption
<1>2. /\ slotCnt \in Nat /\ freePtr \in Nat /\ freeSpace \in Nat
      /\ slotCnt <= DataSize /\ n + SlotSize <= freeSpace
      /\ freeSpace = DataSize - freePtr - SlotSize * slotCnt
  BY <1>1 DEF Sound, TypeOK, SpaceAddsUp, Slots, InsertRecord, Fits
<1>3. /\ SlotSize * slotCnt \in Nat /\ slotCnt <= SlotSize * slotCnt
      /\ SlotSize * (slotCnt + 1) = SlotSize * slotCnt + SlotSize
  BY <1>2, SlotCost
<1>4. slotCnt + 1 <= DataSize /\ freePtr + n \in 0 .. DataSize
  BY <1>1, <1>2, <1>3
<1>5. FreeSlot \in 0 .. slotCnt /\ (FreeSlot = slotCnt \/ IsEmpty(FreeSlot))
  BY FreeSlotIs DEF Sound
<1>6. FreeSlot \in Slots
  BY <1>1, <1>2, <1>5 DEF Slots
<1>7. slotCnt' = IF FreeSlot = slotCnt THEN slotCnt + 1 ELSE slotCnt
  BY DEF InsertRecord
<1>8. /\ slot' = [slot EXCEPT ![FreeSlot] = [offset |-> freePtr, length |-> n]]
      /\ freePtr' = freePtr + n
  BY DEF InsertRecord
<1>9. slot'[FreeSlot].offset = freePtr /\ slot'[FreeSlot].length = n
  BY <1>6, <1>8 DEF Sound, TypeOK
<1>10. \A s \in Slots : s # FreeSlot => slot'[s] = slot[s]
  BY <1>8 DEF Sound, TypeOK
<1>11. FreeSlot \notin Taken
  BY <1>2, <1>5 DEF Taken, IsEmpty
<1>12. Taken' = Taken \cup {FreeSlot}
  <2>1. \A s \in 0 .. slotCnt : s \in Slots
    BY <1>1, <1>2 DEF Slots
  <2>2. Taken' = {s \in 0 .. slotCnt' - 1 : slot'[s].length >= 0}
    BY DEF Taken
  <2>3. CASE FreeSlot = slotCnt
    BY <1>1, <1>2, <1>7, <1>9, <1>10, <2>1, <2>2, <2>3 DEF Taken
  <2>4. CASE FreeSlot # slotCnt
    BY <1>1, <1>2, <1>5, <1>7, <1>9, <1>10, <2>1, <2>2, <2>4 DEF Taken
  <2> QED
    BY <2>3, <2>4
<1>13. \A s \in Taken : slot'[s] = slot[s]
  BY <1>1, <1>2, <1>10, <1>11 DEF Taken, Slots
<1>14. freeSpace' = freeSpace - SpaceTaken(n)
  BY DEF InsertRecord
<1>15. SpaceAddsUp'
  <2>1. CASE FreeSlot = slotCnt
    BY <1>1, <1>2, <1>3, <1>7, <1>8, <1>14, <2>1 DEF SpaceTaken, SpaceAddsUp
  <2>2. CASE FreeSlot # slotCnt
    BY <1>1, <1>2, <1>3, <1>7, <1>8, <1>14, <2>2 DEF SpaceTaken, SpaceAddsUp
  <2> QED
    BY <2>1, <2>2
<1>16. TypeOK'
  <2>1. freeSpace' \in 0 .. DataSize
    BY <1>1, <1>2, <1>3, <1>14 DEF SpaceTaken
  <2>2. slotCnt' \in Slots
    BY <1>2, <1>4, <1>7 DEF Slots
  <2>3. data' \in [Places -> Bytes]
    <3>1. \A a \in Places : freePtr <= a /\ a < freePtr + n => a - freePtr \in 0 .. n - 1
      BY <1>1, <1>2 DEF Places
    <3> QED
      BY <3>1 DEF InsertRecord, RecordsOf, Sound, TypeOK
  <2>4. slot' \in [Slots -> [offset : 0 .. DataSize, length : -1 .. DataSize]]
    <3>1. freePtr \in 0 .. DataSize /\ n \in -1 .. DataSize
      BY <1>1, <1>2, <1>4
    <3> QED
      BY <1>8, <3>1 DEF Sound, TypeOK
  <2>5. freePtr' \in 0 .. DataSize
    BY <1>4, <1>8
  <2> QED
    BY <2>1, <2>2, <2>3, <2>4, <2>5 DEF TypeOK
<1> QED
  BY <1>1, <1>4, <1>6, <1>8, <1>9, <1>11, <1>12, <1>13, <1>15, <1>16

(* insertRecord leaves it sound,                                         *)
LEMMA SoundInsert ==
  ASSUME Sound, NEW n \in Lengths, NEW r \in RecordsOf(n), InsertRecord(n, r)
  PROVE  Sound'
<1> DEFINE f == FreeSlot
<1>1. /\ f \notin Taken /\ Taken' = Taken \cup {f}
      /\ slot'[f].offset = freePtr /\ slot'[f].length = n
      /\ \A s \in Taken : slot'[s] = slot[s]
      /\ freePtr' = freePtr + n /\ n \in Nat
      /\ TypeOK' /\ SpaceAddsUp'
  BY Inserting
<1> HIDE DEF f
<1>2. freePtr \in Nat
  BY SizesAssumption DEF Sound, TypeOK
<1>3. \A s \in Taken : slot[s].offset \in Nat /\ slot[s].length \in Nat
  BY SizesAssumption DEF Taken, Sound, TypeOK, Slots
<1>4. Placed' /\ Apart'
  BY <1>1, <1>2, <1>3 DEF Sound, Placed, Apart
<1>5. Covered'
  <2> SUFFICES ASSUME NEW a \in 0 .. freePtr' - 1
               PROVE  \E s \in Taken' : slot'[s].offset <= a /\ a < slot'[s].offset + slot'[s].length
    BY DEF Covered
  <2>1. CASE a < freePtr
    BY <1>1, <1>2, <2>1 DEF Sound, Covered
  <2>2. CASE a >= freePtr
    BY <1>1, <1>2, <2>2
  <2> QED
    BY <1>2, <2>1, <2>2
<1> QED
  BY <1>1, <1>4, <1>5 DEF Sound

-----------------------------------------------------------------------------
(* What deleteRecord does to the slots in use. *)
LEMMA Deleting ==
  ASSUME Sound, NEW s \in Slots, DeleteRecord(s)
  PROVE  LET o == slot[s].offset
             n == slot[s].length
         IN  /\ s \in Taken /\ n \in Nat /\ n > 0 /\ o \in Nat
             /\ Taken' = Taken \ {s}
             /\ freePtr' = freePtr - n
             /\ \A t \in Taken \ {s} :
                  /\ slot'[t].length = slot[t].length
                  /\ slot'[t].offset = IF slot[t].offset > o THEN slot[t].offset - n
                                       ELSE slot[t].offset
                  /\ slot[t].offset > o => slot[t].offset >= o + n
                  /\ slot[t].offset <= o => slot[t].offset + slot[t].length <= o
                                            \/ slot[t].length = 0
<1> DEFINE o == slot[s].offset
           n == slot[s].length
<1>1. DataSize \in Nat /\ SlotSize \in Nat /\ slotCnt \in Nat /\ slotCnt <= DataSize /\ s \in Nat
  BY SizesAssumption DEF Sound, TypeOK, Slots
<1>2. s < slotCnt /\ n > 0
  BY DEF DeleteRecord, InUse
<1>3. n \in Nat /\ o \in Nat
  BY <1>1, <1>2 DEF Sound, TypeOK
<1>4. s \in Taken
  BY <1>1, <1>2, <1>3 DEF Taken
<1>5. /\ slot' = [t \in Slots |->
                   IF t = s /\ s # slotCnt - 1 THEN Unused
                   ELSE IF t \in Moved(s) THEN [slot[t] EXCEPT !.offset = @ - n]
                   ELSE slot[t]]
      /\ freePtr' = freePtr - n
      /\ slotCnt' = SlotCntWithout(s)
  BY DEF DeleteRecord
<1>6. \A t \in Taken : t \in Slots /\ slot[t] \in [offset : 0 .. DataSize, length : -1 .. DataSize]
  BY <1>1 DEF Taken, Slots, Sound, TypeOK
<1>7. ASSUME NEW t \in Taken, t # s
      PROVE  /\ slot'[t].length = slot[t].length
             /\ slot'[t].offset = IF slot[t].offset > o THEN slot[t].offset - n
                                  ELSE slot[t].offset
  <2>1. t \in Moved(s) <=> slot[t].offset > o
    BY <1>7 DEF Moved, Taken
  <2>2. slot'[t] = IF slot[t].offset > o THEN [slot[t] EXCEPT !.offset = @ - n] ELSE slot[t]
    BY <1>5, <1>6, <1>7, <2>1
  <2> QED
    BY <1>6, <2>2
<1>8. ASSUME NEW t \in Taken, t # s
      PROVE  /\ slot[t].offset > o => slot[t].offset >= o + n
             /\ slot[t].offset <= o => slot[t].offset + slot[t].length <= o \/ slot[t].length = 0
  <2>1. slot[t].offset \in Nat /\ slot[t].length \in Nat
    BY <1>1, <1>6 DEF Taken
  <2>2. o + n <= slot[t].offset \/ slot[t].offset + slot[t].length <= o
    BY <1>4, <1>8 DEF Sound, Apart
  <2> QED
    BY <1>2, <1>3, <2>1, <2>2
<1>9. Taken' = Taken \ {s}
  <2> DEFINE c == SlotCntWithout(s)
  <2>1. /\ c \in 0 .. slotCnt
        /\ s # slotCnt - 1 => c = slotCnt
        /\ s = slotCnt - 1 => c <= s
        /\ \A t \in c .. slotCnt - 1 : t # s => IsEmpty(t)
    BY <1>2, SlotCntWithoutIs DEF Sound
  <2> HIDE DEF c
  <2>2. Taken' = {t \in 0 .. c - 1 : slot'[t].length >= 0}
    BY <1>5 DEF Taken, c
  <2>3. ASSUME NEW t \in Taken, t # s PROVE t \in Taken'
    <3>1. t \in 0 .. slotCnt - 1 /\ slot[t].length >= 0
      BY DEF Taken
    <3>2. ~IsEmpty(t)
      BY <3>1 DEF IsEmpty
    <3>3. t \notin c .. slotCnt - 1
      BY <2>1, <2>3, <3>2
    <3>4. t \in 0 .. c - 1
      BY <1>1, <2>1, <3>1, <3>3
    <3> QED
      BY <1>7, <2>2, <2>3, <3>1, <3>4
  <2>4. ASSUME NEW t \in Taken' PROVE t \in Taken /\ t # s
    <3>1. t \in 0 .. c - 1 /\ slot'[t].length >= 0
      BY <2>2
    <3>2. t \in 0 .. slotCnt - 1 /\ t \in Slots
      BY <1>1, <2>1, <3>1 DEF Slots
    <3>3. t # s
      <4> SUFFICES ASSUME t = s PROVE FALSE
        OBVIOUS
      <4>1. s # slotCnt - 1
        BY <1>1, <2>1, <3>1
      <4>2. slot'[t] = Unused
        BY <1>5, <3>2, <4>1
      <4> QED
        BY <3>1, <4>2 DEF Unused
    <3>4. slot'[t].length = slot[t].length
      BY <1>5, <3>2, <3>3 DEF Sound, TypeOK
    <3> QED
      BY <3>1, <3>2, <3>3, <3>4 DEF Taken
  <2> QED
    BY <2>3, <2>4
<1> QED
  BY <1>2, <1>3, <1>4, <1>5, <1>7, <1>8, <1>9

(* and so does deleteRecord.                                             *)
LEMMA SoundDelete ==
  ASSUME Sound, NEW s \in Slots, DeleteRecord(s)
  PROVE  Sound'
<1> DEFINE o == slot[s].offset
           n == slot[s].length
<1>1. /\ s \in Taken /\ n \in Nat /\ n > 0 /\ o \in Nat
      /\ Taken' = Taken \ {s}
      /\ freePtr' = freePtr - n
      /\ \A t \in Taken \ {s} :
           /\ slot'[t].length = slot[t].length
           /\ slot'[t].offset = IF slot[t].offset > o THEN slot[t].offset - n ELSE slot[t].offset
           /\ slot[t].offset > o => slot[t].offset >= o + n
           /\ slot[t].offset <= o => slot[t].offset + slot[t].length <= o \/ slot[t].length = 0
  BY Deleting
<1>2. /\ DataSize \in Nat /\ SlotSize \in Nat /\ slotCnt \in Nat /\ slotCnt <= DataSize
      /\ freePtr \in 0 .. DataSize /\ freeSpace \in 0 .. DataSize
  BY SizesAssumption DEF Sound, TypeOK, Slots
<1>3. \A t \in Taken : slot[t].offset \in Nat /\ slot[t].length \in Nat
  BY <1>2 DEF Taken, Sound, TypeOK, Slots
<1>4. \A t \in Taken : slot[t].offset + slot[t].length <= freePtr
  BY DEF Sound, Placed
<1>5. \A t, u \in Taken : t # u => \/ slot[t].offset + slot[t].length <= slot[u].offset
                                    \/ slot[u].offset + slot[u].length <= slot[t].offset
  BY DEF Sound, Apart
<1>6. SpaceAddsUp' /\ freeSpace' \in 0 .. DataSize /\ slotCnt' \in Slots
  <2> DEFINE c == SlotCntWithout(s)
  <2>1. c \in 0 .. slotCnt
    BY SlotCntWithoutIs DEF Sound, DeleteRecord, InUse
  <2>2. slotCnt' = c /\ freeSpace' = freeSpace + n + SlotSize * (slotCnt - c)
    BY DEF DeleteRecord
  <2>3. freeSpace = DataSize - freePtr - SlotSize * slotCnt
    BY DEF Sound, SpaceAddsUp
  <2>4. c \in Nat /\ slotCnt - c \in Nat
    BY <1>2, <2>1
  <2> HIDE DEF c, n
  <2>5. /\ SlotSize * c \in Nat /\ SlotSize * slotCnt \in Nat /\ SlotSize * (slotCnt - c) \in Nat
        /\ SlotSize * (slotCnt - c) = SlotSize * slotCnt - SlotSize * c
    BY <1>2, <2>4, SlotCost
  <2>6. freeSpace' = DataSize - freePtr' - SlotSize * c
    BY <1>1, <1>2, <2>2, <2>3, <2>5
  <2>7. freePtr' \in Nat
    BY <1>1, <1>2, <1>3, <1>4 DEF n
  <2> QED
    BY <1>1, <1>2, <2>1, <2>2, <2>4, <2>5, <2>6, <2>7 DEF SpaceAddsUp, Slots
<1>7. TypeOK'
  <2>1. data' \in [Places -> Bytes]
    <3>1. \A a \in Places : o <= a /\ a < freePtr - n => a + n \in Places
      BY <1>1, <1>2 DEF Places
    <3>2. data' = [a \in Places |-> IF o <= a /\ a < freePtr - n THEN data[a + n] ELSE data[a]]
      BY DEF DeleteRecord
    <3> QED
      BY <3>1, <3>2 DEF Sound, TypeOK
  <2>2. slot' \in [Slots -> [offset : 0 .. DataSize, length : -1 .. DataSize]]
    <3> DEFINE Slot == [offset : 0 .. DataSize, length : -1 .. DataSize]
    <3>1. Unused \in Slot
      BY <1>2 DEF Unused
    <3>2. ASSUME NEW t \in Moved(s), t # s
          PROVE  [slot[t] EXCEPT !.offset = @ - n] \in Slot
      <4>1. t \in Taken /\ t \in Slots /\ slot[t].offset > o
        BY <1>2 DEF Moved, Taken, Slots
      <4>2. slot[t].offset - n \in 0 .. DataSize /\ slot[t] \in Slot
        BY <1>1, <1>2, <1>3, <3>2, <4>1 DEF Sound, TypeOK
      <4> QED
        BY <4>2
    <3>3. s \notin Moved(s)
      BY <1>1 DEF Moved
    <3>4. \A t \in Slots : slot[t] \in Slot
      BY DEF Sound, TypeOK
    <3>5. slot' = [t \in Slots |->
                     IF t = s /\ s # slotCnt - 1 THEN Unused
                     ELSE IF t \in Moved(s) THEN [slot[t] EXCEPT !.offset = @ - n]
                     ELSE slot[t]]
      BY DEF DeleteRecord
    <3> HIDE DEF Slot, n
    <3>6. slot' \in [Slots -> Slot]
      BY <3>1, <3>2, <3>3, <3>4, <3>5
    <3> QED
      BY <3>6 DEF Slot
  <2>3. freePtr' \in 0 .. DataSize
    BY <1>1, <1>2, <1>3, <1>4
  <2> QED
    BY <1>6, <2>1, <2>2, <2>3 DEF TypeOK
<1> HIDE DEF o, n
<1>8. s \in Taken /\ slot[s].offset = o /\ slot[s].length = n
  BY <1>1 DEF o, n
<1>9. Placed'
  <2> SUFFICES ASSUME NEW t \in Taken, t # s
               PROVE  slot'[t].offset + slot'[t].length <= freePtr - n
    BY <1>1 DEF Placed
  <2>1. slot[t].offset + slot[t].length <= freePtr /\ o + n <= freePtr
    BY <1>4, <1>8
  <2> QED
    BY <1>1, <1>2, <1>3, <2>1
<1>10. Apart'
  <2> SUFFICES ASSUME NEW t \in Taken, NEW u \in Taken, t # s, u # s, t # u
               PROVE  \/ slot'[t].offset + slot'[t].length <= slot'[u].offset
                      \/ slot'[u].offset + slot'[u].length <= slot'[t].offset
    BY <1>1 DEF Apart
  <2>1. \/ slot[t].offset + slot[t].length <= slot[u].offset
        \/ slot[u].offset + slot[u].length <= slot[t].offset
    BY <1>5
  <2> QED
    BY <1>1, <1>3, <2>1
<1>11. Covered'
  <2> SUFFICES ASSUME NEW a \in 0 .. freePtr - n - 1
               PROVE  \E t \in Taken \ {s} : slot'[t].offset <= a /\ a < slot'[t].offset + slot'[t].length
    BY <1>1 DEF Covered
  <2>1. CASE a < o
    <3>1. PICK t \in Taken : slot[t].offset <= a /\ a < slot[t].offset + slot[t].length
      BY <1>1, <1>2, <2>1 DEF Sound, Covered
    <3> QED
      BY <1>1, <1>2, <1>3, <1>8, <2>1, <3>1
  <2>2. CASE a >= o
    <3>1. PICK t \in Taken : slot[t].offset <= a + n /\ a + n < slot[t].offset + slot[t].length
      BY <1>1, <1>2, <2>2 DEF Sound, Covered
    <3>2. t # s
      BY <1>1, <1>2, <1>8, <2>2, <3>1
    <3> QED
      BY <1>1, <1>2, <1>3, <2>2, <3>1, <3>2
  <2> QED
    BY <1>1, <1>2, <2>1, <2>2
<1> QED
  BY <1>6, <1>7, <1>9, <1>10, <1>11 DEF Sound

(* Every step leaves it sound.                                           *)
LEMMA SoundNext ==
  ASSUME Sound, [Next]_vars
  PROVE  Sound'
<1>1. CASE UNCHANGED vars
  BY <1>1 DEF vars, Sound, TypeOK, SpaceAddsUp, Placed, Apart, Covered, Taken
<1> QED
  BY <1>1, SoundInsert, SoundDelete DEF Next

(* The page is always sound.                                             *)
LEMMA AlwaysSound == Spec => []Sound
BY SoundInit, SoundNext, PTL DEF Spec

(* The counters of a page stay within it, for records of any length. *)
THEOREM PageTypes == Spec => []TypeOK
<1>1. Sound => TypeOK
  BY DEF Sound
<1> QED
  BY <1>1, AlwaysSound, PTL

(* The space adds up, so the slot array never reaches a record. *)
THEOREM PageSpace == Spec => []SpaceAddsUp
<1>1. Sound => SpaceAddsUp
  BY DEF Sound
<1> QED
  BY <1>1, AlwaysSound, PTL

(* The counters of a page and the fields of its slots are numbers. *)
LEMMA SlotFields ==
  ASSUME TypeOK
  PROVE  /\ DataSize \in Nat /\ slotCnt \in Nat /\ slotCnt <= DataSize
         /\ freePtr \in Nat /\ freePtr <= DataSize
         /\ \A t \in 0 .. DataSize : slot[t].offset \in Nat /\ slot[t].length \in Int
<1>1. DataSize \in Nat
  BY SizesAssumption
<1>2. slotCnt \in 0 .. DataSize /\ freePtr \in 0 .. DataSize
  BY DEF TypeOK, Slots
<1>3. slot \in [0 .. DataSize -> [offset : 0 .. DataSize, length : -1 .. DataSize]]
  BY DEF TypeOK, Slots
<1>4. ASSUME NEW t \in 0 .. DataSize
      PROVE  slot[t].offset \in Nat /\ slot[t].length \in Int
  <2>1. slot[t] \in [offset : 0 .. DataSize, length : -1 .. DataSize]
    BY <1>3
  <2>2. slot[t].offset \in 0 .. DataSize /\ slot[t].length \in -1 .. DataSize
    BY <2>1
  <2> QED
    BY <1>1, <2>2
<1> QED
  BY <1>1, <1>2, <1>4

(* Records stay side by side, without an overlap and without a gap. *)
THEOREM PageCompact == Spec => []Compact
<1>1. Sound => Compact
  <2> SUFFICES ASSUME Sound PROVE Compact
    OBVIOUS
  <2>1. /\ DataSize \in Nat /\ slotCnt \in Nat /\ slotCnt <= DataSize /\ freePtr \in Nat
        /\ \A t \in 0 .. DataSize : slot[t].offset \in Nat /\ slot[t].length \in Int
    BY SlotFields DEF Sound
  <2>2. \A t \in 0 .. slotCnt - 1 : slot[t].offset \in Nat /\ slot[t].length \in Int
    BY <2>1
  <2>3. DataSize \in Nat /\ freePtr \in Nat /\ Used \subseteq Taken
    BY <2>1, <2>2 DEF Used, Taken
  <2>4. \A s \in Taken : /\ slot[s].offset \in Nat /\ slot[s].length \in Nat
                         /\ slot[s].length # 0 => s \in Used
    BY <2>1, <2>2 DEF Used, Taken
  <2>5. \A a : a \in UNION {Extent(s) : s \in Used} => a \in 0 .. freePtr - 1
    BY <2>3, <2>4 DEF Extent, Sound, Placed
  <2>6. ASSUME NEW a \in 0 .. freePtr - 1 PROVE \E s \in Used : a \in Extent(s)
    <3>1. PICK s \in Taken : slot[s].offset <= a /\ a < slot[s].offset + slot[s].length
      BY DEF Sound, Covered
    <3>2. s \in Used
      BY <2>4, <3>1
    <3> QED
      BY <2>3, <2>4, <3>1, <3>2 DEF Extent
  <2>7. \A s, t \in Used : s # t => Extent(s) \cap Extent(t) = {}
    BY <2>3, <2>4 DEF Extent, Sound, Apart
  <2> QED
    BY <2>5, <2>6, <2>7 DEF Compact
<1> QED
  BY <1>1, AlwaysSound, PTL

-----------------------------------------------------------------------------
(* Implementing RecordPage.                                                *)

(* The places of the records in use. *)
LEMMA UsedPlaces ==
  ASSUME Sound
  PROVE  /\ DataSize \in Nat /\ freePtr \in Nat /\ freePtr <= DataSize
         /\ Used \subseteq Taken /\ Used \subseteq Slots
         /\ \A t \in Taken : t \in Used <=> slot[t].length # 0
         /\ \A t \in Taken : slot[t].offset \in Nat /\ slot[t].length \in Nat
         /\ \A t \in Taken : slot[t].offset + slot[t].length <= freePtr
<1>1. /\ DataSize \in Nat /\ slotCnt \in Nat /\ slotCnt <= DataSize
      /\ freePtr \in Nat /\ freePtr <= DataSize
      /\ \A t \in 0 .. DataSize : slot[t].offset \in Nat /\ slot[t].length \in Int
  BY SlotFields DEF Sound
<1>2. \A t \in 0 .. slotCnt - 1 : t \in 0 .. DataSize
  BY <1>1
<1>3. \A t \in 0 .. slotCnt - 1 : slot[t].offset \in Nat /\ slot[t].length \in Int
  BY <1>1, <1>2
<1> QED
  BY <1>1, <1>2, <1>3 DEF Used, Taken, Slots, Sound, Placed

(* The same, after a step. *)
LEMMA UsedPlacesNext ==
  ASSUME Sound'
  PROVE  /\ freePtr' <= DataSize
         /\ Used' \subseteq Taken'
         /\ \A t \in Taken' : t \in Used' <=> slot'[t].length # 0
<1>1. freePtr' <= DataSize
  BY SizesAssumption DEF Sound, TypeOK
<1>2. PICK c \in 0 .. DataSize : c = slotCnt'
  BY DEF Sound, TypeOK, Slots
<1>3. PICK S \in [0 .. DataSize -> [offset : 0 .. DataSize, length : -1 .. DataSize]] : S = slot'
  BY DEF Sound, TypeOK, Slots
<1>4. Taken' = {t \in 0 .. c - 1 : S[t].length >= 0} /\ Used' = {t \in 0 .. c - 1 : S[t].length > 0}
  BY <1>2, <1>3 DEF Taken, Used
<1>5. ASSUME NEW t \in 0 .. c - 1 PROVE S[t].length \in Int
  <2>1. DataSize \in Nat /\ c \in Nat /\ c <= DataSize
    BY <1>2, SizesAssumption
  <2>2. t \in Nat /\ t <= DataSize
    BY <2>1
  <2> QED
    BY <1>3, <2>1, <2>2
<1> QED
  BY <1>1, <1>3, <1>4, <1>5

(* Inserting a record adds it under its slot; one of length 0 changes      *)
(* nothing that can be read.                                               *)
LEMMA InsertMaps ==
  ASSUME Sound, NEW n \in Lengths, NEW r \in RecordsOf(n), InsertRecord(n, r)
  PROVE  [RP!Next]_recs
<1>1. PICK f \in Slots :
      /\ f \notin Taken /\ Taken' = Taken \cup {f}
      /\ slot'[f].offset = freePtr /\ slot'[f].length = n
      /\ \A t \in Taken : slot'[t] = slot[t]
      /\ freePtr' = freePtr + n /\ n \in Nat
  BY Inserting
<1>2. Sound'
  BY SoundInsert
<1>3. data' = [a \in Places |-> IF freePtr <= a /\ a < freePtr + n THEN r[a - freePtr] ELSE data[a]]
  BY DEF InsertRecord
<1>4. /\ DataSize \in Nat /\ freePtr \in Nat
      /\ Used \subseteq Taken
      /\ \A t \in Taken : t \in Used <=> slot[t].length # 0
      /\ \A t \in Taken : slot[t].offset \in Nat /\ slot[t].length \in Nat
      /\ \A t \in Taken : slot[t].offset + slot[t].length <= freePtr
  BY UsedPlaces
<1>5. /\ freePtr' <= DataSize
      /\ Used' \subseteq Taken'
      /\ \A t \in Taken' : t \in Used' <=> slot'[t].length # 0
  BY <1>2, UsedPlacesNext
<1>6. ASSUME NEW t \in Used PROVE GetRecord(t)' = GetRecord(t)
  <2>1. t \in Taken /\ slot'[t] = slot[t]
    BY <1>1, <1>4
  <2>2. ASSUME NEW k \in 0 .. slot[t].length - 1
        PROVE  data'[slot[t].offset + k] = data[slot[t].offset + k]
    <3>1. slot[t].offset + k \in Places /\ ~(freePtr <= slot[t].offset + k)
      BY <1>1, <1>4, <1>5, <2>1 DEF Places
    <3> QED
      BY <1>3, <3>1
  <2> QED
    BY <2>1, <2>2 DEF GetRecord
<1>7. GetRecord(f)' = r
  <2>1. ASSUME NEW k \in 0 .. n - 1 PROVE data'[freePtr + k] = r[k]
    <3>1. /\ freePtr + k \in Places /\ freePtr <= freePtr + k /\ freePtr + k < freePtr + n
          /\ (freePtr + k) - freePtr = k
      BY <1>1, <1>4, <1>5 DEF Places
    <3> QED
      BY <1>3, <3>1
  <2>2. r = [k \in 0 .. n - 1 |-> r[k]]
    BY DEF RecordsOf
  <2>3. GetRecord(f)' = [k \in 0 .. n - 1 |-> data'[freePtr + k]]
    BY <1>1 DEF GetRecord
  <2> QED
    BY <2>1, <2>2, <2>3
<1>8. CASE n = 0
  <2>1. Used' = Used
    BY <1>1, <1>4, <1>5, <1>8
  <2>2. recs' = recs
    BY <1>6, <2>1 DEF recs
  <2> QED
    BY <2>2
<1>9. CASE n # 0
  <2>1. Used' = Used \cup {f}
    BY <1>1, <1>4, <1>5, <1>9
  <2>2. f \notin Used
    BY <1>1, <1>4
  <2>3. \A t \in Used \cup {f} : GetRecord(t)' = IF t = f THEN r ELSE GetRecord(t)
    BY <1>6, <1>7, <2>2
  <2>4. recs' = [t \in Used \cup {f} |-> IF t = f THEN r ELSE GetRecord(t)]
    BY <2>1, <2>3 DEF recs
  <2>5. DOMAIN recs = Used /\ \A t \in Used : recs[t] = GetRecord(t)
    BY DEF recs
  <2>6. recs' = [t \in DOMAIN recs \cup {f} |-> IF t = f THEN r ELSE recs[t]]
    BY <2>2, <2>4, <2>5
  <2>7. RP!Insert(f, r)
    BY <2>2, <2>5, <2>6 DEF RP!Insert
  <2>8. r \in UNION {RecordsOf(m) : m \in Lengths}
    OBVIOUS
  <2> QED
    BY <1>1, <2>7, <2>8 DEF RP!Next
<1> QED
  BY <1>8, <1>9

(* Deleting a record takes it away and moves the others unchanged. *)
LEMMA DeleteMaps ==
  ASSUME Sound, NEW s \in Slots, DeleteRecord(s)
  PROVE  [RP!Next]_recs
<1> DEFINE o == slot[s].offset
           n == slot[s].length
<1>1. /\ s \in Taken /\ n \in Nat /\ n > 0 /\ o \in Nat
      /\ Taken' = Taken \ {s}
      /\ freePtr' = freePtr - n
      /\ \A t \in Taken \ {s} :
           /\ slot'[t].length = slot[t].length
           /\ slot'[t].offset = IF slot[t].offset > o THEN slot[t].offset - n ELSE slot[t].offset
           /\ slot[t].offset > o => slot[t].offset >= o + n
           /\ slot[t].offset <= o => slot[t].offset + slot[t].length <= o
                                     \/ slot[t].length = 0
  BY Deleting
<1>2. data' = [a \in Places |-> IF o <= a /\ a < freePtr - n THEN data[a + n] ELSE data[a]]
  BY DEF DeleteRecord
<1>3. s \in Used
  <2>1. slot[s].length # 0
    BY <1>1
  <2> QED
    BY <1>1, <2>1, UsedPlaces
<1> HIDE DEF o, n
<1>4. /\ DataSize \in Nat /\ freePtr \in Nat /\ freePtr <= DataSize
      /\ Used \subseteq Taken
      /\ \A t \in Taken : t \in Used <=> slot[t].length # 0
      /\ \A t \in Taken : slot[t].offset \in Nat /\ slot[t].length \in Nat
      /\ \A t \in Taken : slot[t].offset + slot[t].length <= freePtr
  BY UsedPlaces
<1>5. /\ Used' \subseteq Taken'
      /\ \A t \in Taken' : t \in Used' <=> slot'[t].length # 0
  BY SoundDelete, UsedPlacesNext
<1>6. Used' = Used \ {s}
  BY <1>1, <1>4, <1>5
<1>7. ASSUME NEW t \in Used \ {s} PROVE GetRecord(t)' = GetRecord(t)
  <2>1. /\ t \in Taken \ {s} /\ slot[t].length # 0
        /\ slot[t].offset \in Nat /\ slot[t].length \in Nat
        /\ slot[t].offset + slot[t].length <= freePtr
    BY <1>4
  <2>2. slot'[t].length = slot[t].length
    BY <1>1, <2>1
  <2>3. ASSUME NEW k \in 0 .. slot[t].length - 1
        PROVE  data'[slot'[t].offset + k] = data[slot[t].offset + k]
    <3>1. CASE slot[t].offset > o
      <4>1. slot'[t].offset = slot[t].offset - n /\ slot[t].offset >= o + n
        BY <1>1, <2>1, <3>1
      <4> DEFINE a == slot'[t].offset + k
      <4>2. a \in Places /\ o <= a /\ a < freePtr - n /\ a + n = slot[t].offset + k
        BY <1>1, <1>4, <2>1, <4>1 DEF Places
      <4> HIDE DEF a
      <4>3. data'[a] = data[a + n]
        BY <1>2, <4>2
      <4> QED
        BY <4>2, <4>3 DEF a
    <3>2. CASE ~(slot[t].offset > o)
      <4>1. slot'[t].offset = slot[t].offset
        BY <1>1, <2>1, <3>2
      <4>2. slot[t].offset + slot[t].length <= o
        BY <1>1, <2>1, <3>2
      <4> DEFINE a == slot[t].offset + k
      <4>3. a \in Places /\ ~(o <= a)
        BY <1>1, <1>4, <2>1, <4>2 DEF Places
      <4> HIDE DEF a
      <4>4. data'[a] = data[a]
        BY <1>2, <4>3
      <4> QED
        BY <4>1, <4>4 DEF a
    <3> QED
      BY <3>1, <3>2
  <2> QED
    BY <2>2, <2>3 DEF GetRecord
<1>8. recs' = [t \in Used \ {s} |-> GetRecord(t)]
  BY <1>6, <1>7 DEF recs
<1>9. DOMAIN recs = Used /\ \A t \in Used : recs[t] = GetRecord(t)
  BY DEF recs
<1>10. recs' = [t \in DOMAIN recs \ {s} |-> recs[t]]
  BY <1>8, <1>9
<1>11. RP!Delete(s)
  BY <1>3, <1>9, <1>10 DEF RP!Delete
<1> QED
  BY <1>11 DEF RP!Next

(* A slot number names the same bytes from the insertion of a record to    *)
(* its deletion: insertRecord and deleteRecord of page.C, with the bytes   *)
(* they move and the slots they reuse, implement RecordPage.               *)
THEOREM PageImplementsRecords == Spec => RecordsSpec
<1>1. Init => RP!Init
  <2> SUFFICES ASSUME Init PROVE recs = [t \in {} |-> 0]
    BY DEF RP!Init
  <2>1. Used = {}
    BY DEF Init, Used
  <2> QED
    BY <2>1 DEF recs
<1>2. Sound /\ [Next]_vars => [RP!Next]_recs
  <2> SUFFICES ASSUME Sound, [Next]_vars PROVE [RP!Next]_recs
    OBVIOUS
  <2>1. CASE UNCHANGED vars
    BY <2>1 DEF vars, recs, Used, GetRecord
  <2> QED
    BY <2>1, InsertMaps, DeleteMaps DEF Next
<1> QED
  BY <1>1, <1>2, AlwaysSound, PTL DEF Spec, RecordsSpec, RP!Spec

-----------------------------------------------------------------------------
(* Walking.                                                                *)

(* No record is empty: nextRecord would come to the slot of one, and       *)
(* deleteRecord would refuse it.                                           *)
NoneEmpty == Taken \subseteq Used

(* The loops of firstRecord and nextRecord: the function that describes    *)
(* them exists, since the loops end at the first slot that is not empty,   *)
(* or at the end of the array.                                             *)
LEMMA SkipEmptyIs ==
  ASSUME TypeOK
  PROVE  SkipEmpty = [i \in Slots |-> IF i < slotCnt /\ IsEmpty(i) THEN SkipEmpty[i + 1] ELSE i]
<1> DEFINE Ends(i) == {t \in i .. slotCnt : t = slotCnt \/ ~IsEmpty(t)}
           End(i)  == CHOOSE t \in Ends(i) : \A u \in Ends(i) : t <= u
           f == [i \in Slots |-> IF i < slotCnt THEN End(i) ELSE i]
<1>1. /\ DataSize \in Nat /\ slotCnt \in Nat /\ slotCnt <= DataSize
      /\ \A i : i \in Slots <=> i \in Nat /\ i <= DataSize
  BY SizesAssumption DEF TypeOK, Slots
<1>2. ASSUME NEW i \in Slots, i < slotCnt
      PROVE  End(i) \in Ends(i) /\ \A u \in Ends(i) : End(i) <= u
  <2>1. slotCnt \in Ends(i) /\ Ends(i) \subseteq Nat
    BY <1>1, <1>2
  <2> HIDE DEF Ends
  <2>2. \E t \in Ends(i) : \A u \in Ends(i) : t <= u
    BY <2>1, LeastElement
  <2> QED
    BY <2>2
<1>3. ASSUME NEW i \in Slots, i < slotCnt, IsEmpty(i) PROVE End(i) = f[i + 1]
  <2>1. i + 1 \in Slots /\ i + 1 <= slotCnt
    BY <1>1, <1>3
  <2>2. \A t : t \in Ends(i) <=> t \in Ends(i + 1)
    BY <1>1, <1>3
  <2>3. End(i) \in Ends(i + 1) /\ \A u \in Ends(i + 1) : End(i) <= u
    BY <1>2, <1>3, <2>2
  <2>4. CASE i + 1 < slotCnt
    <3>1. End(i + 1) \in Ends(i + 1) /\ \A u \in Ends(i + 1) : End(i + 1) <= u
      BY <1>2, <2>1, <2>4
    <3>2. \A t \in Ends(i + 1) : t \in Nat
      BY <1>1, <2>1
    <3>3. f[i + 1] = End(i + 1)
      BY <2>1, <2>4
    <3> HIDE DEF Ends, End, f
    <3> QED
      BY <2>3, <3>1, <3>2, <3>3
  <2>5. CASE i + 1 = slotCnt
    <3>1. f[i + 1] = slotCnt
      BY <1>1, <2>1, <2>5
    <3>2. \A t \in Ends(i + 1) : t = slotCnt
      BY <1>1, <2>5
    <3> HIDE DEF Ends, End, f
    <3> QED
      BY <2>3, <3>1, <3>2
  <2> QED
    BY <1>1, <2>1, <2>4, <2>5
<1>4. ASSUME NEW i \in Slots, i < slotCnt, ~IsEmpty(i) PROVE End(i) = i
  <2>1. i \in Ends(i)
    BY <1>1, <1>4
  <2>2. \A t \in Ends(i) : i <= t /\ t \in Nat
    BY <1>1, <1>4
  <2>3. End(i) \in Ends(i) /\ \A u \in Ends(i) : End(i) <= u
    BY <1>2, <1>4
  <2> HIDE DEF Ends, End
  <2> QED
    BY <1>1, <2>1, <2>2, <2>3
<1>5. f = [i \in Slots |-> IF i < slotCnt /\ IsEmpty(i) THEN f[i + 1] ELSE i]
  <2>1. \A i \in Slots : f[i] = IF i < slotCnt /\ IsEmpty(i) THEN f[i + 1] ELSE i
    <3> SUFFICES ASSUME NEW i \in Slots PROVE f[i] = IF i < slotCnt /\ IsEmpty(i) THEN f[i + 1] ELSE i
      OBVIOUS
    <3>1. f[i] = IF i < slotCnt THEN End(i) ELSE i
      OBVIOUS
    <3> HIDE DEF f, End
    <3> QED
      BY <1>3, <1>4, <3>1
  <2>2. DOMAIN f = Slots /\ f = [i \in Slots |-> f[i]]
    OBVIOUS
  <2> HIDE DEF f
  <2> QED
    BY <2>1, <2>2
<1> HIDE DEF f
<1> QED
  BY <1>5 DEF SkipEmpty

(* Where the loops stop: at no slot before the one they start at, behind   *)
(* empty ones only, and at one that is not empty unless the array ends.    *)
LEMMA SkipEmptyStops ==
  ASSUME TypeOK, NEW i \in 0 .. slotCnt
  PROVE  /\ SkipEmpty[i] \in i .. slotCnt
         /\ \A t \in i .. SkipEmpty[i] - 1 : IsEmpty(t)
         /\ SkipEmpty[i] < slotCnt => ~IsEmpty(SkipEmpty[i])
<1> DEFINE Good(j) == /\ SkipEmpty[j] \in j .. slotCnt
                      /\ \A t \in j .. SkipEmpty[j] - 1 : IsEmpty(t)
                      /\ SkipEmpty[j] < slotCnt => ~IsEmpty(SkipEmpty[j])
           Bad == {j \in 0 .. slotCnt : ~Good(j)}
<1>1. /\ DataSize \in Nat /\ slotCnt \in Nat /\ slotCnt <= DataSize
      /\ \A j : j \in Slots <=> j \in Nat /\ j <= DataSize
  BY SizesAssumption DEF TypeOK, Slots
<1>2. \A j \in Slots : SkipEmpty[j] = IF j < slotCnt /\ IsEmpty(j) THEN SkipEmpty[j + 1] ELSE j
  BY SkipEmptyIs
<1>3. ASSUME NEW j \in 0 .. slotCnt, j < slotCnt => Good(j + 1) PROVE Good(j)
  <2>1. j \in Slots /\ j \in Nat
    BY <1>1
  <2>2. CASE j < slotCnt /\ IsEmpty(j)
    <3>1. SkipEmpty[j] = SkipEmpty[j + 1] /\ Good(j + 1)
      BY <1>2, <1>3, <2>1, <2>2
    <3> QED
      BY <1>1, <2>1, <2>2, <3>1
  <2>3. CASE ~(j < slotCnt /\ IsEmpty(j))
    <3>1. SkipEmpty[j] = j
      BY <1>2, <2>1, <2>3
    <3> QED
      BY <1>1, <2>1, <2>3, <3>1
  <2> QED
    BY <2>2, <2>3
<1>4. Bad = {}
  <2> SUFFICES ASSUME Bad # {} PROVE FALSE
    OBVIOUS
  <2>1. PICK j \in Bad : \A k \in Bad : k <= j
    <3>1. Bad \subseteq 0 .. slotCnt
      OBVIOUS
    <3> HIDE DEF Bad
    <3> QED
      BY <1>1, <3>1, GreatestElement
  <2>2. j \in 0 .. slotCnt /\ ~Good(j)
    BY <2>1
  <2>3. j < slotCnt => j + 1 \in 0 .. slotCnt /\ ~(j + 1 <= j)
    BY <1>1, <2>2
  <2>4. j < slotCnt => Good(j + 1)
    BY <2>1, <2>3
  <2> HIDE DEF Good
  <2> QED
    BY <1>3, <2>2, <2>4
<1> QED
  BY <1>4

(* What firstRecord and nextRecord give: from slot i on, the first that is *)
(* not empty, or none when all of those are.                               *)
LEMMA RecordFromIs ==
  ASSUME Sound, NEW i \in 0 .. slotCnt
  PROVE  /\ RecordFrom(i) \in {t \in Taken : i <= t} \cup {NoSlot}
         /\ \A t \in Taken : i <= t => RecordFrom(i) \in i .. t
<1>1. /\ DataSize \in Nat /\ slotCnt \in Nat /\ slotCnt <= DataSize
      /\ slot \in [Slots -> [offset : 0 .. DataSize, length : -1 .. DataSize]]
      /\ TypeOK
  BY SizesAssumption DEF Sound, TypeOK, Slots
<1>2. \A t \in 0 .. slotCnt - 1 : slot[t].length \in -1 .. DataSize
  BY <1>1 DEF Slots
<1>3. \A t \in 0 .. slotCnt - 1 : ~IsEmpty(t) <=> t \in Taken
  BY <1>1, <1>2 DEF Taken, IsEmpty
<1>4. /\ SkipEmpty[i] \in i .. slotCnt
      /\ \A t \in i .. SkipEmpty[i] - 1 : IsEmpty(t)
      /\ SkipEmpty[i] < slotCnt => ~IsEmpty(SkipEmpty[i])
  BY <1>1, SkipEmptyStops
<1>5. RecordFrom(i) = IF SkipEmpty[i] >= slotCnt THEN NoSlot ELSE SkipEmpty[i]
  BY DEF RecordFrom
<1>6. RecordFrom(i) \in {t \in Taken : i <= t} \cup {NoSlot}
  BY <1>1, <1>3, <1>4, <1>5
<1>7. ASSUME NEW t \in Taken, i <= t PROVE RecordFrom(i) \in i .. t
  <2>1. t \in 0 .. slotCnt - 1 /\ ~IsEmpty(t)
    BY <1>3, <1>7 DEF Taken
  <2>2. SkipEmpty[i] <= t
    BY <1>1, <1>4, <1>7, <2>1
  <2> QED
    BY <1>1, <1>4, <1>5, <2>1, <2>2
<1> QED
  BY <1>6, <1>7

(* If only records with bytes are inserted, every slot that is not empty   *)
(* has one.                                                                *)
LEMMA AlwaysNoneEmpty ==
  ASSUME 0 \notin Lengths
  PROVE  Spec => [](Sound /\ NoneEmpty)
<1>1. Init => NoneEmpty
  BY DEF Init, NoneEmpty, Taken
<1>2. ASSUME Sound, NoneEmpty, [Next]_vars PROVE NoneEmpty'
  <2>1. Sound'
    BY <1>2, SoundNext
  <2>2. \A t \in Taken : slot[t].length # 0
    BY <1>2, UsedPlaces DEF NoneEmpty
  <2>3. ASSUME \A t \in Taken' : slot'[t].length # 0 PROVE NoneEmpty'
    BY <2>1, <2>3, UsedPlacesNext DEF NoneEmpty
  <2>4. CASE UNCHANGED vars
    BY <2>2, <2>3, <2>4 DEF vars, Taken
  <2>5. ASSUME NEW n \in Lengths, NEW r \in RecordsOf(n), InsertRecord(n, r) PROVE NoneEmpty'
    <3>1. /\ Taken' = Taken \cup {FreeSlot} /\ slot'[FreeSlot].length = n
          /\ \A s \in Taken : slot'[s] = slot[s]
      BY <1>2, <2>5, Inserting
    <3> QED
      BY <2>2, <2>3, <3>1
  <2>6. ASSUME NEW s \in Slots, DeleteRecord(s) PROVE NoneEmpty'
    <3>1. Taken' = Taken \ {s} /\ \A t \in Taken \ {s} : slot'[t].length = slot[t].length
      BY <1>2, <2>6, Deleting
    <3> QED
      BY <2>2, <2>3, <3>1
  <2> QED
    BY <1>2, <2>4, <2>5, <2>6 DEF Next
<1> QED
  BY <1>1, <1>2, AlwaysSound, PTL DEF Spec

(* The values of a walk, and how each comes from the one before it: the    *)
(* function that describes the walk exists.                                *)
LEMMA WalkIs ==
  ASSUME Sound
  PROVE  /\ \A n \in Slots : Walk[n] \in Taken \cup {NoSlot}
         /\ Walk[0] = FirstRecord
         /\ \A n \in Slots : n # 0 => Walk[n] = IF Walk[n - 1] = NoSlot THEN NoSlot
                                                ELSE NextRecord(Walk[n - 1])
<1> DEFINE V == Taken \cup {NoSlot}
           Step(v) == IF v = NoSlot THEN NoSlot ELSE NextRecord(v)
           step == [v \in V |-> Step(v)]
           Is(f) == f = [n \in Slots |-> IF n = 0 THEN FirstRecord
                                         ELSE IF f[n - 1] = NoSlot THEN NoSlot
                                         ELSE NextRecord(f[n - 1])]
<1>1. /\ DataSize \in Nat /\ slotCnt \in Nat /\ slotCnt <= DataSize
      /\ Slots = 0 .. DataSize
      /\ \A t \in Taken : t \in Nat /\ t + 1 \in 0 .. slotCnt
      /\ NoSlot \notin Taken
  BY SizesAssumption DEF Sound, TypeOK, Slots, Taken, NoSlot
<1>2. \A v \in V : Step(v) \in V
  <2>1. \A v \in Taken : NextRecord(v) \in V
    BY <1>1, RecordFromIs DEF NextRecord
  <2> QED
    BY <2>1
<1>3. FirstRecord \in V
  <2>1. 0 \in 0 .. slotCnt
    BY <1>1
  <2> QED
    BY <2>1, RecordFromIs DEF FirstRecord
<1> HIDE DEF V, Step
<1>4. PICK f : Iterates(f, V, FirstRecord, step, DataSize)
  <2>1. step \in [V -> V]
    BY <1>2
  <2>2. DataSize \in Nat /\ FirstRecord \in V
    BY <1>1, <1>3
  <2> HIDE DEF step
  <2> QED
    BY <2>1, <2>2, Iteration, Zenon
<1>5. \A n \in 1 .. DataSize : f[n - 1] \in V /\ f[n] = Step(f[n - 1])
  <2> SUFFICES ASSUME NEW n \in 1 .. DataSize PROVE f[n - 1] \in V /\ f[n] = Step(f[n - 1])
    OBVIOUS
  <2>1. n - 1 \in 0 .. DataSize
    BY <1>1
  <2>2. f[n - 1] \in V
    BY <1>4, <2>1 DEF Iterates
  <2> QED
    BY <1>4, <2>2 DEF Iterates
<1>6. Is(f)
  <2>1. \A n \in 0 .. DataSize : n = 0 \/ n \in 1 .. DataSize
    BY <1>1
  <2>2. DOMAIN f = 0 .. DataSize /\ f = [n \in 0 .. DataSize |-> f[n]]
    BY <1>4 DEF Iterates
  <2>3. \A n \in 0 .. DataSize : f[n] = IF n = 0 THEN FirstRecord
                                        ELSE IF f[n - 1] = NoSlot THEN NoSlot
                                        ELSE NextRecord(f[n - 1])
    BY <1>4, <1>5, <2>1 DEF Step, Iterates
  <2> QED
    BY <1>1, <2>2, <2>3
<1>7. Is(Walk)
  BY <1>6 DEF Walk
<1>8. /\ Walk[0] = FirstRecord
      /\ \A n \in Slots : n # 0 => Walk[n] = Step(Walk[n - 1])
  <2> DEFINE Value(w, n) == IF n = 0 THEN FirstRecord
                            ELSE IF w[n - 1] = NoSlot THEN NoSlot
                            ELSE NextRecord(w[n - 1])
  <2>1. \A n \in Slots : Walk[n] = Value(Walk, n)
    <3>1. Walk = [n \in Slots |-> Value(Walk, n)]
      BY <1>7
    <3> HIDE DEF Value
    <3> QED
      BY <3>1
  <2>2. 0 \in Slots
    BY <1>1
  <2> HIDE DEF Is
  <2> QED
    BY <2>1, <2>2 DEF Step
<1> HIDE DEF Is
<1>9. \A n \in Slots : Walk[n] \in V
  <2> DEFINE S == {n \in Nat : n \in Slots => Walk[n] \in V}
  <2>1. 0 \in S
    BY <1>3, <1>8
  <2>2. ASSUME NEW n \in S PROVE n + 1 \in S
    <3>1. SUFFICES ASSUME n + 1 \in Slots PROVE Walk[n + 1] \in V
      OBVIOUS
    <3>2. n \in Slots /\ n + 1 # 0 /\ (n + 1) - 1 = n
      BY <1>1, <3>1
    <3>3. Walk[n + 1] = Step(Walk[n])
      BY <1>8, <3>1, <3>2
    <3> QED
      BY <1>2, <3>2, <3>3
  <2>3. S = Nat
    <3>1. S \subseteq Nat
      OBVIOUS
    <3> HIDE DEF S
    <3> QED
      BY <2>1, <2>2, <3>1, SetInduction
  <2> QED
    BY <1>1, <2>3
<1> QED
  BY <1>8, <1>9 DEF V, Step

(* A walk goes forward: the n-th record has at least n slots before it.    *)
LEMMA WalkForward ==
  ASSUME Sound
  PROVE  \A n \in Slots : Walk[n] # NoSlot =>
           n <= Walk[n] /\ \A m \in 0 .. n - 1 : Walk[m] \in 0 .. Walk[n] - 1
<1> DEFINE Ok(n) == Walk[n] # NoSlot =>
                      n <= Walk[n] /\ \A m \in 0 .. n - 1 : Walk[m] \in 0 .. Walk[n] - 1
           S == {n \in Nat : n \in Slots => Ok(n)}
<1>1. /\ DataSize \in Nat /\ slotCnt \in Nat
      /\ Slots = 0 .. DataSize
      /\ \A t \in Taken : t \in Nat /\ t + 1 \in 0 .. slotCnt
      /\ NoSlot \notin Taken
  BY SizesAssumption DEF Sound, TypeOK, Slots, Taken, NoSlot
<1>2. 0 \in S
  <2>1. 0 \in Slots
    BY <1>1
  <2>2. Walk[0] # NoSlot => Walk[0] \in Nat
    BY <1>1, <2>1, WalkIs
  <2> QED
    BY <2>2
<1>3. ASSUME NEW n \in S PROVE n + 1 \in S
  <2>1. SUFFICES ASSUME n + 1 \in Slots, Walk[n + 1] # NoSlot PROVE Ok(n + 1)
    OBVIOUS
  <2>2. n \in Slots /\ n \in Nat /\ n + 1 # 0 /\ (n + 1) - 1 = n /\ Ok(n)
    BY <1>1, <2>1
  <2>3. Walk[n + 1] = IF Walk[n] = NoSlot THEN NoSlot ELSE NextRecord(Walk[n])
    BY <2>1, <2>2, WalkIs
  <2>4. Walk[n] # NoSlot /\ Walk[n] \in Taken
    BY <2>1, <2>2, <2>3, WalkIs
  <2>5. NextRecord(Walk[n]) \in {t \in Taken : Walk[n] + 1 <= t} \cup {NoSlot}
    BY <1>1, <2>4, RecordFromIs DEF NextRecord
  <2>6. Walk[n + 1] \in Nat /\ Walk[n] \in Nat /\ Walk[n] + 1 <= Walk[n + 1]
    BY <1>1, <2>1, <2>3, <2>4, <2>5
  <2>7. n <= Walk[n] /\ \A m \in 0 .. n - 1 : Walk[m] \in 0 .. Walk[n] - 1
    BY <2>2, <2>4
  <2>8. ASSUME NEW m \in 0 .. n PROVE Walk[m] \in 0 .. Walk[n + 1] - 1
    <3>1. m = n \/ m \in 0 .. n - 1
      BY <2>2
    <3>2. CASE m = n
      BY <2>6, <3>2
    <3>3. CASE m \in 0 .. n - 1
      BY <2>6, <2>7, <3>3
    <3> QED
      BY <3>1, <3>2, <3>3
  <2> QED
    BY <2>2, <2>6, <2>7, <2>8
<1>4. S = Nat
  <2>1. S \subseteq Nat
    OBVIOUS
  <2> HIDE DEF S
  <2> QED
    BY <1>2, <1>3, <2>1, SetInduction
<1> QED
  BY <1>1, <1>4

(* A walk does not pass a record by.                                       *)
LEMMA WalkReaches ==
  ASSUME Sound, NEW t \in Taken
  PROVE  \E n \in Slots : Walk[n] = t
<1> SUFFICES ASSUME \A n \in Slots : Walk[n] # t PROVE FALSE
  OBVIOUS
<1> DEFINE S == {n \in Nat : n \in Slots => Walk[n] \in Taken /\ Walk[n] < t}
<1>1. /\ DataSize \in Nat /\ slotCnt \in Nat /\ slotCnt <= DataSize
      /\ Slots = 0 .. DataSize
      /\ \A u \in Taken : u \in Nat /\ u + 1 \in 0 .. slotCnt
      /\ NoSlot \notin Taken /\ NoSlot \notin Nat
  BY SizesAssumption DEF Sound, TypeOK, Slots, Taken, NoSlot
<1>2. 0 \in S
  <2>1. Walk[0] \in 0 .. t
    BY <1>1, WalkIs, RecordFromIs DEF FirstRecord
  <2>2. 0 \in Slots
    BY <1>1
  <2>3. Walk[0] \in Taken
    BY <1>1, <2>1, <2>2, WalkIs
  <2> QED
    BY <1>1, <2>1, <2>2, <2>3
<1>3. ASSUME NEW n \in S PROVE n + 1 \in S
  <2>1. SUFFICES ASSUME n + 1 \in Slots PROVE Walk[n + 1] \in Taken /\ Walk[n + 1] < t
    OBVIOUS
  <2>2. n \in Slots /\ n \in Nat /\ n + 1 # 0 /\ (n + 1) - 1 = n
    BY <1>1, <2>1
  <2>3. Walk[n] \in Taken /\ Walk[n] < t /\ Walk[n] # NoSlot
    BY <1>1, <2>2
  <2>4. Walk[n + 1] = NextRecord(Walk[n])
    BY <2>1, <2>2, <2>3, WalkIs
  <2>5. Walk[n] + 1 \in 0 .. slotCnt /\ Walk[n] + 1 <= t
    BY <1>1, <2>3
  <2>6. Walk[n + 1] \in Walk[n] + 1 .. t
    BY <2>4, <2>5, RecordFromIs DEF NextRecord
  <2>7. Walk[n + 1] \in Taken
    BY <1>1, <2>1, <2>3, <2>6, WalkIs
  <2> QED
    BY <1>1, <2>1, <2>3, <2>6, <2>7
<1>4. S = Nat
  <2>1. S \subseteq Nat
    OBVIOUS
  <2> HIDE DEF S
  <2> QED
    BY <1>2, <1>3, <2>1, SetInduction
<1>5. t \in Slots /\ t \in Nat
  BY <1>1
<1>6. Walk[t] \in Taken /\ Walk[t] < t
  BY <1>4, <1>5
<1>7. t <= Walk[t]
  BY <1>1, <1>5, <1>6, WalkForward
<1> QED
  BY <1>1, <1>6, <1>7

(* A walk from firstRecord with nextRecord comes to every record once, in  *)
(* the order of the slots, to nothing else, and ends; if no record is      *)
(* without bytes, whose slot the code would take for one with a record.    *)
THEOREM PageWalkComplete ==
  ASSUME 0 \notin Lengths
  PROVE  Spec => []WalkComplete
<1>1. Sound /\ NoneEmpty => WalkComplete
  <2> SUFFICES ASSUME Sound, NoneEmpty PROVE WalkComplete
    OBVIOUS
  <2>1. Used = Taken
    BY UsedPlaces DEF NoneEmpty
  <2>2. /\ DataSize \in Nat /\ slotCnt \in Slots /\ slotCnt \in Nat
        /\ \A t \in Taken : t < slotCnt /\ t # NoSlot
        /\ \A n : n \in Slots <=> n \in Nat /\ n <= DataSize
    BY SizesAssumption DEF Sound, TypeOK, Slots, Taken, NoSlot
  <2>3. {Walk[n] : n \in Slots} \ {NoSlot} = Used
    BY <2>1, <2>2, WalkIs, WalkReaches
  <2>4. ASSUME NEW m \in Slots, NEW n \in Slots, m < n, Walk[n] # NoSlot
        PROVE  Walk[m] \in 0 .. Walk[n] - 1
    <3>1. m \in 0 .. n - 1
      BY <2>2, <2>4
    <3> QED
      BY <2>4, <3>1, WalkForward
  <2>5. Walk[slotCnt] = NoSlot
    <3> SUFFICES ASSUME Walk[slotCnt] # NoSlot PROVE FALSE
      OBVIOUS
    <3>1. slotCnt <= Walk[slotCnt] /\ Walk[slotCnt] \in Taken
      BY <2>2, WalkForward, WalkIs
    <3>2. Walk[slotCnt] \in Nat /\ Walk[slotCnt] < slotCnt
      BY <2>2, <3>1 DEF Taken
    <3> QED
      BY <2>2, <3>1, <3>2
  <2> QED
    BY <2>3, <2>4, <2>5 DEF WalkComplete
<1> QED
  BY <1>1, AlwaysNoneEmpty, PTL
=============================================================================
