----------------------------- MODULE ClockSweep -----------------------------
(***************************************************************************)
(* The loop of allocBuf (phase6/buf.C), one frame at a time.  BufMgr.tla   *)
(* says in one step which frame the clock stops at and which reference     *)
(* bits it has turned off; here the loop is run on every pool that can     *)
(* come about, and compared with that.                                     *)
(***************************************************************************)
EXTENDS BufMgr

(* What the loop has: the frames, the hand, the frames it has looked at,   *)
(* and whether it goes on.                                                 *)
Called(table, hand) == [bufTable |-> table, clockHand |-> hand,
                        numScanned |-> 0, outcome |-> "scanning"]

(* Wrong: one look too few for the last frame. *)
MayScan_Short(s) == s.outcome = "scanning" /\ s.numScanned < 2 * NumBufs - 1

MayScan(s) == s.outcome = "scanning" /\ s.numScanned < 2 * NumBufs

(* The body of the loop, and the test of found that follows it.  A frame   *)
(* that is invalid does not set found: the loop must have left it early.   *)
Look(s) ==
  LET hand == (s.clockHand + 1) % NumBufs
      seen == s.numScanned + 1
      b    == s.bufTable[hand]
  IN  [bufTable   |-> IF b.valid THEN [s.bufTable EXCEPT ![hand].refbit = FALSE]
                      ELSE s.bufTable,
       clockHand  |-> hand,
       numScanned |-> seen,
       outcome    |-> IF ~b.valid THEN IF seen < 2 * NumBufs THEN "found" ELSE "exceeded"
                      ELSE IF ~b.refbit /\ b.pinCnt = 0 THEN "found" ELSE "scanning"]

(* What the loop ends with.                                                *)
SweptClock(table, hand) ==
  LET after[k \in 0 .. 2 * NumBufs] ==
        IF k = 0 THEN Called(table, hand)
        ELSE IF MayScan(after[k - 1]) THEN Look(after[k - 1]) ELSE after[k - 1]
      last == after[2 * NumBufs]
  IN  IF last.outcome = "scanning" THEN [last EXCEPT !.outcome = "exceeded"] ELSE last
-----------------------------------------------------------------------------
(* Properties.                                                             *)

(* The loop of allocBuf, run on the pool as it is, ends as BufMgr.tla says *)
(* in one step: at its victim, with its reference bits off, or without a   *)
(* frame when it has no candidate.                                         *)
EndsAtVictim ==
  LET end == SweptClock(bufTable, clockHand)
  IN  IF end.outcome = "found"
      THEN /\ Candidates # {}
           /\ end.clockHand = Victim
           /\ end.numScanned = LastScan
           /\ end.bufTable = Swept(end.numScanned - 1)
      ELSE /\ Candidates = {}
           /\ end.clockHand = clockHand
           /\ end.bufTable = Swept(2 * NumBufs)
=============================================================================
