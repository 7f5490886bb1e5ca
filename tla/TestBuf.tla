------------------------------- MODULE TestBuf -------------------------------
(***************************************************************************)
(* testbuf.C, the program of phase 3: loops of calls to the buffer manager *)
(* over four files.  A call that should succeed and does not, or the other *)
(* way round, or a page that does not say which one it is, ends it.  A     *)
(* step is one call.                                                       *)
(***************************************************************************)
EXTENDS BufMgr3

CONSTANTS
  num,         \* num: pages of test.1, and frames
  Placements   \* the File objects that openFile may give for the four

(* file1 to file4 *)
file1 == "test.1"
file2 == "test.2"
file3 == "test.3"
file4 == "test.4"
Names == {file1, file2, file3, file4}

ASSUME NumIsPoolAssumption == num = NumBufs /\ num >= 3 /\ MaxPages >= num + 2
ASSUME PlacesAssumption    == Placements \subseteq Injection(Names, Files)

VARIABLES
  file,              \* name -> its File object
  part, at, i,       \* the loop, the call in it, its counter
  j,                 \* j, what allocPage gave in the first loop
  pageno,            \* name -> pageno, pageno2, pageno3
  outcome            \* "running", "passed", "failed", "undefined"

vars == <<pool, file, part, at, i, j, pageno, outcome>>
-----------------------------------------------------------------------------
(* Calls: "ok" says whether they should succeed.  "nr" is how the program  *)
(* names the page: by j[i], by i and a number, by what allocPage gave.     *)

Call(do, f, nr, flag) == [do |-> do, file |-> f, nr |-> nr, flag |-> flag, ok |-> TRUE]

Alloc(f, into) == Call("alloc", f, into, TRUE)
Read(f, nr)    == Call("read", f, nr, FALSE)
UnPin(f, nr, dirty) == Call("unpin", f, nr, dirty)
Flush(f)       == Call("flush", f, "-", FALSE)
Of(do)         == [k \in 1 .. 4 |-> Call(do, <<file1, file2, file3, file4>>[k], "-", FALSE)]
Fails(c)       == [c EXCEPT !.ok = FALSE]

Loop(first, last, calls) == [first |-> first, last |-> last, calls |-> calls]
Once(calls)              == Loop(1, 1, calls)

Third == num \div 3

SetUp    == Once(<<Call("create", file1, "-", FALSE), Fails(Call("create", file1, "-", FALSE))>>
                 \o Tail(Of("create")) \o Of("open"))
Allocate == Loop(0, num - 1, <<Alloc(file1, "j[i]"), UnPin(file1, "j[i]", TRUE)>>)
ReadBack == Loop(0, num - 1, <<Read(file1, "j[i]"), UnPin(file1, "j[i]", FALSE)>>)
Several  == Loop(0, Third - 1,
                 <<Alloc(file2, "pageno"), Alloc(file3, "pageno"), Call("random", file1, "-", FALSE),
                   Read(file1, "pageno"), Read(file2, "pageno"), Read(file3, "pageno"),
                   UnPin(file1, "pageno", TRUE)>>)
TwoPins  == Loop(0, Third - 1,
                 <<UnPin(file2, "i+1", TRUE), UnPin(file2, "i+1", TRUE),
                   UnPin(file3, "i+1", TRUE), UnPin(file3, "i+1", TRUE)>>)
Reading1 == Loop(1, Third - 1, <<Read(file1, "i"), UnPin(file1, "i", FALSE)>>)
Reading2 == Loop(1, Third - 1, <<Read(file2, "i"), UnPin(file2, "i", FALSE)>>)
Reading3 == Loop(1, Third - 1, <<Read(file3, "i"), UnPin(file3, "i", FALSE)>>)
Absent   == Once(<<Fails(Read(file4, "i"))>>)
UnPinned == Once(<<Call("alloc", file4, "i", FALSE), UnPin(file4, "i", TRUE), Fails(UnPin(file4, "i", FALSE))>>)
AllPins  == Loop(0, num - 1, <<Alloc(file4, "j[i]")>>)
TooMany  == Once(<<Fails(Call("alloc", file4, "-", FALSE))>>)
UnPinAll == Loop(0, num - 1, <<UnPin(file4, "i+2", TRUE)>>)
PinAll   == Loop(1, num - 1, <<Read(file1, "i")>>)
FlushPinned == Once(<<Fails(Flush(file1))>>)
UnPinFile   == Loop(1, num - 1, <<UnPin(file1, "i", TRUE)>>)
TearDown    == Once(<<Flush(file1)>> \o Of("close") \o Of("destroy"))

Parts == <<SetUp, Allocate, ReadBack, Several, TwoPins, Reading1, Reading2, Reading3, Absent, UnPinned,
           AllPins, TooMany, UnPinAll, PinAll, FlushPinned, UnPinFile, TearDown>>

Running == outcome = "running"
This    == Parts[part].calls[at]
File    == file[This.file]
Page    == <<File, CASE This.nr = "j[i]"   -> j[i]
                     [] This.nr = "i"      -> i
                     [] This.nr = "i+1"    -> i + 1
                     [] This.nr = "i+2"    -> i + 2
                     [] This.nr = "pageno" -> pageno[This.file]>>

(* Files of an earlier run are destroyed first. *)
Init == /\ InitPool
        /\ exists = {}
        /\ file \in Placements
        /\ part = 1 /\ at = 1 /\ i = 1
        /\ j = [k \in 0 .. num - 1 |-> 0]
        /\ pageno = [f \in Names |-> 0]
        /\ outcome = "running"
-----------------------------------------------------------------------------
(* The next call: in this round, in the next one, in the next loop that    *)
(* has a round.                                                            *)
NextPart == CHOOSE p \in part + 1 .. Len(Parts) : /\ Parts[p].first <= Parts[p].last
                                                  /\ \A q \in part + 1 .. p - 1 : Parts[q].first > Parts[q].last

Goes(ok) ==
  IF ~ok THEN outcome' = "failed" /\ UNCHANGED <<part, at, i>>
  ELSE IF at < Len(Parts[part].calls) THEN at' = at + 1 /\ UNCHANGED <<part, i, outcome>>
  ELSE IF i < Parts[part].last THEN at' = 1 /\ i' = i + 1 /\ UNCHANGED <<part, outcome>>
  ELSE IF part = Len(Parts) THEN outcome' = "passed" /\ UNCHANGED <<part, at, i>>
  ELSE part' = NextPart /\ at' = 1 /\ i' = Parts[part'].first /\ UNCHANGED outcome

AsExpected == (status' = "OK") = This.ok

DoAlloc ==
  /\ Running /\ This.do = "alloc"
  /\ AllocPage(File, This.flag)
  /\ LET nr == numPages[File]
     IN  /\ j' = IF This.nr = "j[i]" THEN [j EXCEPT ![i] = nr] ELSE j
         /\ pageno' = IF This.nr = "pageno" THEN [pageno EXCEPT ![This.file] = nr] ELSE pageno
  /\ Goes(AsExpected)

(* The page that is read must say which one it is. *)
DoRead ==
  /\ Running /\ This.do = "read"
  /\ ReadPage(Page)
  /\ Goes(AsExpected /\ (This.ok => bufPool'[page'] = Page))
  /\ UNCHANGED <<j, pageno>>

DoUnPin ==
  /\ Running /\ This.do = "unpin"
  /\ UnPinPage(Page, This.flag)
  /\ Goes(AsExpected)
  /\ UNCHANGED <<j, pageno>>

DoFile ==
  /\ Running
  /\ \/ This.do = "flush"   /\ FlushFile(File)
     \/ This.do = "create"  /\ CreateFile(File)
     \/ This.do = "open"    /\ OpenFile(File)
     \/ This.do = "close"   /\ CloseFile(File)
     \/ This.do = "destroy" /\ DestroyFile(File)
  /\ Goes(AsExpected)
  /\ UNCHANGED <<j, pageno>>

Random ==
  /\ Running /\ This.do = "random"
  /\ \E k \in 0 .. num - 1 : pageno' = [pageno EXCEPT ![This.file] = j[k]]
  /\ Goes(TRUE)
  /\ UNCHANGED <<pool, j>>

(* The call hashes a page to a chain that is not there.  allocPage does    *)
(* not come to it without a frame.  What the program does then, and from   *)
(* then on, is undefined: nothing more is said of it.                      *)
DoUndefined ==
  /\ Running
  /\ \/ This.do \in {"read", "unpin"} /\ ~Defined(Page)
     \/ This.do = "alloc" /\ Candidates # {} /\ ~Defined(NewPage(File))
  /\ outcome' = "undefined"
  /\ UNCHANGED <<pool, part, at, i, j, pageno>>

Step == DoAlloc \/ DoRead \/ DoUnPin \/ DoFile \/ Random \/ DoUndefined

Next == Step /\ UNCHANGED file

Spec == Init /\ [][Next]_vars /\ WF_vars(Next)
-----------------------------------------------------------------------------
(* Properties.                                                             *)

(* Every entry of the page table is in its chain and leads to the frame of *)
(* its page, no page has two, and every frame that is pinned has one, for  *)
(* File objects at any addresses, until a page hashes outside of the table *)
(* (bufHash.C:12-18).                                                      *)
HashRight == outcome # "undefined" =>
  /\ \A h \in DOMAIN ht : \A k \in DOMAIN ht[h] :
       LET e == ht[h][k]
       IN  /\ hash(e.page) = h
           /\ bufTable[e.frameNo].valid /\ bufTable[e.frameNo].page = e.page
           /\ \A m \in DOMAIN ht[h] : ht[h][m].page = e.page => m = k
  /\ \A n \in Frames : bufTable[n].pinCnt > 0 =>
       IsHashed(ht, bufTable[n].page) /\ lookup(ht, bufTable[n].page) = n

(* "Passed all tests." (testbuf.C:267), whichever pages are drawn: every   *)
(* page comes back as it was written, every error that should occur does.  *)
(* The BufMgr that is deleted then has no page left to write for files     *)
(* that are closed and gone.  Only if one of the four File objects is at   *)
(* an address with which a page hashes outside of the table does the       *)
(* program not come to that.                                               *)
PassesAllTests ==
  <>(\/ outcome = "passed" /\ exists = {} /\ \A n \in Frames : ~bufTable[n].valid
     \/ outcome = "undefined" /\ \E f \in Names, n \in 1 .. MaxPages : ~Defined(<<file[f], n>>))
=============================================================================
