------------------------------ MODULE TestFile ------------------------------
(***************************************************************************)
(* testfile.C, the program of phase 4: it fills, reads, scans and thins    *)
(* out three heap files and says what it finds wrong.  A test of it is a   *)
(* record of what it does, a step is one round of its loop.                *)
(***************************************************************************)
EXTENDS HeapFile4

CONSTANTS
  Num,         \* num, and 1000 and 2000, the range of records that one test
  Lo, Hi,      \*   deletes: (Lo, Hi]
  FixedLen,    \* sizeof(RECORD)
  Lengths      \* what rand() makes of the lengths of the records of dummy.03

(* num / 10 - 1 and num / 4 are what two tests count. *)
ASSUME NumAssumption == Num % 20 = 0 /\ 0 < Lo /\ Lo < Hi /\ 4 * Hi < 3 * Num

VARIABLES
  db,          \* the files, see HeapFile4.tla
  leftover,    \* a dummy.02 of an earlier run is there
  lens,        \* the lengths that rand() gives
  iScan, file1, scan1, scan2,      \* the objects
  ridArray,
  test, at,    \* the test, and whether it begins, is in its loop, or ends
  i, deleted,
  errors       \* the tests that have reported one

vars == <<db, leftover, lens, iScan, file1, scan1, scan2, ridArray, test, at, i, deleted, errors>>

Names == {"dummy.02", "dummy.03", "dummy.04"}

Fixed(k)    == [i |-> k, f |-> k, len |-> FixedLen]
Variable(k) == [i |-> k, f |-> lens[k], len |-> lens[k]]
-----------------------------------------------------------------------------
(* The tests.                                                              *)

InsertFixed    == [do |-> "insert", file |-> "dummy.02", fresh |-> TRUE, fixed |-> TRUE]
InsertVariable == [do |-> "insert", file |-> "dummy.03", fresh |-> FALSE, fixed |-> FALSE]
InsertAgain    == [do |-> "insert", file |-> "dummy.04", fresh |-> FALSE, fixed |-> TRUE]

Pull11th == [do |-> "pull", file |-> "dummy.02", step |-> 11]
Pull7th  == [do |-> "pull", file |-> "dummy.02", step |-> 7]

(* The scans: what is expected of each record and deleted, what the number *)
(* of records seen, or deleted, must be; -1 if nobody looks.  The count of *)
(* a scan that carries on starts at that of the one before less one.       *)
Scan(file) == [do |-> "scan", file |-> file, filter |-> NoFilter, type |-> "STRING", check |-> "none",
               deletes |-> {}, seen |-> -1, gone |-> -1, carry |-> FALSE]

ScanAll   == [Scan("dummy.02") EXCEPT !.check = "order", !.seen = Num]
ScanAgain == [Scan("dummy.02") EXCEPT !.check = "order", !.seen = Num]

DeleteOdd == [Scan("dummy.02") EXCEPT !.deletes = {k \in 0 .. Num - 1 : k % 2 = 1}, !.gone = Num \div 2]

DeleteRest  == [Scan("dummy.02") EXCEPT !.deletes = 1 .. Num]
DeleteFirst == [Scan("dummy.02") EXCEPT !.deletes = 0 .. Num, !.carry = TRUE, !.seen = (Num + 1) \div 2]

ScanBelow == [Scan("dummy.03") EXCEPT !.filter = [attr |-> "i", op |-> "LT", value |-> Num \div 2],
                                      !.type = "INTEGER", !.check = "below", !.seen = Num \div 2]

DeleteRange == [Scan("dummy.04") EXCEPT !.check = "order", !.deletes = Lo + 1 .. Hi,
                                        !.seen = Num, !.gone = Hi - Lo]

Rescan == Scan("dummy.04")

ScanFrom34 == [Scan("dummy.04") EXCEPT !.filter = [attr |-> "i", op |-> "GTE", value |-> (3 * Num) \div 4],
                                       !.type = "INTEGER", !.check = "matches", !.seen = Num \div 4]

ScanOver910 == [Scan("dummy.04") EXCEPT !.filter = [attr |-> "f", op |-> "GT", value |-> (9 * Num) \div 10],
                                        !.type = "FLOAT", !.check = "matches", !.seen = Num \div 10 - 1]

Destroy02 == [do |-> "destroy", file |-> "dummy.02"]
Destroy03 == [do |-> "destroy", file |-> "dummy.03"]
Destroy04 == [do |-> "destroy", file |-> "dummy.04"]
Together  == [do |-> "two scans", file |-> "dummy.03"]
OpenOnly  == [do |-> "open", file |-> "dummy.04"]
Refused   == [do |-> "refused", file |-> "dummy.04"]

Tests == <<InsertFixed, Pull11th, ScanAll, ScanAgain, Pull7th, DeleteOdd, DeleteRest, DeleteFirst,
           Destroy02, InsertVariable, ScanBelow, Together, Destroy03, InsertAgain, DeleteRange,
           Rescan, ScanFrom34, ScanOver910, OpenOnly, Refused, Destroy04>>

Test  == Tests[test]
Done  == test > Len(Tests)

Init ==
  /\ leftover \in BOOLEAN
  /\ db = LET none == [disk |-> <<>>, opens |-> [f \in Names |-> 0], pool |-> <<>>]
          IN  IF leftover THEN CreateHeapFile(none, "dummy.02") ELSE none
  /\ lens \in Lengths
  /\ iScan = Null /\ file1 = Null /\ scan1 = Null /\ scan2 = Null
  /\ ridArray = <<>>
  /\ test = 1 /\ at = "begin"
  /\ i = 0 /\ deleted = 0
  /\ errors = {}
-----------------------------------------------------------------------------
(* An error is reported unless ok. *)
Expect(ok) == errors' = IF ok THEN errors ELSE errors \cup {test}

Begin  == ~Done /\ at = "begin"
InLoop == ~Done /\ at = "loop"
EndTest == test' = test + 1 /\ at' = "begin"

BeginInsert ==
  /\ Begin /\ Test.do = "insert"
  /\ LET old == IF Test.fresh THEN DestroyFile(db, Test.file) ELSE db
         r   == Opened(CreateHeapFile(old, Test.file), Test.file)
     IN  /\ Expect(CreateStatus(old, Test.file) = "OK")
         /\ db' = r.db /\ iScan' = r.obj
  /\ i' = 0 /\ at' = "loop"
  /\ UNCHANGED <<leftover, lens, file1, scan1, scan2, ridArray, test, deleted>>

Insert ==
  /\ InLoop /\ Test.do = "insert"
  /\ i < Num
  /\ LET r == InsertRecord(db, iScan, IF Test.fixed THEN Fixed(i) ELSE Variable(i))
     IN  /\ Expect(r.status = "OK")
         /\ db' = r.db /\ iScan' = r.obj
         /\ ridArray' = IF Test.fresh THEN Append(ridArray, r.obj.curRec) ELSE ridArray
  /\ i' = i + 1
  /\ UNCHANGED <<leftover, lens, file1, scan1, scan2, test, at, deleted>>

EndInsert ==
  /\ InLoop /\ Test.do = "insert"
  /\ i = Num
  /\ db' = DeletedInserter(db, iScan) /\ iScan' = Null
  /\ EndTest
  /\ UNCHANGED <<leftover, lens, file1, scan1, scan2, ridArray, i, deleted, errors>>

BeginPull ==
  /\ Begin /\ Test.do = "pull"
  /\ LET r == Opened(db, Test.file) IN db' = r.db /\ file1' = r.obj
  /\ i' = 0 /\ at' = "loop"
  /\ UNCHANGED <<leftover, lens, iScan, scan1, scan2, ridArray, test, deleted, errors>>

Pull ==
  /\ InLoop /\ Test.do = "pull"
  /\ i < Num
  /\ LET r == GetRecord(db, file1, ridArray[i + 1])
     IN  /\ Expect(r.status = "OK" /\ r.rec = Fixed(i))
         /\ db' = r.db /\ file1' = r.obj
  /\ i' = i + Test.step
  /\ UNCHANGED <<leftover, lens, iScan, scan1, scan2, ridArray, test, at, deleted>>

EndPull ==
  /\ InLoop /\ Test.do = "pull"
  /\ i >= Num
  /\ db' = Deleted(db, file1) /\ file1' = Null
  /\ ridArray' = IF Test = Pull7th THEN <<>> ELSE ridArray
  /\ EndTest
  /\ UNCHANGED <<leftover, lens, iScan, scan1, scan2, i, deleted, errors>>
-----------------------------------------------------------------------------
BeginScan ==
  /\ Begin /\ Test.do = "scan"
  /\ LET r == Opened(db, Test.file)
         s == StartScan(r.db, r.obj, Test.filter, Test.type, IntSize)
     IN  /\ Expect(s.status = "OK")
         /\ db' = s.db /\ scan1' = s.obj
  /\ i' = IF Test.carry THEN i - 1 ELSE 0
  /\ deleted' = 0 /\ at' = "loop"
  /\ UNCHANGED <<leftover, lens, iScan, file1, scan2, ridArray, test>>

Good(r) == CASE Test.check = "order"   -> r = Fixed(i)
             [] Test.check = "below"   -> r.i < Num \div 2 /\ r.f = r.len
             [] Test.check = "matches" -> Matches(Test.filter, r)
             [] OTHER                  -> TRUE

(* The next record, which may be deleted. *)
Found ==
  /\ InLoop /\ Test.do = "scan"
  /\ LET r == ScanNext(db, scan1)
         d == IF i \in Test.deletes THEN DeleteRecord(r.db, r.obj) ELSE r
     IN  /\ r.status # "FILEEOF"
         /\ Expect(r.status = "OK" /\ Good(CurrentRecord(r.db, r.obj)) /\ d.status = "OK")
         /\ db' = d.db /\ scan1' = d.obj
  /\ i' = i + 1
  /\ deleted' = IF i \in Test.deletes THEN deleted + 1 ELSE deleted
  /\ UNCHANGED <<leftover, lens, iScan, file1, scan2, ridArray, test, at>>

EndOfScan ==
  /\ InLoop /\ Test.do = "scan"
  /\ LET r == ScanNext(db, scan1)
     IN  /\ r.status = "FILEEOF"
         /\ db' = Deleted(r.db, r.obj) /\ scan1' = Null
  /\ Expect(Test.seen \in {-1, i} /\ Test.gone \in {-1, deleted})
  /\ EndTest
  /\ UNCHANGED <<leftover, lens, iScan, file1, scan2, ridArray, i, deleted>>
-----------------------------------------------------------------------------
(* Two scans of one file take turns; deleted counts what both find. *)
BeginTogether ==
  /\ Begin /\ Test = Together
  /\ LET r == Opened(db, Test.file)
         s == StartScan(r.db, r.obj, [attr |-> "i", op |-> "LT", value |-> Num \div 2], "INTEGER", IntSize)
         q == Opened(s.db, Test.file)
         t == StartScan(q.db, q.obj, [attr |-> "f", op |-> "GTE", value |-> 0], "FLOAT", IntSize)
     IN  /\ Expect(s.status = "OK" /\ t.status = "OK")
         /\ db' = t.db /\ scan1' = s.obj /\ scan2' = t.obj
  /\ i' = 0 /\ deleted' = 0 /\ at' = "loop"
  /\ UNCHANGED <<leftover, lens, iScan, file1, ridArray, test>>

BothNext ==
  /\ InLoop /\ Test = Together
  /\ i < Num
  /\ LET r == ScanNext(db, scan1)
         s == ScanNext(r.db, scan2)
     IN  /\ Expect({r.status, s.status} \subseteq {"OK", "FILEEOF"})
         /\ db' = s.db /\ scan1' = r.obj /\ scan2' = s.obj
         /\ deleted' = deleted + (IF r.status = "OK" THEN 1 ELSE 0) + (IF s.status = "OK" THEN 1 ELSE 0)
  /\ i' = i + 1
  /\ UNCHANGED <<leftover, lens, iScan, file1, ridArray, test, at>>

EndTogether ==
  /\ InLoop /\ Test = Together
  /\ i = Num
  /\ LET r == ScanNext(db, scan1)
         s == ScanNext(r.db, scan2)
     IN  /\ Expect(deleted = Num \div 2 + Num /\ r.status = "FILEEOF" /\ s.status = "FILEEOF")
         /\ db' = Deleted(Deleted(s.db, r.obj), s.obj)
  /\ scan1' = Null /\ scan2' = Null
  /\ EndTest
  /\ UNCHANGED <<leftover, lens, iScan, file1, ridArray, i, deleted>>
-----------------------------------------------------------------------------
Destroy ==
  /\ Begin /\ Test.do = "destroy"
  /\ Expect(DestroyStatus(db, Test.file) = "OK")
  /\ db' = DestroyFile(db, Test.file)
  /\ EndTest
  /\ UNCHANGED <<leftover, lens, iScan, file1, scan1, scan2, ridArray, i, deleted>>

OpenAndDelete ==
  /\ Begin /\ Test = OpenOnly
  /\ LET r == Opened(db, Test.file) IN db' = Deleted(r.db, r.obj)
  /\ EndTest
  /\ UNCHANGED <<leftover, lens, iScan, file1, scan1, scan2, ridArray, i, deleted, errors>>

(* An int of 20 bytes; a record of 8192. *)
CallsRefused ==
  /\ Begin /\ Test = Refused
  /\ LET r == Opened(db, Test.file)
         s == StartScan(r.db, r.obj, [attr |-> "i", op |-> "EQ", value |-> 0], "INTEGER", 5 * IntSize)
         q == Opened(s.db, Test.file)
         t == InsertRecord(q.db, q.obj, [i |-> 0, f |-> 0, len |-> 8 * PageSpace])
     IN  /\ Expect(s.status = "BADSCANPARM" /\ t.status \in {"INVALIDRECLEN", "NOSPACE"})
         /\ db' = Deleted(DeletedInserter(t.db, t.obj), s.obj)
  /\ EndTest
  /\ UNCHANGED <<leftover, lens, iScan, file1, scan1, scan2, ridArray, i, deleted>>

Step == \/ BeginInsert \/ Insert \/ EndInsert
        \/ BeginPull \/ Pull \/ EndPull
        \/ BeginScan \/ Found \/ EndOfScan
        \/ BeginTogether \/ BothNext \/ EndTogether
        \/ Destroy \/ OpenAndDelete \/ CallsRefused

Next == Step

Spec == Init /\ [][Next]_vars /\ WF_vars(Step)
-----------------------------------------------------------------------------
(* Properties.                                                             *)

(* No test reports an error, whatever the lengths of the records: all that *)
(* was inserted is read back by its RID and by scans, in order; deleted    *)
(* records are gone and no others; a filter lets through what matches and  *)
(* nothing else; two scans of a file do not disturb each other.            *)
ChecksHold == errors = {}

(* Every page in the pool belongs to an open file, and its header page is  *)
(* pinned once for every time that it is open: the File object that the    *)
(* last close deletes (db.C:555-560) is one that no frame points to.       *)
ClosedUnpinned ==
  /\ \A pg \in DOMAIN db.pool : IsOpen(db, pg[1])
  /\ \A f \in Names : IsOpen(db, f) => /\ IsPinned(db, f, HeaderPage)
                                       /\ db.pool[<<f, HeaderPage>>].pins = db.opens[f]

(* The program ends, and leaves no file behind that it made. *)
TestEnds == <>(Done /\ db.disk = <<>>)
=============================================================================
