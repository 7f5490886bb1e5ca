------------------------------ MODULE Minirel ------------------------------
(***************************************************************************)
(* A session with a database: the commands of the interpreter, the two     *)
(* catalogs, the table of open files and the Unix files.                   *)
(*                                                                         *)
(* A command is a list of steps, one for each call of a lower layer, and   *)
(* each call may fail or be the last one before the process ends.  Phase 6 *)
(* is the reference; phase 5, which has no select, insert and delete, has  *)
(* catalogs of its own, and steps of its own where they differ.            *)
(*                                                                         *)
(* The catalogs are heap files that stay open, with their first pages      *)
(* pinned, until the command quit closes them, so that their changes reach *)
(* the disk then.  (Bound: no page of theirs is evicted before.)  A user's *)
(* file is flushed when it is closed.                                      *)
(***************************************************************************)
EXTENDS Parser

CONSTANTS
  Rels,        \* names of relations that users create and destroy
  Others,      \* others, that are only queried
  Tmp,         \* "Tmp_Minirel_Result"
  Attrs,       \* names of attributes
  Width,       \* attribute -> its length in bytes
  Overlong,    \* the attributes whose names have 32 characters or more
  Lists,       \* relation -> the lists of attributes it is created with
  Starts,      \* what the attributes of all these relations may be at first
  Queries,     \* the queries
  PageSize,    \* PAGESIZE
  PageSpace,   \* PAGESIZE - DPFIXED
  Many,        \* bound: tuples of a relation, this many or more
  Phases,      \* the versions of the program
  Troubles,    \* what can go wrong: "io", "crash"
  MaxTroubles, \* bound: how often
  MaxCommands  \* bound: commands, of all sessions

Names == Rels \cup Others \cup {Tmp}
Counts == 0 .. Many

(* An attribute descriptor that has not been written to. *)
Unset == "unset"

ASSUME TmpAssumption   == Tmp \notin Rels \cup Others /\ Rels \cap Others = {}
ASSUME WidthAssumption == Unset \notin Attrs /\ Width \in [Attrs -> Nat \ {0}] /\ Overlong \subseteq Attrs
ASSUME ListsAssumption == /\ \A n \in Rels : Lists[n] \subseteq Seq(Attrs) \ {<<>>}
                          /\ Starts \subseteq [Rels \cup Others -> Seq(Attrs \ Overlong)]
                          /\ \A q \in Queries :
                               /\ q.into \in Rels \cup {NoName}
                               /\ AttrNames(q.attrs) \in Seq(Attrs) \ {<<>>}
                               /\ q.tables # <<>> /\ Len(q.where) <= 2
ASSUME SizesAssumption == PageSize \in Nat /\ PageSpace \in 1 .. PageSize /\ Many \in Nat \ {0}
ASSUME PhasesAssumption == Phases \subseteq {5, 6} /\ Troubles \subseteq {"io", "crash"}

VARIABLES
  phase,       \* the version that runs
  file,        \* name -> the Unix file of that name
  relcat,      \* name -> attrCnt of its row in relcat, 0 without one
  attrcat,     \* name -> the attributes of its rows in attrcat
  disk,        \* the catalogs on disk
  cmd,         \* the command that is being executed
  reply,       \* what the last one has reported
  said,        \* how many commands there have been
  troubles,    \* how much has gone wrong
  harmed       \* the relations it has gone wrong for

catalogs == <<relcat, attrcat>>
vars == <<phase, file, relcat, attrcat, disk, cmd, reply, said, troubles, harmed>>

(* A file is "part" of a heap file if its creation has failed half-way.    *)
(* leaked: some object on it is never deleted, so that its openCnt stays   *)
(* above 0 until the process ends.                                         *)
NoFile   == [kind |-> "none", leaked |-> FALSE, tuples |-> 0]
NewFile  == [NoFile EXCEPT !.kind = "heap"]
PartFile == [NoFile EXCEPT !.kind = "part"]

(* DB::openFile, with no closeFile to follow. *)
Leaked(f) == [f EXCEPT !.leaked = TRUE]

(* left: how many tuples the scan of the command has yet to look at, -1    *)
(* when none is open; match: whether the last one matches; status: the     *)
(* first error; had: the rows of rel in attrcat before the command, which  *)
(* only properties look at.                                                *)
Idle    == [op |-> "none", arg |-> "", rel |-> Tmp, from |-> <<>>, attrs |-> <<>>, todo |-> <<>>,
            left |-> -1, match |-> FALSE, status |-> "OK", had |-> 0]
NoReply == [op |-> "none", arg |-> "", rel |-> Tmp, status |-> "OK", had |-> 0]

SumOfWidths(attrs) ==
  LET sum[i \in 0 .. Len(attrs)] == IF i = 0 THEN 0 ELSE sum[i - 1] + Width[attrs[i]]
  IN  sum[Len(attrs)]
TooWide(attrs) == SumOfWidths(attrs) > PageSpace

(* dbcreate leaves an empty database.  Sessions that ended well may have   *)
(* followed.                                                               *)
Init ==
  /\ phase \in Phases
  /\ \E start \in Starts : attrcat = [n \in Names |-> IF n = Tmp THEN <<>> ELSE start[n]]
  /\ file = [n \in Names |-> IF attrcat[n] = <<>> THEN NoFile
                             ELSE [NewFile EXCEPT !.tuples = IF TooWide(attrcat[n]) THEN 0 ELSE Many]]
  /\ relcat = [n \in Names |-> Len(attrcat[n])]
  /\ disk = [relcat |-> relcat, attrcat |-> attrcat]
  /\ cmd = Idle
  /\ reply = NoReply
  /\ said = 0
  /\ troubles = 0
  /\ harmed = {}
-----------------------------------------------------------------------------
(* Steps.                                                                  *)

At(step) == cmd.todo # <<>> /\ Head(cmd.todo) = step

(* The command ends; what went wrong first is its answer. *)
Finish(status) ==
  /\ cmd' = Idle
  /\ reply' = [op |-> cmd.op, arg |-> cmd.arg, rel |-> cmd.rel, had |-> cmd.had,
               status |-> IF cmd.status # "OK" THEN cmd.status ELSE status]

(* c is the command with its step done. *)
Continue(c) ==
  IF Len(c.todo) > 1 THEN cmd' = [c EXCEPT !.todo = Tail(@)] /\ UNCHANGED reply
  ELSE Finish(c.status)

(* A step fails with status: the command goes on (if a step is left that   *)
(* is taken all the same) or ends.                                         *)
GoOnAfter(status) ==
  Continue([cmd EXCEPT !.left = -1, !.match = FALSE, !.status = IF @ = "OK" THEN status ELSE @])

(* The file has pages in the pool that have not been flushed.              *)
Written(n) == \/ file[n].leaked
              \/ n = cmd.rel /\ \E step \in {"load", "insert", "delete", "scan"} : At(step)

More(k) == IF k = Many THEN Many ELSE k + 1

(* An error of the disk or a full pool. *)
Trouble(kind) ==
  /\ kind \in Troubles
  /\ troubles < MaxTroubles
  /\ troubles' = troubles + 1

Harmed(names) == harmed' = harmed \cup names
-----------------------------------------------------------------------------
(* The end of the process.                                                 *)

(* The next session finds the catalogs that are on disk.  Pages of a file  *)
(* that is written to, or has been and was not closed, are lost or not.    *)
Lost ==
  /\ relcat' = disk.relcat
  /\ attrcat' = disk.attrcat
  /\ \E tuples \in [{n \in Names : Written(n)} -> Counts] :
       file' = [n \in Names |-> [file[n] EXCEPT !.leaked = FALSE,
                                                !.tuples = IF Written(n) THEN tuples[n] ELSE @]]
  /\ Harmed({n \in Names : \/ <<relcat[n], attrcat[n]>> # <<disk.relcat[n], disk.attrcat[n]>>
                           \/ Written(n)
                           \/ cmd.op \notin {"none", "quit"} /\ n = cmd.rel})
  /\ cmd' = Idle
  /\ reply' = NoReply
  /\ UNCHANGED <<phase, disk>>

Crash == Trouble("crash") /\ Lost

(* exit(1) or abort() in the middle of a command. *)
Dies == Lost /\ UNCHANGED troubles

(* A HeapFile on a name without a file, or with half of one.  The          *)
(* constructor leaves members unset, and what is done with the object      *)
(* next is undefined: an error, after which the object may never be        *)
(* deleted, or the end of the process.  So is what is done with attributes *)
(* that have not been read.                                                *)
OpensNothing(n) == file[n].kind # "heap" \/ Unset \in ToSet(cmd.attrs)

BadObject ==
  \/ /\ GoOnAfter("UNIXERR")
     /\ \/ UNCHANGED <<file, harmed>>
        \/ /\ file[cmd.rel].kind # "none"
           /\ file' = [file EXCEPT ![cmd.rel] = Leaked(@)]
           /\ Harmed({cmd.rel})
     /\ UNCHANGED <<phase, catalogs, disk>>
  \/ Lost

Undefined == BadObject /\ UNCHANGED troubles

(* UT_Quit: relcat is closed and flushed, then attrcat, then the pool.     *)
(* Relcat is flushed with the pool only if a scan of it was left behind:   *)
(* in phase 5 by a getInfo that found nothing, in phase 6 by an addInfo    *)
(* that could not open it.                                                 *)
CloseRelCat ==
  /\ At("closeRelCat")
  /\ disk' \in {[disk EXCEPT !.relcat = relcat]}
                 \cup (IF phase = 5 \/ troubles > 0 THEN {disk} ELSE {})
  /\ Continue(cmd)
  /\ UNCHANGED <<phase, file, catalogs, troubles, harmed>>

CloseAttrCat ==
  /\ At("closeAttrCat")
  /\ disk' = [disk EXCEPT !.attrcat = attrcat]
  /\ Continue(cmd)
  /\ UNCHANGED <<phase, file, catalogs, troubles, harmed>>

(* The pool is flushed; the next session finds what is on disk then.       *)
Exit ==
  /\ At("exit")
  /\ disk' = [relcat |-> relcat, attrcat |-> attrcat]
  /\ file' = [n \in Names |-> [file[n] EXCEPT !.leaked = FALSE]]
  /\ relcat' = disk'.relcat /\ attrcat' = disk'.attrcat
  /\ Continue(cmd)
  /\ UNCHANGED <<phase, troubles, harmed>>
-----------------------------------------------------------------------------
(* The catalogs.                                                           *)

Refused(status) ==
  /\ Finish(status)
  /\ UNCHANGED <<phase, file, catalogs, disk, troubles, harmed>>

(* A step fails before it has changed anything; the command stays half     *)
(* done.                                                                   *)
CatalogFails ==
  /\ \E step \in {"checkNew", "lookUp", "getRelInfo", "addRel", "dropRel", "result"} : At(step)
  /\ Trouble("io")
  /\ Finish("IOERR")
  /\ Harmed(IF At("dropRel") \/ (At("getRelInfo") /\ cmd.rel = Tmp) THEN {cmd.rel} ELSE {})
  /\ UNCHANGED <<phase, file, catalogs, disk>>

(* AttrCatalog::getRelInfo reads the rows there are.                       *)
RowsRead(n) == attrcat[n]

(* Phase 5 reads as many as relcat says; if there are fewer, the rest of   *)
(* the array is not set to anything.                                       *)
RowsRead5(n) ==
  [i \in 1 .. relcat[n] |-> IF i <= Len(attrcat[n]) THEN attrcat[n][i] ELSE Unset]

GetRelInfo ==
  /\ At("getRelInfo")
  /\ LET rows == IF phase = 6 THEN RowsRead(cmd.rel) ELSE RowsRead5(cmd.rel)
     IN  IF rows = <<>> THEN Refused("RELNOTFOUND")
         ELSE /\ Continue([cmd EXCEPT !.attrs = rows])
              /\ UNCHANGED <<phase, file, catalogs, disk, troubles, harmed>>

(* The same, after RelCatalog::getInfo.                                    *)
LookUp ==
  /\ At("lookUp")
  /\ LET rows == IF phase = 6 THEN RowsRead(cmd.rel) ELSE RowsRead5(cmd.rel)
     IN  IF relcat[cmd.rel] = 0 \/ rows = <<>> THEN Refused("RELNOTFOUND")
         ELSE /\ Continue([cmd EXCEPT !.attrs = rows])
              /\ UNCHANGED <<phase, file, catalogs, disk, troubles, harmed>>
-----------------------------------------------------------------------------
(* RelCatalog::createRel.                                                  *)

Duplicates(attrs) == \E i, j \in DOMAIN attrs : i # j /\ attrs[i] = attrs[j]

(* Wrong: an existing relation is not noticed. *)
CheckNew_Blind ==
  /\ At("checkNew")
  /\ IF Duplicates(cmd.attrs) THEN Refused("DUPLATTR")
     ELSE IF SumOfWidths(cmd.attrs) > PageSize THEN Refused("ATTRTOOLONG")
     ELSE Continue(cmd) /\ UNCHANGED <<phase, file, catalogs, disk, troubles, harmed>>

CheckNew ==
  /\ At("checkNew")
  /\ IF relcat[cmd.rel] # 0 THEN Refused("RELEXISTS")
     ELSE IF Duplicates(cmd.attrs) THEN Refused("DUPLATTR")
     ELSE IF SumOfWidths(cmd.attrs) > PageSize THEN Refused("ATTRTOOLONG")
     ELSE Continue(cmd) /\ UNCHANGED <<phase, file, catalogs, disk, troubles, harmed>>

AddRel ==
  /\ At("addRel")
  /\ relcat' = [relcat EXCEPT ![cmd.rel] = Len(cmd.attrs)]
  /\ Continue(cmd)
  /\ UNCHANGED <<phase, file, attrcat, disk, troubles, harmed>>

(* The loop over the attributes comes to the end or to a name that is too  *)
(* long.                                                                   *)
GoodNames(attrs) ==
  CHOOSE k \in 0 .. Len(attrs) : /\ \A i \in 1 .. k : attrs[i] \notin Overlong
                                 /\ k = Len(attrs) \/ attrs[k + 1] \in Overlong

AddAttrs ==
  /\ At("addAttrs")
  /\ GoodNames(cmd.attrs) = Len(cmd.attrs)
  /\ attrcat' = [attrcat EXCEPT ![cmd.rel] = @ \o cmd.attrs]
  /\ Continue(cmd)
  /\ UNCHANGED <<phase, file, relcat, disk, troubles, harmed>>

AddAttrsFails ==
  /\ At("addAttrs")
  /\ Trouble("io")
  /\ \E k \in 0 .. GoodNames(cmd.attrs) :
       attrcat' = [attrcat EXCEPT ![cmd.rel] = @ \o SubSeq(cmd.attrs, 1, k)]
  /\ Finish("IOERR")
  /\ Harmed({cmd.rel})
  /\ UNCHANGED <<phase, file, relcat, disk>>

(* NAMETOOLONG, with the relation in relcat and some of its attributes in  *)
(* attrcat.                                                                *)
AddOverlong ==
  /\ At("addAttrs")
  /\ phase = 6
  /\ GoodNames(cmd.attrs) < Len(cmd.attrs)
  /\ attrcat' = [attrcat EXCEPT ![cmd.rel] = @ \o SubSeq(cmd.attrs, 1, GoodNames(cmd.attrs))]
  /\ Finish("NAMETOOLONG")
  /\ Harmed({cmd.rel})
  /\ UNCHANGED <<phase, file, relcat, disk, troubles>>

(* The names are those of the first rows. *)
Without(rows, k) == SubSeq(rows, k + 1, Len(rows))

(* Wrong: the row in relcat is removed first, and then dropRelation finds  *)
(* nothing to remove.                                                      *)
TakeBack_RelFirst(rows) ==
  /\ relcat' = [relcat EXCEPT ![cmd.rel] = 0]
  /\ attrcat' = [attrcat EXCEPT ![cmd.rel] = rows]

(* Phase 5 takes back what it has added: dropRelation removes as many rows *)
(* as relcat says from those there are, and then comes to names that are   *)
(* not set if they are fewer; its error is not looked at.                  *)
TakeBack(rows) ==
  /\ relcat' = [relcat EXCEPT ![cmd.rel] = 0]
  /\ attrcat' = [attrcat EXCEPT ![cmd.rel] = Without(rows, relcat[cmd.rel])]

AddOverlong5 ==
  /\ At("addAttrs")
  /\ phase = 5
  /\ GoodNames(cmd.attrs) < Len(cmd.attrs)
  /\ TakeBack(attrcat[cmd.rel] \o SubSeq(cmd.attrs, 1, GoodNames(cmd.attrs)))
  /\ Finish("NAMETOOLONG")
  /\ UNCHANGED <<phase, file, disk, troubles, harmed>>
-----------------------------------------------------------------------------
(* createHeapFile and destroyHeapFile over DB and File.                    *)

(* A file is there: it is opened, which is how the code sees it, and never *)
(* closed.                                                                 *)
FileIsThere ==
  /\ At("createFile")
  /\ file[cmd.rel].kind # "none"
  /\ file' = [file EXCEPT ![cmd.rel] = Leaked(@)]
  /\ Finish("FILEEXISTS")
  /\ Harmed({cmd.rel})
  /\ IF phase = 5 THEN TakeBack(attrcat[cmd.rel]) ELSE UNCHANGED catalogs
  /\ UNCHANGED <<phase, disk, troubles>>

CreateFile ==
  /\ At("createFile")
  /\ file[cmd.rel].kind = "none"
  /\ file' = [file EXCEPT ![cmd.rel] = NewFile]
  /\ Continue(cmd)
  /\ UNCHANGED <<phase, catalogs, disk, troubles, harmed>>

(* Some call on the way fails: before there is a file; before it is open,  *)
(* or after, when nothing closes it.                                       *)
CreateFileFails ==
  /\ At("createFile")
  /\ Trouble("io")
  /\ file[cmd.rel].kind = "none"
  /\ file' \in {file, [file EXCEPT ![cmd.rel] = PartFile],
                [file EXCEPT ![cmd.rel] = Leaked(PartFile)]}
  /\ Finish("IOERR")
  /\ Harmed({cmd.rel})
  /\ IF phase = 5 THEN TakeBack(attrcat[cmd.rel]) ELSE UNCHANGED catalogs
  /\ UNCHANGED <<phase, disk>>

(* Wrong: the last attribute is forgotten. *)
AttrsToDrop_Short == Len(cmd.attrs) - 1

(* destroyRel: AttrCatalog::dropRelation, one removeInfo for each name     *)
(* that getRelInfo has found, to the first that is not there.              *)
AttrsToDrop == Len(cmd.attrs)

DropAttrs ==
  /\ At("dropAttrs")
  /\ Unset \notin ToSet(cmd.attrs)
  /\ attrcat' = [attrcat EXCEPT ![cmd.rel] = Without(@, AttrsToDrop)]
  /\ Continue(cmd)
  /\ UNCHANGED <<phase, file, relcat, disk, troubles, harmed>>

(* A name that is not set: ATTRNOTFOUND.                                   *)
DropUnset ==
  /\ At("dropAttrs")
  /\ Unset \in ToSet(cmd.attrs)
  /\ attrcat' = [attrcat EXCEPT ![cmd.rel] = <<>>]
  /\ Finish("ATTRNOTFOUND")
  /\ Harmed({cmd.rel})
  /\ UNCHANGED <<phase, file, relcat, disk, troubles>>

DropAttrsFails ==
  /\ At("dropAttrs")
  /\ Trouble("io")
  /\ \E k \in 0 .. Len(cmd.attrs) - 1 : attrcat' = [attrcat EXCEPT ![cmd.rel] = Without(@, k)]
  /\ Finish("IOERR")
  /\ Harmed({cmd.rel})
  /\ UNCHANGED <<phase, file, relcat, disk>>

(* RelCatalog::removeInfo.  In phase 6 it ends the scan after it has       *)
(* deleted it: it goes well, or the process ends.                          *)
DropRel ==
  /\ At("dropRel")
  /\ IF relcat[cmd.rel] = 0 THEN Refused("RELNOTFOUND")
     ELSE /\ relcat' = [relcat EXCEPT ![cmd.rel] = 0]
          /\ Continue(cmd)
          /\ UNCHANGED <<phase, file, attrcat, disk, troubles, harmed>>

UsedAfterDelete == At("dropRel") /\ phase = 6 /\ Dies

(* Nothing is left of the relation, whatever had happened to it.           *)
Mended == harmed' = IF relcat[cmd.rel] = 0 /\ attrcat[cmd.rel] = <<>> THEN harmed \ {cmd.rel} ELSE harmed

(* Wrong: the file stays. *)
DestroyFile_Kept ==
  /\ At("destroyFile")
  /\ Continue(cmd)
  /\ UNCHANGED <<phase, file, catalogs, disk, troubles, harmed>>

DestroyFile ==
  /\ At("destroyFile")
  /\ IF file[cmd.rel].leaked THEN Refused("FILEOPEN")
     ELSE IF file[cmd.rel].kind = "none" THEN Refused("UNIXERR")
     ELSE /\ file' = [file EXCEPT ![cmd.rel] = NoFile]
          /\ Mended
          /\ Continue(cmd)
          /\ UNCHANGED <<phase, catalogs, disk, troubles>>

DestroyFileFails ==
  /\ At("destroyFile")
  /\ Trouble("io")
  /\ Finish("UNIXERR")
  /\ Harmed({cmd.rel})
  /\ UNCHANGED <<phase, file, catalogs, disk>>
-----------------------------------------------------------------------------
(* UT_Load and QU_Insert.                                                  *)

(* The tuples of the data file, however many, fit.                         *)
LoadTuples ==
  /\ At("load")
  /\ IF OpensNothing(cmd.rel) THEN Undefined
     ELSE /\ \E t \in file[cmd.rel].tuples .. Many :
               /\ TooWide(cmd.attrs) => t = file[cmd.rel].tuples
               /\ file' = [file EXCEPT ![cmd.rel].tuples = t]
          /\ Continue(cmd)
          /\ UNCHANGED <<phase, catalogs, disk, troubles, harmed>>

(* insertRecord fails, for lack of pages or because the tuple fits on no   *)
(* page: UT_Load returns and leaves the scan as it is.                     *)
LoadFails ==
  /\ At("load")
  /\ ~OpensNothing(cmd.rel)
  /\ IF TooWide(cmd.attrs) THEN UNCHANGED troubles ELSE Trouble("io")
  /\ \E t \in file[cmd.rel].tuples .. Many :
       /\ TooWide(cmd.attrs) => t = file[cmd.rel].tuples
       /\ file' = [file EXCEPT ![cmd.rel] = Leaked([@ EXCEPT !.tuples = t])]
  /\ Finish("INVALIDRECLEN")
  /\ Harmed({cmd.rel})
  /\ UNCHANGED <<phase, catalogs, disk>>

AddTuple(n) == file' = [file EXCEPT ![n].tuples = More(@)]

(* QU_Insert, with a value for every attribute.                            *)
Insert ==
  /\ At("insert")
  /\ IF OpensNothing(cmd.rel) THEN Undefined
     ELSE IF TooWide(cmd.attrs) THEN Refused("INVALIDRECLEN")
     ELSE /\ AddTuple(cmd.rel)
          /\ Continue(cmd)
          /\ UNCHANGED <<phase, catalogs, disk, troubles, harmed>>

InsertFails ==
  /\ At("insert")
  /\ ~OpensNothing(cmd.rel)
  /\ Trouble("io")
  /\ Finish("IOERR")
  /\ UNCHANGED <<phase, file, catalogs, disk, harmed>>
-----------------------------------------------------------------------------
(* QU_Delete.                                                              *)

(* It goes to the file without a look at relcat.  arg says whether the     *)
(* attribute of the where clause, if there is one, is "known" or           *)
(* "unknown"; the status of getInfo is not kept, and the scan then         *)
(* compares with the last attribute it has seen, or not at all.            *)
Delete ==
  /\ At("delete")
  /\ IF OpensNothing(cmd.rel) THEN Undefined
     ELSE /\ \E t \in 0 .. file[cmd.rel].tuples :
               file' = [file EXCEPT ![cmd.rel].tuples = t]
          /\ Continue(cmd)
          /\ UNCHANGED <<phase, catalogs, disk, troubles, harmed>>

(* Any error of scanNext is taken for the end of the file: OK. *)
DeleteFails ==
  /\ At("delete")
  /\ ~OpensNothing(cmd.rel)
  /\ Trouble("io")
  /\ \E t \in 0 .. file[cmd.rel].tuples : file' = [file EXCEPT ![cmd.rel].tuples = t]
  /\ Continue(cmd)
  /\ UNCHANGED <<phase, catalogs, disk, harmed>>
-----------------------------------------------------------------------------
(* The interpreter's case N_QUERY: QU_Select from one relation, QU_Join    *)
(* (nested loops) from two.                                                *)

CreateSteps  == <<"checkNew", "addRel", "addAttrs", "createFile">>
DestroySteps == <<"getRelInfo", "dropAttrs", "dropRel", "destroyFile">>

Types(attrs) == [i \in DOMAIN attrs |-> Width[attrs[i]]]

TmpExists == cmd.rel = Tmp /\ relcat[Tmp] # 0

(* AttrCatalog::getInfo goes through the rows of the relation that the     *)
(* attribute is qualified with, which are those of the query's beginning   *)
(* still.                                                                  *)
Known(tables, attrs) ==
  \A i \in DOMAIN attrs : attrs[i].attr \in ToSet(attrcat[RelationOf(tables, attrs[i])])

Knowledge(q) == IF ~Known(q.tables, q.attrs) THEN "attribute unknown"
                ELSE IF ~Known(q.tables, q.where) THEN "where unknown"
                ELSE "known"

(* The result is there already, with the same types, or it is created. *)
Result ==
  /\ At("result")
  /\ IF TmpExists THEN Refused("TMP_RES_EXISTS")
     ELSE IF cmd.arg = "attribute unknown" THEN Refused("ATTRNOTFOUND")
     ELSE IF cmd.rel = Tmp \/ attrcat[cmd.rel] = <<>>
     THEN /\ Continue([cmd EXCEPT !.todo = <<"result">> \o CreateSteps \o Tail(@)])
          /\ UNCHANGED <<phase, file, catalogs, disk, troubles, harmed>>
     ELSE IF Types(attrcat[cmd.rel]) # Types(cmd.attrs) THEN Refused("ATTRTYPEMISMATCH")
     ELSE Continue(cmd) /\ UNCHANGED <<phase, file, catalogs, disk, troubles, harmed>>

(* As many tuples as the scan of one relation, or of one for each tuple of *)
(* another, has to look at.                                                *)
ToLookAt == IF \E i \in DOMAIN cmd.from : file[cmd.from[i]].tuples = 0 THEN 0
            ELSE file[cmd.from[1]].tuples

WhereUnknown ==
  /\ At("scan") /\ cmd.left = -1 /\ cmd.arg = "where unknown"
  /\ GoOnAfter("ATTRNOTFOUND")
  /\ UNCHANGED <<phase, file, catalogs, disk, troubles, harmed>>

OpenForScan ==
  /\ At("scan") /\ cmd.left = -1 /\ cmd.arg # "where unknown"
  /\ LET names == {cmd.rel} \cup ToSet(cmd.from)
     IN  IF \E n \in names : OpensNothing(n) THEN Undefined
         ELSE /\ cmd' = [cmd EXCEPT !.left = ToLookAt]
              /\ UNCHANGED <<phase, file, catalogs, disk, reply, troubles, harmed>>

(* A file cannot be opened, or one of its first pages not read. *)
OpenFails ==
  /\ At("scan") /\ cmd.left = -1 /\ cmd.arg # "where unknown"
  /\ Trouble("io")
  /\ BadObject

(* A tuple matches, or it does not.                                        *)
NextTuple ==
  /\ At("scan") /\ cmd.left > 0 /\ ~cmd.match
  /\ \E matches \in BOOLEAN : cmd' = [cmd EXCEPT !.left = @ - 1, !.match = matches]
  /\ UNCHANGED <<phase, file, catalogs, disk, reply, troubles, harmed>>

(* Wrong: the result may always be what is scanned. *)
MayLieAhead_Always(n) == TRUE
MayLieAhead(n) == n \in ToSet(cmd.from)

(* It is inserted into the result.  If the result is what is scanned, the  *)
(* new tuple may lie ahead.                                                *)
InsertTuple ==
  /\ At("scan") /\ cmd.match
  /\ ~TooWide(cmd.attrs)
  /\ AddTuple(cmd.rel)
  /\ \E ahead \in {0} \cup (IF MayLieAhead(cmd.rel) THEN {1} ELSE {}) :
       cmd' = [cmd EXCEPT !.left = @ + ahead, !.match = FALSE]
  /\ UNCHANGED <<phase, catalogs, disk, reply, troubles, harmed>>

ScanEnds == [cmd EXCEPT !.left = -1, !.match = FALSE]

(* A tuple that matches fits on no page: an error of a select; a join dies *)
(* of it (ASSERT).                                                         *)
InsertTooWide ==
  /\ At("scan") /\ cmd.match
  /\ TooWide(cmd.attrs)
  /\ IF cmd.op = "join" THEN Dies
     ELSE /\ GoOnAfter("INVALIDRECLEN")
          /\ UNCHANGED <<phase, file, catalogs, disk, troubles, harmed>>

(* The read of a tuple fails, which is taken for the end, or the insertion *)
(* of one, of which a join dies.                                           *)
ScanFails ==
  /\ At("scan") /\ cmd.left # -1
  /\ Trouble("io")
  /\ \/ /\ ~cmd.match /\ cmd.left > 0
        /\ Continue(ScanEnds)
        /\ UNCHANGED <<phase, file, catalogs, disk, harmed>>
     \/ /\ cmd.match /\ cmd.op = "select"
        /\ GoOnAfter("IOERR")
        /\ UNCHANGED <<phase, file, catalogs, disk, harmed>>
     \/ /\ cmd.match /\ cmd.op = "join"
        /\ Lost

Scanned ==
  /\ At("scan") /\ cmd.left = 0 /\ ~cmd.match
  /\ Continue(ScanEnds)
  /\ UNCHANGED <<phase, file, catalogs, disk, troubles, harmed>>

(* UT_Print, the scan of it. *)
PrintTuples ==
  /\ At("print")
  /\ IF OpensNothing(cmd.rel) THEN Undefined
     ELSE Continue(cmd) /\ UNCHANGED <<phase, file, catalogs, disk, troubles, harmed>>

(* It returns, before it opens the scan or after, and then it leaves the   *)
(* scan as it is.                                                          *)
PrintFails ==
  /\ At("print")
  /\ ~OpensNothing(cmd.rel)
  /\ Trouble("io")
  /\ \/ UNCHANGED <<file, harmed>>
     \/ file' = [file EXCEPT ![cmd.rel] = Leaked(@)] /\ Harmed({cmd.rel})
  /\ GoOnAfter("IOERR")
  /\ UNCHANGED <<phase, catalogs, disk>>
-----------------------------------------------------------------------------
(* What users can say.                                                     *)

Statement ==
  /\ cmd = Idle
  /\ said < MaxCommands
  /\ said' = said + 1

(* It has so many nodes and names so many attributes.  (More attributes    *)
(* than there may be are refused before anything is done.)                 *)
Parsed(nodes, many) == Statement /\ nodes <= MaxNode /\ many < MaxAttrs

Begin(op, arg, rel, from, attrs, todo) ==
  /\ cmd' = [Idle EXCEPT !.op = op, !.arg = arg, !.rel = rel, !.from = from, !.attrs = attrs,
                         !.todo = todo, !.had = Len(attrcat[rel])]
  /\ reply' = NoReply
  /\ UNCHANGED <<phase, file, catalogs, disk, troubles, harmed>>

Create(n, attrs) ==
  /\ Parsed(CreateNodes(attrs), Len(attrs))
  /\ Begin("create", "", n, <<>>, attrs, CreateSteps)

Destroy(n) ==
  /\ Parsed(OtherNodes, 0)
  /\ Begin("destroy", "", n, <<>>, <<>>, DestroySteps)

Load(n) ==
  /\ Parsed(OtherNodes, 0)
  /\ Begin("load", "", n, <<>>, <<>>, <<"lookUp", "load">>)

PrintRel(n) ==
  /\ Parsed(OtherNodes, 0)
  /\ Begin("print", "", n, <<>>, <<>>, <<"lookUp", "print">>)

Help(n) ==
  /\ Parsed(OtherNodes, 0)
  /\ Begin("help", "", n, <<>>, <<>>, <<"lookUp">>)

(* One value for every attribute of n. *)
InsertInto(n) ==
  /\ Parsed(InsertNodes(Len(attrcat[n])), Len(attrcat[n]))
  /\ Begin("insert", "", n, <<>>, <<>>, <<"lookUp", "insert">>)

DeleteFrom(n, which) ==
  /\ Parsed(DeleteNodes(<<which>>), 0)
  /\ Begin("delete", which, n, <<>>, <<>>, <<"delete">>)

(* Without into, the result is printed and destroyed. *)
Query(q) ==
  /\ Parsed(QueryNodes(q), Len(q.attrs))
  /\ Understood(q) /\ Compatible(q)
  /\ Begin(IF Len(q.where) = 2 THEN "join" ELSE "select", Knowledge(q), IF q.into = NoName THEN Tmp ELSE q.into,
           Sources(q), AttrNames(q.attrs),
           <<"result", "scan">> \o IF q.into = NoName THEN <<"print">> \o DestroySteps ELSE <<>>)

Quit ==
  /\ Parsed(0, 0)
  /\ Begin("quit", "", Tmp, <<>>, <<>>, <<"closeRelCat", "closeAttrCat", "exit">>)

(* The pool of nodes is too small for the statement: exit(1).              *)
Kills(nodes) == Statement /\ nodes > MaxNode /\ Dies

(* buildindex and dropindex: the interpreter has no case for them, and     *)
(* assert(0) ends the process.                                             *)
BuildIndex == Statement /\ Dies

Command ==
  \/ \E n \in Rels : \E attrs \in Lists[n] : Create(n, attrs) \/ Kills(CreateNodes(attrs))
  \/ \E n \in Names : Destroy(n)
  \/ \E n \in Rels : Load(n) \/ PrintRel(n) \/ Help(n)
  \/ /\ phase = 6
     /\ \/ \E n \in Rels : InsertInto(n) \/ Kills(InsertNodes(Len(attrcat[n])))
        \/ \E n \in Rels, which \in {"known", "unknown"} : DeleteFrom(n, which)
        \/ \E q \in Queries : Query(q) \/ Kills(QueryNodes(q))
  \/ BuildIndex
  \/ Quit

Step ==
  /\ \/ LookUp \/ GetRelInfo \/ CheckNew
     \/ AddRel \/ AddAttrs \/ AddOverlong \/ AddOverlong5
     \/ FileIsThere \/ CreateFile
     \/ DropAttrs \/ DropUnset \/ DropRel \/ UsedAfterDelete \/ DestroyFile
     \/ LoadTuples \/ Insert \/ Delete
     \/ Result \/ WhereUnknown \/ OpenForScan \/ NextTuple \/ InsertTuple \/ InsertTooWide \/ Scanned \/ PrintTuples
     \/ CloseRelCat \/ CloseAttrCat \/ Exit
  /\ UNCHANGED said

Failure ==
  /\ \/ CatalogFails \/ AddAttrsFails \/ CreateFileFails \/ DropAttrsFails \/ DestroyFileFails
     \/ LoadFails \/ InsertFails \/ DeleteFails \/ OpenFails \/ ScanFails \/ PrintFails
     \/ Crash
  /\ UNCHANGED said

Next == Command \/ Step \/ Failure

(* The process executes a command until it ends; nobody has to give one.   *)
Spec == Init /\ [][Next]_vars /\ WF_vars(Step)
-----------------------------------------------------------------------------
(* Properties.                                                             *)

(* A relation as it should be: not there at all, or with as many rows in   *)
(* attrcat as its row in relcat says and a heap file that nobody holds.    *)
Absent(n) == relcat[n] = 0 /\ attrcat[n] = <<>> /\ file[n].kind = "none"
Sound(n)  == \/ Absent(n)
             \/ /\ relcat[n] > 0 /\ Len(attrcat[n]) = relcat[n]
                /\ file[n].kind = "heap" /\ ~file[n].leaked

(* The catalogs and the files agree between commands, whatever failed and  *)
(* whenever the process ended, but for the relations that the failed       *)
(* command was about or that were changed in a session that did not end    *)
(* with quit.                                                              *)
DamageConfined == cmd = Idle => \A n \in Names \ harmed : Sound(n)

(* The result of a select without into does not outlive it.                *)
TempGone == cmd = Idle => Tmp \in harmed \/ Absent(Tmp)

(* "Destroys a relation ... Returns: OK on success" (destroy.C:6-14): after *)
(* that nothing is left of it, even if it was damaged (in phase 5, which   *)
(* goes by the count in relcat, if it was not); and a relation that was    *)
(* created is empty, whatever files there were.                            *)
OkMeansDone ==
  reply.status = "OK" =>
    /\ reply.op = "destroy" => Absent(reply.rel) \/ (phase = 5 /\ reply.rel \in harmed)
    /\ reply.op = "create" => file[reply.rel] = NewFile

(* In phase 5 a create that is refused removes "things already added to   *)
(* remain consistent" (phase5/create.C:92): the relation has no row in     *)
(* relcat, and no more rows in attrcat than before the command, which are  *)
(* those of a session that was lost.                                       *)
RefusedAddsNothing ==
  phase = 5 /\ reply.op = "create" /\ reply.status \in {"NAMETOOLONG", "FILEEXISTS"} =>
    relcat[reply.rel] = 0 /\ Len(attrcat[reply.rel]) <= reply.had

(* Every command ends, unless it selects from its own result.              *)
EndsUnlessIntoSource ==
  (cmd # Idle /\ cmd.rel \notin ToSet(cmd.from)) ~> (cmd = Idle)
=============================================================================
