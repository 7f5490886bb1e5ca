# Minirel, modelled

Minirel is the small relational database of a database course: four growing
phases of one C++ program (`src/phase3` to `src/phase6`). Phase 3 is a buffer
manager with its test, phase 4 adds heap files, phases 5 and 6 add catalogs,
utilities, query operators and a parser. Buffer manager, pages and files are nearly
the same code from phase 4 on; phase 6 is the reference here unless a module says
otherwise.

## 1. The system

    parser, interp.C   ->  UT_* utilities, QU_* operators, joins
                           |            |              |
                       catalogs     heap files    sorted files
                           \            |              /
                            buffer manager (one pool)
                                        |
                            files (DB, File): Unix files of 1 KB pages

The process has one thread. What interleaves is not threads but users: several
scans, inserts, catalogs and sorts are open at once, hold pointers into the one
buffer pool, and their calls follow each other in any order. The hazards are
therefore long legal call sequences, steps that fail half-way (most error paths
return without undoing anything), state that is cached in a scan or a frame and
used after somebody else has changed the page, and what survives the end of the
process.

| component | state | operations | what makes it correct |
|---|---|---|---|
| buffer manager `buf.C`, `buf.h` | frame descriptors (file, page, pin count, dirty, valid, refbit), frames, clock hand | `readPage`, `unPinPage`, `allocPage`, `flushFile`, `disposePage`, constructor, destructor | caching is invisible; no frame is taken from a user; no page twice in the pool; nothing dirty is dropped |
| page table `bufHash.C` | (file, page) -> frame | `insert`, `lookup`, `remove` | agrees with the descriptors |
| files `db.C` (`File`) | header page (free list, first page, page count), pages on disk, open count | `create`, `destroy`, `open`, `close`, `allocatePage`, `disposePage`, page reads and writes | the free list is a list; no page is given twice |
| open files `db.C` (`DB`) | name -> File object | `createFile`, `destroyFile`, `openFile`, `closeFile` | a file with users is not destroyed; no frame outlives its File |
| pages `page.C` | slot array, free pointer, free space, next page | `insertRecord`, `deleteRecord`, `firstRecord`, `nextRecord`, `getRecord` | a record stays where its RID says; space adds up |
| heap files `heapfile.C` | header page (first, last, page and record counts), chain of pages, the pinned current page of each object | create/destroy, `getRecord`, scans with mark and reset, delete through a scan, `insertRecord` | every record is found exactly once; counts agree; pins are given back |
| heap files of phase 4 (a student's version) with `testfile.C` | the same | the same; twenty-one tests | no check of the program reports anything |
| buffer manager of phase 3 with `testbuf.C` | the same, and the chains of the page table | the same; seventeen loops of calls | chains lead to the right frames; all tests pass |
| sessions: catalogs `catalog.C`, `create.C`, `destroy.C`, utilities `load.C`, `print.C`, `help.C`, queries `select.C`, `insert.C`, `delete.C`, `quit.C` | `relcat`, `attrcat`, the files of relations; what of them is on disk | every command of the interpreter | catalogs and files agree, also after an error or the end of the process; answers are true; commands end |
| parser and interpreter `parser/` | a pool of nodes | statements; aliases; the result of a query | a statement means the relations it names |
| sorted files `sort.C` | runs in temporary files, a scan and a look-ahead for each, marks | `SortedFile`, `next`, `setMark`, `gotoMark` | the merge gives every record once, in order, from a mark too |
| joins `join.C`, `joinHT.C` | outer and inner tuple, hash table, two sorted files | nested loops, sort-merge, hash join | the relational join, no pair lost or invented, and an end |
| `partition.C`, `error.C`, `dbdestroy.C` | - | - | not modelled |

They interact by calls only. Shared state is the buffer pool, through `Page*`
pointers that users keep while they hold a pin, the table of open files, and the
Unix files. There are no callbacks, threads, messages or timeouts.

## 2. The modules

| module | models | kind |
|---|---|---|
| `PageStore` | what users of the buffer manager may rely on: pages with one value each | abstract |
| `BufMgr` | `buf.C`, `bufHash.C`, and `db.C` as far as they call it | detailed, implements `PageStore` |
| `ClockSweep` | the loop of `allocBuf`, one frame at a time | algorithm, run on every state of `BufMgr` |
| `FilePages` | what `BufMgr` takes a file to be | abstract |
| `DbFile` | `File` of `db.C`: header, free list, two writes per call | detailed, implements `FilePages` |
| `RecordPage` | records by slot | abstract |
| `SlottedPage` | `page.C` down to the bytes | detailed, implements `RecordPage` |
| `RecordFile` | records by RID, and their count | abstract |
| `HeapFile` | `heapfile.C`: several objects on one file | detailed, implements `RecordFile` |
| `Parser` | nodes, names and aliases of statements | operators |
| `Minirel` | sessions: commands as lists of calls, catalogs, files, the end of the process; phases 5 and 6 | composition over `Parser` |
| `Compare` | how values are compared, in four places of the code | operators |
| `SortRuns` | runs of a sort and their merge | operators over `Compare` |
| `SortedSeq` | records in order, with a position to return to | abstract |
| `SortedFile` | one sorted file and its caller | detailed, implements `SortedSeq` |
| `Joins` | `QU_Join` by its three methods | composition over `SortRuns` |
| `HeapFile4`, `TestFile` | heap files of phase 4; the program that tests them | operators; the program |
| `BufMgr3`, `TestBuf` | buffer manager of phase 3; the program that tests it | operators; the program |

`MC*.tla` and the `.cfg` files instantiate them for TLC; `*_proofs.tla` hold the
proofs (that of `ClockSweep` is in `BufMgr_proofs`), `NatLemmas.tla` lemmas they
share.
`BufMgr` uses the file layer as `FilePages` promises it, `HeapFile` uses pages as
`RecordPage` and the pool as `PageStore` promise them, `Joins` uses heap files as
`RecordFile` does; each promise is what the module below is shown to keep.
Comments marked "Wrong:" introduce variants of definitions with a plausible bug,
which show that the properties notice it.

### BufMgr

A frame is a `BufDesc`; file and page number are one field, the page table is a
function from pages to frames. One action per call, with an action of its own
for each way out: `ReadHit`, `ReadMiss`, `ReadWithoutFrame`, `ReadFails`;
`UnPinPage`; `AllocPage` and its failures; `FlushFile`, which stops at the first
frame that is pinned (`Blocks`) after it has written those below it;
`DisposePage`; and `Restart`, the destructor and the next process. `allocBuf` is
in closed form: `Candidates` are the looks of the clock at which it can stop,
`Victim` is the first, `Swept` says which reference bits have been turned off.

`held` and `owed` are not in the code. They are what its users know: which
pointers they hold, and which pages they have written to and not yet unpinned as
dirty. Properties compare the pool with them. Users unpin only what they hold and
declare what they wrote; `HeapFile` shows that heap files do (`PinsAreObjects`,
`WritesDeclared`). `Departures` lets users and disks do worse: read pages that
the file does not have (as `testbuf.C:198` does), dispose of the first page, fail
to read or write. A failed read may leave anything in its frame.

### ClockSweep

`Look` is the body of the loop, `SweptClock` what the loop ends with.
`EndsAtVictim` runs it on every pool that `BufMgr` reaches and compares: the same
frame, the same number of looks, the same reference bits, the same failure.

### DbFile

The header page and the first word of every page on disk, which is the link if
the page is free. A call that writes twice (`Extend`, `Dispose`) is two actions,
and `Interrupt` in between is either the second write failing or the end of the
process. Users may write anything into the first word of a page they have.
`FreeListSound` follows the links on disk.

### SlottedPage

Slot array, free pointer, free space and the bytes. The code indexes slots with
0, -1, -2, ...; the module uses the slot numbers of RIDs. `Moved` are the slots
that a deletion shifts; `SlotCntWithout` is the loop that shrinks the array.
`firstRecord` and `nextRecord` are the loops that step over empty slots
(`SkipEmpty`), and `Walk` is what a caller sees who goes on until there is none.

### HeapFile

The members of each open object (`curPage`, `curPageNo`, `curDirtyFlag`,
`hdrDirtyFlag`, `curRec`), the header page, the records of each data page and its
link, pin counts and `owed` as in `BufMgr`. One action per member function and
way out. `todo` and `seen` are not in the code: for each scan they record what
it has yet to return and what it has. A filter is the set of values that match;
how it compares is in `Compare`. A step is a whole call: the objects are used by
one thread. An `unPinPage` that fails in the middle of a scan or an insert, which
only happens after a read has failed, is not told apart from one that succeeds.

### Minirel and Parser

A command is a list of steps (`cmd.todo`), one for each call of a lower layer,
and between two of them, or in one, a call may fail or the process may end.
`relcat` and `attrcat` are what the catalogs hold, `disk` what of them has been
written. The catalogs are heap files that the program keeps open, so their pages
reach the disk when `UT_Quit` closes them, one after the other (`CloseRelCat`,
`CloseAttrCat`, `Exit`). Every step that fails does what the code does after that
error: it returns, goes on, forgets the status, or aborts. `harmed` is not in the
code: it collects the relations that something has gone wrong for, and the
properties promise nothing of them except where they say so.

`phase` is the version that runs. Phase 5 has catalogs of its own: it reads as
many rows of attrcat as relcat says (`RowsRead5`; what is missing is `Unset`
memory), takes a refused create back (`TakeBack`), and may leave relcat open when
a lookup finds nothing, or when a catalog refuses a row (both phases), so that quit
writes it with the pool. Taking back removes as many rows as the relcat row that
has just been written counts, from the first on: rows that an earlier, lost session
has left of the same relation are removed in place of the new ones. `had` is not in
the code: it remembers how many rows there were before the command. Its select, insert
and delete are stubs and are left out.

A relation's tuples are counted up to `Many`, not looked at; a scan says of each
whether it matches. Reserved names, the suffixes that distinguish attributes of a
result, and syntax errors (after which nothing has changed) are not modelled;
statements with too many attributes are refused first and are left out, those
with too many nodes end the process (`Kills`). `yyrestart` and the pool of
characters are not modelled. New rows of
attrcat are appended, although `InsertFileScan` uses free slots of the last page
again; their order matters only for damaged relations. An object on a file that is
missing, half made, or cannot be opened (`OpenFails`) has unset members; what
follows is an error, with or without the object left open, or the end of the process
(`BadObject`). So may be the end of the phase 6 `dropRelation` (`UsedAfterDelete`),
which closes its scan after it has deleted it. An attribute that is qualified is
looked for in the relation it is qualified with (`Known`); one of the condition that
is not there ends the query after its result has been made (`WhereUnknown`).

### Compare, SortRuns, SortedFile, SortedSeq

The filter of a scan, the sort, the merge and the hash table each compare values
in their own way. `Compare` has the four: ints of `WordSize` bits (`Ints`) whose
difference wraps, floats counted in halves whose difference the merge truncates,
strings that fill their attribute and have no terminator. `SortRuns` is the
merge: `Fetched` looks ahead in a run, `NextOf` is `next`, `SetMark` and
`GotoMark` save and restore every run. A scan whose call has failed is without its page
(`lost`): the next call begins the run again, or takes it to have ended if it was
the unpin that failed (`Behind`), and a return to a mark on that page
reads through a null pointer (`Crashes`). After a failed `gotoMark` a run may be
anywhere (`Astray`). `SortedFile` adds the constructor, the destructor, temporary
files and errors: a failed sort leaves its source or runs open (0 in `open` is the
source). From the first call that fails on, its object is `"astray"`: its caller
may go on, and `SequenceSpec` promises nothing more.

`generateRun` destroys the run file it has just created and relies on
`InsertFileScan` to create it again (the comment at `sort.C:241`), which that class
does not do: in this repository every sort of a relation with records fails.
`Creates` says which of the two is modelled. With `FALSE` the failing sort and
its clean-up are checked; with `TRUE` the merge, which otherwise no one could
reach.

### Joins

`QU_Join` one tuple at a time. `result` counts how often a pair has been output.
Errors are as in the code: whatever is not OK is the end of a relation, a scan
that cannot be opened ends the join, a result that cannot be inserted aborts, the
status of `gotoMark` is not looked at: when it fails, the merge goes on with
whatever is in memory (`astray`), or ends the process (`GoBackCrashes`). Deleting a sorted file whose constructor
has failed follows a pointer that was never set, so that the process may end
(`"dead"`).

### HeapFile4 and TestFile, BufMgr3 and TestBuf

Phases 3 and 4 come with the programs that test them, and these are modelled
whole: a test is a record that says what it does, a step is one round of its
loop (`TestFile`) or one call (`TestBuf`). `HeapFile4` has the operations of heap
files, pages and files as functions from one state to the next. Its buffer pool
is the most pressing one there can be: a page that nobody has pinned is gone,
written if it is dirty. So a page that is used without a pin, or changed without
being declared dirty, is noticed. `BufMgr3` has the page table chain by chain,
which `BufMgr` takes to be a function, and the clock. `Without` is what is left of a
chain when `flushFile` has removed the pages of a file. `Address` is the int that a
pointer to a `File` is made into, and may be any; `hash` is the remainder as C has
it, which for a negative sum is 0 or negative. `Placements` are the ways in which the
program's four files get `File` objects. A call that hashes a page to a chain that is
not there, or overflows on the way (not `Defined`), ends in the outcome
`"undefined"`, of which nothing more is said (`DoUndefined`).

## 3. The runs

| run | instance | what it asks |
|---|---|---|
| `pool` | 2 frames, 1 file of 3 pages, 2 values; 2 pins at a time, on one page or on two | `TypeOK`; no page twice (`FramesHashed`); pins are users' pointers (`PinSound`); clean frames equal the disk (`CleanOnDisk`); `StoreSpec` |
| `departures` | 2 frames, 3 pages of one content, 2 pins at a time; every departure | what still holds: `HashSound`, `ExceededOnlyWhenPinned`; the loop of the clock (`EndsAtVictim`) |
| `page` | 8 bytes, slots of 1, records of 1 and 2 bytes | `SpaceAddsUp`, `Compact`, `WalkComplete`, `RecordsSpec` |
| `file_pages` | 4 pages | `PagesExist`, `FirstPageStays`, `FreeListSound`, `PagesSpec` |
| `heap_file` | a marked scan that selects one value, an insert scan; 2 data pages of 2 records, 2 values; allocations fail, long records | `WritesDeclared`, `ChainSound`, `CountSound`, `PinsAreObjects`, `ScanComplete`, `FileSpec` |
| `two_scans` | two scans and an insert scan | `ScanComplete`, `ScanOnce` |
| `failures` | a `HeapFile`, a scan and an insert scan on pages of one record; every read may fail, scans go on after `endScan`, records are deleted twice | `HeaderHeld` |
| `minirel` | 2 relations, 5 attributes, 4 commands, phases 5 and 6, one thing goes wrong at most | `DamageConfined`, `TempGone`, `OkMeansDone`, `RefusedAddsNothing`, `EndsUnlessIntoSource` |
| `sorted_file` | up to 4 records in runs of 2, three types; one call fails, and its caller goes on | `SequenceSpec` |
| `joins` | relations of up to 2 tuples (3 for the inner one of the merge), three types, three methods, all operators for nested loops, one call fails | `NothingInvented`, `JoinComplete`, `JoinEnds` |
| `test_file` | 20 records, 3 on a page; 8 patterns of lengths; with and without an old file | `ChecksHold`, `ClosedUnpinned`, `TestEnds` |
| `test_buf` | 9 frames, 3 chains; any page drawn at random; `File` objects at positive and negative ints, in one placement a page hashes to -1, in one the sum overflows | `HashRight`, `PassesAllTests` |

Why the bounds are enough. Three pages and two frames make the pool evict, and
evict a page that comes back; with fewer pages than frames nothing is ever
evicted. Two pins are two users of one page, who write and unpin it in any order, or
two pinned frames, so that no frame is free. Two frames and four looks have pinned, referenced and invalid frames on
both sweeps of the clock. Four pages make a free list of three links, with the
first page never on it. A page of eight bytes holds three records, so that one
lies between two others, slots are used again out of order, and `nextRecord` has two
empty slots in a row to step over. Two data pages
with two records each have a link to follow, a slot before and one after the
current one, and a page that becomes full, empty and full again. Two values make
a filter that lets some records through and not others.

In `minirel` the attributes are of 255 bytes: four pass `createRel`'s check of
PAGESIZE and fit on no page, so that a relation exists into which nothing can be
inserted. A pool of 16 nodes is exceeded by the longest creates, inserts and queries. Four commands are
enough to create, damage, end the session and try again. In `sorted_file` two
runs of two are merged in every interleaving, and a run ends while the other goes
on. In `joins` two ints have a difference that is no int, two floats one of less
than 1, one string fills its attribute; three inner tuples make two runs;
duplicates lie on both sides; blocks of one are full, of two not always.
`test_file` keeps the proportions of the program (tens, quarters, ranges of the
number of records) and fills seven pages; the lengths of the variable records
repeat after three, so that records end at every place of a page. `test_buf` has
as many pages as frames, as the program does, and chains of several entries; a
negative address with which every page hashes into the table, one with which a page
does not, and one that is too large.

`SYMMETRY` exchanges the two values in `heap_file` and the two scans in
`two_scans`; no definition tells them apart, and the temporal properties of these
runs are about steps, not about eventualities. The deadlock check is off where programs and sessions
end: `minirel`, `sorted_file`, `joins`, `test_file`, `test_buf`.

The bounds in guards are `MaxPages` and `MaxPins` (pins on all pages together) of
`BufMgr`, `MaxPages` of
`DbFile`, `HeapFile` and `BufMgr3`, `Marked` (which scans are marked), the lower
end of `recCnt` in `DeleteAgain`, which could fall for ever, `MaxRecs`,
`MaxTroubles`, `MaxCommands` and `Many`.

### Liveness and fairness

Four modules state `WF_vars(Step)`, or `WF_vars(Next)` where there is nothing but the
program: `Minirel`, `Joins`, `TestFile` and `TestBuf`.
The program is one process that waits for nobody; a command, a join or a test
that has begun is executed until it returns. Nothing else is fair: no user has to
give a command (`Command` is not part of `Step`), and no failure has to happen or
to stay away. What is shown:

- `EndsUnlessIntoSource`: every command ends, whatever fails, unless it selects
  from the relation it inserts into. That one may find its own tuples ahead, and
  TLC shows an execution that never ends when the exception is taken out.
- `JoinEnds`: every join ends, or its process does, except the hash join of tuples that are too wide
  for a page (`blockSize` 0) when the inner relation is empty: its loop then never
  reads an outer tuple and never learns of the end. With an inner tuple it divides
  by zero.
- `TestEnds`, `PassesAllTests`: the two programs end with every test passed, and
  with no file of theirs left; `testbuf.C` unless one of its `File` objects is at an
  address with which a page hashes outside of the table.

The layers below have no waiting and no retrying; the one loop whose end is not
obvious, the clock's, is counted in `ClockSweep`.

### Refinements

`StoreSpec` (a pool is a store of pages), `RecordsSpec` (a page is a set of
records by slot), `PagesSpec` (a file is a set of pages given out), `FileSpec` (a
heap file is a set of records by RID) and `SequenceSpec` (a sorted file is a
sequence with a position) are each the abstract module, instantiated with the
mapping written above the property, as a PROPERTY of the detailed one. The
mapping of `SequenceSpec` counts, over all runs, the records before the scans and
before the marks; it breaks if a look-ahead is counted twice or lost.

## 4. What is proved

Theorems hold for every value of the constants that the named assumptions of a
module allow: any number of frames, files, pages, pins, bytes, slots, objects,
records, relations, attributes, tuples, commands and failures. Where a theorem has a
hypothesis on `Departures` or `Lengths`, the code needs it: the differences of
section 5 are what happens without.

- **Buffer manager** (`BufMgr_proofs`). Without any assumption on users and
  disks: types (`TypeCorrect`), the page table leads only to valid frames with
  the right page (`TableSound`), a full pool is one of pinned frames
  (`ExceededWhenPinned`). With `Departures = {}`: no page twice and no frame lost
  to the table (`PoolMatchesTable`), pin counts are users' pointers
  (`PinsAreSound`), clean frames equal the disk (`CleanIsOnDisk`). The last three
  lean on each other: a page is clean only if the table knows its frame, and a
  pin count is right only if no frame was taken from a user. `Coherent` is their
  conjunction with the types, with what users owe; it is inductive, and they are
  read off it. `PoolImplementsStore`: the pool with its disk is a `PageStore`
  under the mapping that takes a page's value from its frame if it has one, and
  from the disk if not. Every call maps to the step of the store it is named after
  or to a stutter; evictions, flushes and restarts stutter.
- **Clock** (`BufMgr_proofs`, its last part). `LoopEndsAtVictim`: on any pool, with any number
  of frames, the loop of `allocBuf` ends at the frame, with the reference bits, or
  with the failure that `BufMgr` says. What the loop has done after k looks is
  written in closed form (`Passed(k)` while it has found nothing, `Taken(k)` from
  its victim on) and shown look by look, with `SetInduction` over the numbers of
  looks.
- **Pages** (`SlottedPage_proofs`). Types, `SpaceAddsUp`, `Compact`, and
  `PageImplementsRecords`. `Sound` is the inductive invariant: space adds up
  (`SpaceAddsUp`), every record lies before `freePtr` (`Placed`), two do not
  overlap (`Apart`), and no byte is between them (`Covered`). Without the last,
  closing a gap would not be known to leave the free pointer at the end.
  `PageWalkComplete`: who calls `firstRecord` and then `nextRecord` until there is none
  comes to every record once, in order, if only records with bytes are inserted. The
  loops are followed from the end of the array: where `SkipEmpty` stops is the next record
  or the end of the array, and the walk goes on from there.
- **Files** (`DbFile_proofs`). Types, `CountedPagesExist`, `FirstPageIsKept`,
  `ListIsFreePages`, `FileImplementsPages`. `Sound` adds to them what is known
  between the two writes of a call (`CallSound`): the new page is on disk, or the
  disposed page has its link and is still its user's.
- **Heap files, objects** (`HeapFile_proofs`). Whatever fails: types
  (`HeapFileTypes`), and the header stays pinned for every open object
  (`HeaderIsHeld`). `TypeInv` joins to them that the links and all objects point
  to pages of the file (`FileSound`, `ObjectsSound`). If reads succeed, pins are
  those of objects (`PinsAreThoseOfObjects`) and no write is forgotten
  (`WritesAreDeclared`); the two are inductive together with `OwedSound`, that
  every page owed has an object that will unpin it as dirty. A failed read leaves
  `curPage` at a page that is no longer pinned, hence the hypothesis.
- **Heap files, records** (`HeapFile_proofs`, its second part). If reads succeed: the chain has all
  pages it should and no record lies outside (`ChainIsSound`); scans that are not
  used after `endScan` return every record that was there (`ScansAreComplete`), none
  twice (`ScansReturnOnce`); and if none deletes twice, the header counts the
  records (`CountIsSound`) and a heap file is a `RecordFile`
  (`HeapFileIsRecordFile`). `GoodInv` says where objects are: at pages of the
  chain, an inserter at its last (`PlacesSound`). `GoodScans` says of a scan that
  what it has returned lies before its position, and what it owes after
  (`ScansSound`). Links lead to pages with higher numbers, which orders the chain;
  what can be reached from a page is characterised as a set (`From`), so that what
  a new page adds to it needs no recursion beyond `SetInduction`.
- **Sessions** (`Minirel_proofs`). Types (`SessionTypes`), `DamageIsConfined`,
  `TempIsGone`, `OkIsDone` and `RefusedAddsNone`, for both phases and with any number
  of commands, errors and ends of the process. They say little of what there is while a command runs; `SessionInv`
  adds that. The steps left of a command are the end of a plan (`Planned`,
  `Ordered`). `Midway` says for each next step what has been done: if nothing has
  gone wrong, which of relcat, attrcat and file are there (`HalfDone`); in phase
  6, whatever has gone wrong, what a destroy has dropped (`AllDropped`), as it
  stops at its first error and `OkMeansDone` promises something of damaged
  relations too. All other relations are as between commands (`AtRest`).
- **Joins** (`Joins_proofs`). Whatever fails, unless it is `gotoMark`, a join puts only
  pairs that match into its result, and none twice (`NothingIsInvented`); if it returns OK and no call has
  failed, all of them (`JoinsAreComplete`). Both are about joins that are `Faithful`
  (section 5). `JInv` says at each `pc` which pairs the join has still to come to
  (`Ahead`): of these none is in the result (`Fresh`), of the others that match all
  are (`AllFound`). To know that a step moves a pair from one to the other once,
  `TableRight` says that the entries of a hash table are outer tuples that have been
  read, each in the bucket of its value; `RunsRight`, that no tuple is in two places of
  the runs, and the tuples in hand have been taken out of them; and `InMerge`, that
  runs are in order, and inner tuples to which the mark does not lead back are
  smaller than the outer tuple. Below it are lemmas
  about each comparison of `Compare`, and about the merge: what `NextOf`, `SetMark`
  and `GotoMark` do to the set of records that runs have left. The recursive
  functions of `SortRuns` are shown to have a solution, by `SetInduction`, before
  anything is said of their values.
- **Buffer manager of phase 3** (`TestBuf_proofs`). `TableStaysRight`: all along
  `testbuf.C`, for a pool of any size, any number of chains and `File` objects at any
  ints, entries are in their chains and lead to the frames of their pages, no page
  has two, and pinned frames are found, until a page hashes outside of the table.
  That it never comes to this if the pages of the four objects hash into the table
  is `OnlyOutside`, a part of the invariant. This holds for this program, not for any
  caller: its read past the end of a file leaves a frame that no entry leads to, and
  to evict it later could remove the entry of another frame. `TestInv` says that a
  valid frame has its own entry or its page has none (`OwnOrLost`), so that nothing
  wrong is removed, and that a frame can be lost only between that read
  (`Absent`) and the loop that finds all frames pinned (`LostWhen`), where the program
  reads no page. That new pages are in no frame (`Below`) keeps a page from having two
  entries. The calls of every loop are gone through once (`PartsFit`).
- **Lemmas** (`NatLemmas`). Remainders, division into pieces, least and greatest
  elements, and `SetInduction`: a set of naturals that contains 0, and with each
  number the next one, contains all of them.

Types of pages, files, heap files and sessions are proved and have no run of their
own. Three assumptions on constants are there for proofs. At most one object inserts
into a file at a time (`InsertersAssumption`): catalogs, loads, inserts and results
each delete theirs before another is made, and the one that a failed load leaves
open (`load.C:69`) is never used again; that it keeps its page pinned is not
modelled. A query has attributes (`ListsAssumption`), as the grammar asks for
(`non_mt_qualattr_list`). The values of an INTEGER attribute are ints of the machine
(`QueriesAssumption`), since a tuple holds nothing else.

Only model-checked are

- what is live: `EndsUnlessIntoSource`, `JoinEnds`, `TestEnds` and `PassesAllTests`.
  Liveness under fairness is out of the provers' reach;
- `SequenceSpec`: the mapping to `SortedSeq` orders all records of all runs, which
  the sorted file never has together. That a merge returns what is left of its
  runs, the smallest first and each once, also after a return to the mark, is proved
  in `Joins_proofs`;
- `ChecksHold` and `ClosedUnpinned` of `TestFile`: one program, whose course does not
  depend on anything but the lengths of records. A proof would follow its
  twenty-one tests one after the other, as TLC does. What heap files promise any
  caller is proved for phase 6 (`HeapFile_proofs`).

Induction over data is out of the provers' reach too, except over a set that can be
named beforehand, as in `SetInduction`.

## 5. Differences between code and comments

Met while modelling; the model does what the code does.

- `readPage` takes its victim out of the page table before the disk read that may
  fail (`buf.C:155`) and leaves the frame valid. `buf.h` says that the table tells
  whether a page is in the pool; afterwards it does not, and a second copy can be
  read. With "read fails" `FramesHashed` does not hold; `HashSound` still does.
- After a failed read in `getRecord`, `resetScan` or the constructor of
  `InsertFileScan`, `curPage` is not the pinned page that `heapfile.h:45-46` says
  it is, and the destructor unpins once too often (`heapfile.C:194`). With "read
  fails" `PinsAreObjects` does not hold; `HeaderHeld` still does.
- Records of 1001 to 1004 bytes pass the length check (`heapfile.C:513`) whose
  comment says "will never fit on a page, so don't even bother looking", and add
  an empty page at every attempt.
- The constructor of `HeapFile` ignores failed reads (`heapfile.C:111`). On a good
  file, an `InsertFileScan` whose read of the last page fails appends behind the
  first page and drops the pages between from the chain; this is not modelled.
- A create that finds a file opens it and does not close it (`heapfile.C:15`): the
  file cannot be destroyed in that session.
- `UT_Load` returns on a failed insert with its scan open (`load.C:69`).
- A delete with an unknown attribute reports OK and deletes any records
  (`delete.C:62`: the status of `getInfo` is not kept), where the comment promises "an
  error code otherwise" (`delete.C:23-29`).
- A create that is taken back in phase 5 removes the first rows of its name, which
  may be those of a lost session, and leaves the rest (`destroy.C:74-85`,
  `catalog.C:380-396`); `RefusedAddsNothing` is that there are no more than before.
- `dropRelation` of phase 6 calls a scan that it has deleted (`catalog.C:88-89`).
- `sort.C:241` says that opening a scan "will also create the temporary file".
  See section 2.
- A `scanNext` of phase 5 that fails to read or to unpin leaves the scan without a
  page (`phase5/heapfile.C:356-365`). The next call begins again at the first page, or
  finds the end (`302-317`): a sorted file whose caller goes on after an error gives
  records again, or leaves the rest of a run out, where `sort.h:29` says "fetch
  next record in sort order". After a return to a mark on the page that it has not got,
  the record is read through a null pointer. `SequenceSpec` ends at the first error.
- The merge takes the status of `gotoMark` for granted (`join.C:261`): a record in
  memory after one that failed stands for some record of the run, and pairs may be
  missing, twice, or not match. `NothingInvented` is about joins in which it does not
  fail. `setMark` before the first
  `next` makes all runs look ended after `gotoMark`; a sorted file that could not be
  built is deleted through an `inFile` that was never set, and destroys files by
  the names of its runs, whoever made them. In a join of a relation with itself
  both sorts use one name, and the second ends with FILEEXISTS.
- A join takes attributes by the name of their relation (`join.C:141`): in a join of
  a relation with itself, both come from the outer tuple. The sort-merge join does
  not look at the operator. Its `matchRec` truncates the difference of two floats
  (`join.C:577`), differences of ints overflow, and strings that fill their
  attribute are compared past their ends. `Faithful` names the joins that are as
  they should be, and the properties are about these.
- `hash` of phases 3 to 6 takes the remainder of an int made of a pointer and may be
  negative, not "between 0 and HTSIZE-1" (`buf.h:24`), if bit 31 of the
  address of a `File` object is set. `TestBuf` has these objects and ends as undefined
  when such a page is hashed; the page table of phase 6, a function in `BufMgr`, is
  modelled as if `hash` were right.
- An insert of phase 4 at a page that is not the last unpins the last page, not its
  own (`phase4/heapfile.C:550`); `HeapFile4` does so too, `testfile.C` never gets
  there.
- In phase 3 a failed read leaves a frame without an entry, whose later eviction may
  remove the entry of another frame (`phase3/buf.C:172`). `testbuf.C` makes such a
  read and passes, because it does not come back to the page that was evicted.
- `allocPage` "allocates a new, empty page" (`buf.h:126`), but the frame still
  holds the bytes of the page before; callers must `init` it, and do.
- `insertRecord` of a page accepts length 0; `getRecord` and `deleteRecord` take
  such a slot for unused (`page.C:116`, `246`). No caller inserts such a record.
- `scanNext` after `endScan` ends at once if the first page has no records, with
  records on later pages (`heapfile.C:318-326`). `ScanComplete` fails with the
  departure "scan again"; no caller scans again.
- `deleteRecord` of a scan counts a record even if it was no longer there
  (`heapfile.C:405`). `CountSound` fails with "delete again"; no caller deletes
  twice.

## 6. Not modelled

- Text in and out: characters of statements, error texts, the layout of what is
  printed. `dbdestroy` is a call of `rm`. Statistics (`BufStats`), `printSelf`,
  `dumpPage`.
- `partition.C`: no part of the program makes a `Partition`.
- Phase 4: `markScan`, `resetScan`, `markDirty`, `getRecCnt`, and failing reads and
  writes, which its program does not use; what an aborted run of `testfile.C` leaves
  in `dummy.03` and `dummy.04`, on which the next run goes on with an object in an
  undefined state. Phase 3: `disposePage` and errors of the disk. For phase 6 these
  are in `BufMgr` and `HeapFile`.
- The table of open files is a map, not a hash table.
- Evictions of pages of the catalogs while a session lasts, which would bring some
  of their changes to the disk before quit.
- What tuples contain, in `Minirel`; `Joins` and `Compare` have the values.
- Undefined behaviour after the constructor of `HeapFile` ignores a failed read on a
  good file.

Much of the source is not mapped because phases repeat it: `db.C` and `page.C` are
nearly the same in all four, `heapfile.C` of phase 5 is that of phase 6, `buf.C` of
phase 4 is that of phase 6, `sort.C` and `joinHT.C` of phase 6 are those of phase 5,
and the parser of one is that of the other. A definition is mapped to one of them.
The rest are test data, output and generated code.

## 7. Plan

What is left:

1. `SequenceSpec`: that the mapping is the one of a sequence can be proved from the
   lemmas on runs of `Joins_proofs`, once the order of all records is characterised
   by the set of records before each.
2. The state of `TestFile` between two of its tests, from which `ClosedUnpinned`
   follows.
