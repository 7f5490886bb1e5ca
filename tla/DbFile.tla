------------------------------- MODULE DbFile -------------------------------
(***************************************************************************)
(* How a file keeps its pages (class File of phase6/db.C, the same in all  *)
(* phases): the header, page 0, says how many pages there are, which is    *)
(* the first one and where the list of free pages begins; a free page      *)
(* holds the number of the next.  Nothing of this is cached: every call    *)
(* reads the header and writes it back, as its last write.                 *)
(*                                                                         *)
(* A call that writes twice can be interrupted in between: its second      *)
(* write fails, or the process ends and another one opens the file.        *)
(***************************************************************************)
EXTENDS Integers, FiniteSets

CONSTANT MaxPages     \* bound: pages of the file, its header not counted

ASSUME MaxPagesAssumption == MaxPages \in Nat

PageNos == 1 .. MaxPages
NoPage  == -1
Links   == {NoPage, 0} \cup PageNos     \* what a first word is taken to be
NoCall  == [op |-> "none", page |-> NoPage]

VARIABLES
  header,     \* page 0 on disk, a DBPage
  word,       \* page -> its first word on disk, nextFree if the page is free
  size,       \* pages the Unix file has
  call,       \* the call that has done the first of its two writes
  given       \* pages that callers have: allocated and not disposed of

vars == <<header, word, size, call, given>>

(* File::create *)
Init == /\ header = [nextFree |-> NoPage, firstPage |-> NoPage, numPages |-> 1]
        /\ word = [p \in PageNos |-> 0]
        /\ size = 1
        /\ call = NoCall
        /\ given = {}

(* intread fails past the end of the file; intwrite moves the end. *)
Exists(p)   == p < size
SizeWith(p) == IF p < size THEN size ELSE p + 1
-----------------------------------------------------------------------------
(* allocatePage.                                                           *)

(* The first page of the list.  There is one write, that of the header. *)
TakeFree == /\ call = NoCall
            /\ header.nextFree # NoPage
            /\ Exists(header.nextFree)
            /\ header' = [header EXCEPT !.nextFree = word[header.nextFree]]
            /\ given' = given \cup {header.nextFree}
            /\ UNCHANGED <<word, size, call>>

(* Wrong: the new page is not written. *)
Extend_Unwritten == /\ call = NoCall
                    /\ header.nextFree = NoPage
                    /\ header.numPages \in PageNos
                    /\ call' = [op |-> "extend", page |-> header.numPages]
                    /\ UNCHANGED <<header, word, size, given>>

(* Wrong: the list is not looked at. *)
Extend_ListIgnored == /\ call = NoCall
                      /\ header.numPages \in PageNos
                      /\ word' = [word EXCEPT ![header.numPages] = 0]
                      /\ size' = SizeWith(header.numPages)
                      /\ call' = [op |-> "extend", page |-> header.numPages]
                      /\ UNCHANGED <<header, given>>

(* A new page past the end is written, zeroed; the header follows. *)
Extend == /\ call = NoCall
          /\ header.nextFree = NoPage
          /\ header.numPages \in PageNos
          /\ word' = [word EXCEPT ![header.numPages] = 0]
          /\ size' = SizeWith(header.numPages)
          /\ call' = [op |-> "extend", page |-> header.numPages]
          /\ UNCHANGED <<header, given>>

Extended == [header EXCEPT !.numPages = @ + 1,
                           !.firstPage = IF @ = NoPage THEN header.numPages ELSE @]
-----------------------------------------------------------------------------
(* disposePage.  Callers dispose of pages they have; no page number is     *)
(* looked for in the list.                                                 *)

(* Wrong: the first page is not refused. *)
MayDispose_First(p) == p \in given /\ p < header.numPages

(* BADPAGENO, which changes nothing, otherwise. *)
MayDispose(p) == p \in given /\ p # header.firstPage /\ p < header.numPages

(* Wrong: the head of the list is set before the link. *)
LinkOf_NewHead(p) == p

LinkOf(p) == header.nextFree

Dispose(p) == /\ call = NoCall
              /\ MayDispose(p)
              /\ Exists(p)
              /\ word' = [word EXCEPT ![p] = LinkOf(p)]
              /\ call' = [op |-> "dispose", page |-> p]
              /\ UNCHANGED <<header, size, given>>

Headed(p) == [header EXCEPT !.nextFree = p]
-----------------------------------------------------------------------------
(* The second write of either call, or none. *)
WriteHeader == /\ call # NoCall
               /\ IF call.op = "extend"
                  THEN header' = Extended /\ given' = given \cup {call.page}
                  ELSE header' = Headed(call.page) /\ given' = given \ {call.page}
               /\ call' = NoCall
               /\ UNCHANGED <<word, size>>

Interrupt == /\ call # NoCall
             /\ call' = NoCall
             /\ UNCHANGED <<header, word, size, given>>

(* writePage: a caller writes a page it has. *)
WritePage(p) == /\ call = NoCall
                /\ p \in given
                /\ \E w \in Links : word' = [word EXCEPT ![p] = w]
                /\ size' = SizeWith(p)
                /\ UNCHANGED <<header, call, given>>

Next == \/ TakeFree \/ Extend \/ WriteHeader \/ Interrupt
        \/ \E p \in PageNos : Dispose(p) \/ WritePage(p)

Spec == Init /\ [][Next]_vars
-----------------------------------------------------------------------------
(* Properties.                                                             *)

(* Every variable has its type; the list never leads to the header or the  *)
(* first page, and only pages of the file are given out.                   *)
TypeOK == /\ header \in [nextFree : {NoPage} \cup 2 .. MaxPages,
                         firstPage : {NoPage, 1}, numPages : 1 .. MaxPages + 1]
          /\ word \in [PageNos -> Links]
          /\ size \in Nat
          /\ call \in [op : {"none", "extend", "dispose"}, page : Links]
          /\ given \subseteq 1 .. header.numPages - 1

(* Every page the header counts is in the file, also after a call was      *)
(* interrupted: reading a page that is allocated or free does not fail.    *)
PagesExist == header.numPages <= size /\ size <= header.numPages + 1

(* The first page of the file is page 1 and is never given back, so the    *)
(* header keeps leading to it (db.C:305-311).                              *)
FirstPageStays == IF header.numPages = 1 THEN header.firstPage = NoPage
                  ELSE header.firstPage = 1 /\ 1 \in given

Free == (1 .. header.numPages - 1) \ given

(* c leads from head through every page of S once, and ends. *)
IsList(c, S, head, next) ==
  LET n == Cardinality(S)
  IN  /\ c[0] = head
      /\ \A i \in 0 .. n - 1 : c[i] \in S /\ next[c[i]] = c[i + 1]
      /\ \A i, j \in 0 .. n - 1 : c[i] = c[j] => i = j
      /\ \A p \in S : \E i \in 0 .. n - 1 : c[i] = p
      /\ c[n] = NoPage

HasList(S, head, next) == \E c \in [0 .. Cardinality(S) -> Links] : IsList(c, S, head, next)

(* The list of free pages, followed on disk, ends, has every page once     *)
(* that no caller has, and no other.  So no page is given to two callers   *)
(* and none is lost, wherever calls are interrupted.                       *)
FreeListSound == HasList(Free, header.nextFree, word)

(* The file behaves as BufMgr.tla takes it to: pages given out were free,  *)
(* and it grows only when none is.                                         *)
FP == INSTANCE FilePages WITH numPages <- header.numPages, free <- Free
PagesSpec == FP!Spec
=============================================================================
