--------------------------- MODULE DbFile_proofs ---------------------------
(***************************************************************************)
(* Theorems about the pages of a file, for files of any size and calls     *)
(* interrupted anywhere.                                                   *)
(***************************************************************************)
EXTENDS DbFile, NatLemmas

(* What a call that has done its first write has found and left. *)
CallSound ==
  \/ call = NoCall
  \/ /\ call.op = "extend"
     /\ call.page = header.numPages /\ header.numPages \in PageNos
     /\ header.nextFree = NoPage
     /\ size = header.numPages + 1
  \/ /\ call.op = "dispose"
     /\ call.page \in given /\ call.page # header.firstPage
     /\ word[call.page] = header.nextFree

(* The inductive invariant. *)
Sound == TypeOK /\ PagesExist /\ FirstPageStays /\ FreeListSound /\ CallSound

-----------------------------------------------------------------------------
(* Lists.                                                                  *)

(* Without its first page a list is a list of the others. *)
LEMMA ListTail ==
  ASSUME NEW S, IsFiniteSet(S), NEW head, NEW next, HasList(S, head, next), head # NoPage
  PROVE  head \in S /\ HasList(S \ {head}, next[head], next)
<1> DEFINE n == Cardinality(S)
<1>1. n \in Nat
  BY FS_CardinalityType
<1>2. PICK c \in [0 .. n -> Links] : IsList(c, S, head, next)
  BY DEF HasList
<1>3. /\ c[0] = head /\ c[n] = NoPage
      /\ \A i \in 0 .. n - 1 : c[i] \in S /\ next[c[i]] = c[i + 1]
      /\ \A i, j \in 0 .. n - 1 : c[i] = c[j] => i = j
      /\ \A p \in S : \E i \in 0 .. n - 1 : c[i] = p
  BY <1>2 DEF IsList
<1> HIDE DEF n
<1>4. n > 0
  BY <1>1, <1>3
<1>5. head \in S /\ next[head] = c[1]
  BY <1>1, <1>3, <1>4
<1>6. Cardinality(S \ {head}) = n - 1
  BY <1>5, FS_RemoveElement DEF n
<1> DEFINE d == [i \in 0 .. n - 1 |-> c[i + 1]]
<1>7. d \in [0 .. n - 1 -> Links]
  BY <1>1, <1>2
<1>8. IsList(d, S \ {head}, next[head], next)
  <2>1. d[0] = next[head] /\ d[n - 1] = NoPage
    BY <1>1, <1>3, <1>4, <1>5
  <2>2. ASSUME NEW i \in 0 .. n - 2
        PROVE  d[i] \in S \ {head} /\ next[d[i]] = d[i + 1]
    <3>1. d[i] = c[i + 1] /\ d[i + 1] = c[i + 2] /\ i + 1 \in 0 .. n - 1 /\ i + 1 # 0
      BY <1>1
    <3>2. c[i + 1] # c[0]
      BY <1>1, <1>3, <1>4, <3>1
    <3>3. c[i + 1] \in S /\ next[c[i + 1]] = c[(i + 1) + 1] /\ (i + 1) + 1 = i + 2
      BY <1>3, <3>1
    <3> QED
      BY <1>3, <3>1, <3>2, <3>3
  <2>3. ASSUME NEW i \in 0 .. n - 2, NEW j \in 0 .. n - 2, d[i] = d[j] PROVE i = j
    <3>1. d[i] = c[i + 1] /\ d[j] = c[j + 1] /\ i + 1 \in 0 .. n - 1 /\ j + 1 \in 0 .. n - 1
      BY <1>1
    <3>2. i + 1 = j + 1
      BY <1>3, <2>3, <3>1
    <3> QED
      BY <3>2
  <2>4. ASSUME NEW p \in S \ {head} PROVE \E i \in 0 .. n - 2 : d[i] = p
    <3>1. PICK k \in 0 .. n - 1 : c[k] = p
      BY <1>3
    <3>2. k # 0
      BY <1>3, <3>1
    <3>3. k - 1 \in 0 .. n - 2 /\ d[k - 1] = c[(k - 1) + 1] /\ (k - 1) + 1 = k
      BY <1>1, <3>1, <3>2
    <3> QED
      BY <3>1, <3>3
  <2>5. (n - 1) - 1 = n - 2
    BY <1>1
  <2> HIDE DEF d
  <2> QED
    BY <1>6, <2>1, <2>2, <2>3, <2>4, <2>5 DEF IsList
<1> QED
  BY <1>5, <1>6, <1>7, <1>8 DEF HasList

(* With a page before its first one a list is a list of one more. *)
LEMMA ListCons ==
  ASSUME NEW S, IsFiniteSet(S), NEW head, NEW next, HasList(S, head, next),
         NEW p \in Links, p \notin S, next[p] = head
  PROVE  HasList(S \cup {p}, p, next)
<1> DEFINE n == Cardinality(S)
<1>1. n \in Nat
  BY FS_CardinalityType
<1>2. PICK c \in [0 .. n -> Links] : IsList(c, S, head, next)
  BY DEF HasList
<1>3. /\ c[0] = head /\ c[n] = NoPage
      /\ \A i \in 0 .. n - 1 : c[i] \in S /\ next[c[i]] = c[i + 1]
      /\ \A i, j \in 0 .. n - 1 : c[i] = c[j] => i = j
      /\ \A q \in S : \E i \in 0 .. n - 1 : c[i] = q
  BY <1>2 DEF IsList
<1>4. Cardinality(S \cup {p}) = n + 1
  BY FS_AddElement
<1> HIDE DEF n
<1> DEFINE d == [i \in 0 .. n + 1 |-> IF i = 0 THEN p ELSE c[i - 1]]
<1>5. d \in [0 .. n + 1 -> Links]
  BY <1>1, <1>2
<1>6. d[0] = p /\ \A i \in 1 .. n + 1 : d[i] = c[i - 1]
  BY <1>1
<1> HIDE DEF d
<1>7. IsList(d, S \cup {p}, p, next)
  <2>1. d[n + 1] = NoPage
    BY <1>1, <1>3, <1>6
  <2>2. ASSUME NEW i \in 0 .. n PROVE d[i] \in S \cup {p} /\ next[d[i]] = d[i + 1]
    <3>1. d[i + 1] = c[i]
      BY <1>1, <1>6
    <3>2. CASE i = 0
      BY <1>3, <1>6, <3>1, <3>2
    <3>3. CASE i # 0
      <4>1. i - 1 \in 0 .. n - 1 /\ (i - 1) + 1 = i /\ d[i] = c[i - 1]
        BY <1>1, <1>6, <3>3
      <4>2. c[i - 1] \in S /\ next[c[i - 1]] = c[(i - 1) + 1]
        BY <1>3, <4>1
      <4> QED
        BY <3>1, <4>1, <4>2
    <3> QED
      BY <3>2, <3>3
  <2>3. ASSUME NEW i \in 0 .. n, NEW j \in 0 .. n, d[i] = d[j] PROVE i = j
    <3>1. \A k \in 0 .. n : k # 0 => k - 1 \in 0 .. n - 1 /\ d[k] = c[k - 1] /\ d[k] \in S
      BY <1>1, <1>3, <1>6
    <3>2. CASE i = 0 \/ j = 0
      BY <1>6, <2>3, <3>1, <3>2
    <3>3. CASE i # 0 /\ j # 0
      <4>1. i - 1 = j - 1
        BY <1>3, <2>3, <3>1, <3>3
      <4> QED
        BY <4>1
    <3> QED
      BY <3>2, <3>3
  <2>4. ASSUME NEW q \in S \cup {p} PROVE \E i \in 0 .. n : d[i] = q
    <3>1. CASE q = p
      BY <1>1, <1>6, <3>1
    <3>2. CASE q \in S
      <4>1. PICK k \in 0 .. n - 1 : c[k] = q
        BY <1>3, <3>2
      <4>2. k + 1 \in 0 .. n /\ d[k + 1] = c[(k + 1) - 1] /\ (k + 1) - 1 = k
        BY <1>1, <1>6
      <4> QED
        BY <4>1, <4>2
    <3> QED
      BY <3>1, <3>2
  <2>5. (n + 1) - 1 = n
    BY <1>1
  <2> QED
    BY <1>4, <1>6, <2>1, <2>2, <2>3, <2>4, <2>5 DEF IsList
<1> QED
  BY <1>4, <1>5, <1>7 DEF HasList

(* A list stays one while the links of its pages stay. *)
LEMMA ListKept ==
  ASSUME NEW S, NEW head, NEW next, NEW after, HasList(S, head, next),
         \A p \in S : after[p] = next[p]
  PROVE  HasList(S, head, after)
<1>1. PICK c \in [0 .. Cardinality(S) -> Links] : IsList(c, S, head, next)
  BY DEF HasList
<1>2. IsList(c, S, head, after)
  BY <1>1 DEF IsList
<1> QED
  BY <1>2 DEF HasList

-----------------------------------------------------------------------------
(* Free pages.                                                             *)

(* There are finitely many free pages.                                   *)
LEMMA FreeFinite ==
  ASSUME TypeOK
  PROVE  /\ IsFiniteSet(Free)
         /\ Free \subseteq PageNos
         /\ header.numPages \in Nat
<1>1. header.numPages \in 1 .. MaxPages + 1 /\ MaxPages \in Nat
  BY MaxPagesAssumption DEF TypeOK
<1>2. Free \subseteq 1 .. MaxPages
  BY <1>1 DEF Free
<1>3. IsFiniteSet(1 .. MaxPages)
  BY <1>1, FS_Interval
<1>4. IsFiniteSet(Free)
  BY <1>2, <1>3, FS_Subset
<1>5. header.numPages \in Nat
  BY <1>1
<1> QED
  BY <1>2, <1>4, <1>5 DEF PageNos

(* A new file is sound.                                                  *)
LEMMA SoundInit == Init => Sound
<1> SUFFICES ASSUME Init PROVE Sound
  OBVIOUS
<1>1. TypeOK
  BY MaxPagesAssumption DEF Init, TypeOK, NoCall, NoPage, Links
<1>2. Free = {}
  BY DEF Init, Free
<1>3. Cardinality({}) = 0
  BY FS_EmptySet
<1>4. FreeListSound
  <2> DEFINE c == [i \in 0 .. 0 |-> NoPage]
  <2>1. c \in [0 .. 0 -> Links] /\ c[0] = NoPage
    BY DEF Links
  <2>2. header.nextFree = NoPage
    BY DEF Init
  <2> HIDE DEF c
  <2>3. IsList(c, Free, header.nextFree, word)
    BY <1>2, <1>3, <2>1, <2>2 DEF IsList
  <2> QED
    BY <1>2, <1>3, <2>1, <2>3 DEF FreeListSound, HasList
<1> QED
  BY <1>1, <1>4 DEF Init, Sound, PagesExist, FirstPageStays, CallSound

(* The page that allocatePage takes from the list is a free one.           *)
LEMMA Taking ==
  ASSUME Sound, TakeFree
  PROVE  /\ header.nextFree \in Free
         /\ Free' = Free \ {header.nextFree}
         /\ FreeListSound'
<1>1. IsFiniteSet(Free)
  BY FreeFinite DEF Sound
<1>2. HasList(Free, header.nextFree, word) /\ header.nextFree # NoPage
  BY DEF Sound, FreeListSound, TakeFree
<1>3. /\ header.nextFree \in Free
      /\ HasList(Free \ {header.nextFree}, word[header.nextFree], word)
  BY <1>1, <1>2, ListTail
<1>4. /\ header'.nextFree = word[header.nextFree] /\ header'.numPages = header.numPages
      /\ word' = word /\ given' = given \cup {header.nextFree}
  BY DEF TakeFree, Sound, TypeOK
<1>5. Free' = Free \ {header.nextFree}
  BY <1>3, <1>4 DEF Free
<1> QED
  BY <1>3, <1>4, <1>5 DEF FreeListSound

(* A list that has ended has no page. *)
LEMMA EndedIsEmpty ==
  ASSUME Sound, header.nextFree = NoPage
  PROVE  Free = {}
<1> DEFINE n == Cardinality(Free)
<1>1. IsFiniteSet(Free) /\ Free \subseteq PageNos /\ n \in Nat
  BY FreeFinite, FS_CardinalityType DEF Sound
<1>2. PICK c \in [0 .. n -> Links] : IsList(c, Free, header.nextFree, word)
  BY DEF Sound, FreeListSound, HasList
<1>3. c[0] = NoPage /\ \A i \in 0 .. n - 1 : c[i] \in Free
  BY <1>2 DEF IsList
<1>4. NoPage \notin Free
  BY <1>1, MaxPagesAssumption DEF PageNos, NoPage
<1> HIDE DEF n
<1>5. n = 0
  BY <1>1, <1>3, <1>4
<1> QED
  BY <1>1, <1>5, FS_EmptySet DEF n

(* Links only lead to free pages, or to none. *)
LEMMA FreeLinks ==
  ASSUME Sound, NEW p \in Free
  PROVE  word[p] \in Free \cup {NoPage}
<1> DEFINE n == Cardinality(Free)
<1>1. n \in Nat
  BY FreeFinite, FS_CardinalityType DEF Sound
<1>2. PICK c \in [0 .. n -> Links] : IsList(c, Free, header.nextFree, word)
  BY DEF Sound, FreeListSound, HasList
<1>3. /\ c[n] = NoPage
      /\ \A i \in 0 .. n - 1 : c[i] \in Free /\ word[c[i]] = c[i + 1]
      /\ \E i \in 0 .. n - 1 : c[i] = p
  BY <1>2 DEF IsList
<1> HIDE DEF n
<1>4. PICK i \in 0 .. n - 1 : c[i] = p
  BY <1>3
<1>5. i + 1 = n \/ i + 1 \in 0 .. n - 1
  BY <1>1
<1> QED
  BY <1>3, <1>4, <1>5

(* The first page and the header are never free. *)
LEMMA FreeFromTwo ==
  ASSUME Sound, NEW p \in Free
  PROVE  p \in 2 .. MaxPages /\ p < header.numPages
<1>1. header.numPages \in 1 .. MaxPages + 1 /\ MaxPages \in Nat
  BY MaxPagesAssumption DEF Sound, TypeOK
<1>2. p \in 1 .. header.numPages - 1 /\ p \notin given
  BY DEF Free
<1>3. p # 1
  BY <1>1, <1>2 DEF Sound, FirstPageStays
<1> QED
  BY <1>1, <1>2, <1>3

(* A page taken from the free list leaves a sound one.                   *)
LEMMA SoundTakeFree ==
  ASSUME Sound, TakeFree
  PROVE  Sound'
<1> DEFINE p == header.nextFree
<1>1. p \in Free /\ FreeListSound'
  BY Taking
<1>2. p \in 2 .. MaxPages /\ p < header.numPages /\ p \in 1 .. header.numPages - 1
  BY <1>1, FreeFromTwo DEF Free
<1>3. word[p] \in {NoPage} \cup 2 .. MaxPages
  BY <1>1, FreeLinks, FreeFromTwo
<1>4. /\ header' = [header EXCEPT !.nextFree = word[p]]
      /\ given' = given \cup {p}
      /\ UNCHANGED <<word, size, call>>
      /\ call = NoCall
  BY DEF TakeFree
<1> HIDE DEF p
<1>5. header' \in [nextFree : {NoPage} \cup 2 .. MaxPages,
                   firstPage : {NoPage, 1}, numPages : 1 .. MaxPages + 1]
  BY <1>3, <1>4 DEF Sound, TypeOK
<1>6. header'.numPages = header.numPages /\ header'.firstPage = header.firstPage
  BY <1>4 DEF Sound, TypeOK
<1>7. TypeOK'
  BY <1>2, <1>4, <1>5, <1>6 DEF Sound, TypeOK
<1> QED
  BY <1>1, <1>4, <1>6, <1>7 DEF Sound, PagesExist, FirstPageStays, CallSound

(* Extending writes a page that the header does not count yet.             *)
LEMMA SoundExtend ==
  ASSUME Sound, Extend
  PROVE  Sound'
<1> DEFINE p == header.numPages
<1>1. /\ p \in PageNos /\ p \in Nat /\ size \in Nat /\ p <= size /\ size <= p + 1
      /\ header.nextFree = NoPage
  BY MaxPagesAssumption DEF Extend, Sound, TypeOK, PagesExist, PageNos
<1>2. /\ word' = [word EXCEPT ![p] = 0] /\ size' = SizeWith(p)
      /\ call' = [op |-> "extend", page |-> p]
      /\ UNCHANGED <<header, given>>
  BY DEF Extend
<1>3. size' = p + 1
  BY <1>1, <1>2 DEF SizeWith
<1>4. Free' = Free /\ \A q \in Free : word'[q] = word[q]
  <2>1. p \notin Free
    BY <1>1 DEF Free
  <2>2. word \in [PageNos -> Links]
    BY DEF Sound, TypeOK
  <2> QED
    BY <1>2, <2>1, <2>2, FreeFinite DEF Free, Sound
<1>5. FreeListSound'
  BY <1>2, <1>4, ListKept DEF Sound, FreeListSound
<1>6. TypeOK'
  <2>1. word' \in [PageNos -> Links]
    BY <1>2 DEF Sound, TypeOK, Links
  <2> QED
    BY <1>1, <1>2, <1>3, <2>1 DEF Sound, TypeOK, Links
<1> QED
  BY <1>1, <1>2, <1>3, <1>5, <1>6 DEF Sound, PagesExist, FirstPageStays, CallSound, NoCall

(* A page that is being disposed of gets its link while it is not free.    *)
LEMMA SoundDispose ==
  ASSUME Sound, NEW p \in PageNos, Dispose(p)
  PROVE  Sound'
<1>1. /\ p \in given /\ p # header.firstPage
      /\ word' = [word EXCEPT ![p] = header.nextFree]
      /\ call' = [op |-> "dispose", page |-> p]
      /\ UNCHANGED <<header, size, given>>
  BY DEF Dispose, MayDispose, LinkOf
<1>2. header.nextFree \in Links
  BY MaxPagesAssumption DEF Sound, TypeOK, Links, PageNos
<1>3. Free' = Free /\ \A q \in Free : word'[q] = word[q]
  <2>1. p \notin Free
    BY <1>1 DEF Free
  <2>2. word \in [PageNos -> Links]
    BY DEF Sound, TypeOK
  <2> QED
    BY <1>1, <2>1, <2>2, FreeFinite DEF Free, Sound
<1>4. FreeListSound'
  BY <1>1, <1>3, ListKept DEF Sound, FreeListSound
<1>5. TypeOK' /\ word'[p] = header.nextFree
  BY <1>1, <1>2 DEF Sound, TypeOK, Links
<1> QED
  BY <1>1, <1>4, <1>5 DEF Sound, PagesExist, FirstPageStays, CallSound

(* The header that allocatePage writes counts the page it has written.     *)
LEMMA SoundExtended ==
  ASSUME Sound, WriteHeader, call.op = "extend"
  PROVE  Sound' /\ header.nextFree = NoPage /\ Free' = Free
<1> DEFINE p == header.numPages
<1>1. call # NoCall
  BY DEF WriteHeader
<1>2. /\ call.page = p /\ p \in PageNos /\ header.nextFree = NoPage /\ size = p + 1
  BY <1>1 DEF Sound, CallSound
<1>3. /\ header' = Extended /\ given' = given \cup {p}
      /\ call' = NoCall /\ word' = word /\ size' = size
  BY <1>2 DEF WriteHeader
<1>4. p \in Nat /\ p >= 1 /\ p <= MaxPages /\ MaxPages \in Nat
  BY <1>2, MaxPagesAssumption DEF PageNos
<1>5. /\ header'.nextFree = NoPage /\ header'.numPages = p + 1
      /\ header'.firstPage = IF header.firstPage = NoPage THEN p ELSE header.firstPage
  BY <1>2, <1>3 DEF Extended, Sound, TypeOK
<1>6. header'.firstPage = 1 /\ 1 \in given'
  BY <1>3, <1>4, <1>5 DEF Sound, FirstPageStays, NoPage
<1>7. TypeOK'
  <2>1. header' \in [nextFree : {NoPage} \cup 2 .. MaxPages,
                     firstPage : {NoPage, 1}, numPages : 1 .. MaxPages + 1]
    <3>1. p + 1 \in 1 .. MaxPages + 1
      BY <1>4
    <3>2. header' = [header EXCEPT !.numPages = p + 1, !.firstPage = 1]
      BY <1>3, <1>5, <1>6 DEF Extended, Sound, TypeOK
    <3> QED
      BY <3>1, <3>2 DEF Sound, TypeOK
  <2>2. given' \subseteq 1 .. header'.numPages - 1
    <3>1. given \subseteq 1 .. p - 1
      BY DEF Sound, TypeOK
    <3>2. given' \subseteq 1 .. p
      <4>1. 1 .. p - 1 \subseteq 1 .. p /\ p \in 1 .. p
        BY <1>4
      <4>2. given' = given \cup {p}
        BY <1>3
      <4> HIDE DEF p
      <4> QED
        BY <3>1, <4>1, <4>2
    <3>3. header'.numPages - 1 = p
      BY <1>4, <1>5
    <3> QED
      BY <3>2, <3>3
  <2> QED
    BY <1>3, <2>1, <2>2 DEF Sound, TypeOK, NoCall, NoPage, Links
<1>8. Free' = Free
  <2>1. Free' = (1 .. (p + 1) - 1) \ (given \cup {p})
    BY <1>3, <1>5 DEF Free
  <2>2. Free = (1 .. p - 1) \ given
    BY DEF Free
  <2> QED
    BY <1>4, <2>1, <2>2
<1>9. FreeListSound'
  BY <1>2, <1>3, <1>5, <1>8 DEF Sound, FreeListSound
<1>10. PagesExist' /\ FirstPageStays' /\ CallSound'
  BY <1>2, <1>3, <1>4, <1>5, <1>6 DEF PagesExist, FirstPageStays, CallSound
<1> QED
  BY <1>2, <1>7, <1>8, <1>9, <1>10 DEF Sound

(* The header that disposePage writes leads to the page it has linked.     *)
LEMMA SoundDisposed ==
  ASSUME Sound, WriteHeader, call.op # "extend"
  PROVE  /\ Sound' /\ header'.numPages = header.numPages
         /\ call.page \in 2 .. header.numPages - 1 /\ call.page \notin Free
         /\ Free' = Free \cup {call.page}
<1> DEFINE p == call.page
<1>1. call # NoCall
  BY DEF WriteHeader
<1>2. /\ p \in given /\ p # header.firstPage /\ word[p] = header.nextFree
  BY <1>1 DEF Sound, CallSound
<1>3. /\ header' = Headed(p) /\ given' = given \ {p}
      /\ call' = NoCall /\ word' = word /\ size' = size
  BY DEF WriteHeader
<1>4. header.numPages \in 1 .. MaxPages + 1 /\ MaxPages \in Nat
  BY MaxPagesAssumption DEF Sound, TypeOK
<1>5. p \in 1 .. header.numPages - 1
  BY <1>2 DEF Sound, TypeOK
<1>6. header.firstPage = 1 /\ 1 \in given
  BY <1>4, <1>5 DEF Sound, FirstPageStays
<1>7. p \in 2 .. header.numPages - 1 /\ p \in 2 .. MaxPages /\ p \in Links
  BY <1>2, <1>4, <1>5, <1>6 DEF Links, PageNos
<1> HIDE DEF p
<1>8. /\ header'.nextFree = p /\ header'.numPages = header.numPages
      /\ header'.firstPage = header.firstPage
  BY <1>3 DEF Headed, Sound, TypeOK
<1>9. TypeOK'
  <2>1. header' \in [nextFree : {NoPage} \cup 2 .. MaxPages,
                     firstPage : {NoPage, 1}, numPages : 1 .. MaxPages + 1]
    BY <1>3, <1>7 DEF Headed, Sound, TypeOK
  <2> QED
    BY <1>3, <1>8, <2>1 DEF Sound, TypeOK, NoCall, NoPage, Links
<1>10. p \notin Free /\ Free' = Free \cup {p}
  BY <1>2, <1>3, <1>5, <1>8 DEF Free
<1>11. FreeListSound'
  <2>1. IsFiniteSet(Free) /\ HasList(Free, header.nextFree, word)
    BY FreeFinite DEF Sound, FreeListSound
  <2>2. HasList(Free \cup {p}, p, word)
    BY <1>2, <1>7, <1>10, <2>1, ListCons
  <2> QED
    BY <1>3, <1>8, <1>10, <2>2 DEF FreeListSound
<1>12. FirstPageStays'
  BY <1>3, <1>4, <1>5, <1>6, <1>7, <1>8 DEF FirstPageStays
<1> QED
  BY <1>3, <1>7, <1>8, <1>9, <1>10, <1>11, <1>12 DEF Sound, PagesExist, CallSound, p

(* So does a call that is cut short,                                     *)
LEMMA SoundInterrupt ==
  ASSUME Sound, Interrupt
  PROVE  Sound'
<1>1. call' = NoCall /\ UNCHANGED <<header, word, size, given>>
  BY DEF Interrupt
<1>2. TypeOK' /\ CallSound'
  BY <1>1 DEF Sound, TypeOK, CallSound, NoCall, NoPage, Links
<1>3. FreeListSound'
  BY <1>1 DEF Sound, FreeListSound, Free
<1> QED
  BY <1>1, <1>2, <1>3 DEF Sound, PagesExist, FirstPageStays

(* and a write to a page's own bytes.                                    *)
LEMMA SoundWritePage ==
  ASSUME Sound, NEW p \in PageNos, WritePage(p)
  PROVE  Sound' /\ Free' = Free
<1>1. PICK w \in Links : word' = [word EXCEPT ![p] = w]
  BY DEF WritePage
<1>2. p \in given /\ size' = SizeWith(p) /\ call = NoCall /\ UNCHANGED <<header, call, given>>
  BY DEF WritePage
<1>3. p < header.numPages /\ p \in Nat /\ header.numPages \in Nat
  BY <1>2 DEF Sound, TypeOK
<1>4. size' = size
  BY <1>2, <1>3 DEF SizeWith, Sound, PagesExist, TypeOK
<1>5. Free' = Free /\ \A q \in Free : word'[q] = word[q]
  <2>1. p \notin Free
    BY <1>2 DEF Free
  <2>2. word \in [PageNos -> Links]
    BY DEF Sound, TypeOK
  <2> QED
    BY <1>1, <1>2, <2>1, <2>2, FreeFinite DEF Free, Sound
<1>6. FreeListSound'
  BY <1>2, <1>5, ListKept DEF Sound, FreeListSound
<1>7. TypeOK'
  BY <1>1, <1>2, <1>4 DEF Sound, TypeOK
<1> QED
  BY <1>2, <1>4, <1>5, <1>6, <1>7 DEF Sound, PagesExist, FirstPageStays, CallSound

(* Every step leaves the file sound.                                     *)
LEMMA SoundStep == Sound /\ [Next]_vars => Sound'
<1> SUFFICES ASSUME Sound, [Next]_vars PROVE Sound'
  OBVIOUS
<1>1. CASE UNCHANGED vars
  BY <1>1 DEF vars, Sound, TypeOK, PagesExist, FirstPageStays, FreeListSound, CallSound, Free
<1>2. CASE WriteHeader
  BY <1>2, SoundExtended, SoundDisposed
<1> QED
  BY <1>1, <1>2, SoundTakeFree, SoundExtend, SoundInterrupt, SoundDispose, SoundWritePage DEF Next

(* The file is always sound.                                             *)
LEMMA AlwaysSound == Spec => []Sound
BY SoundInit, SoundStep, PTL DEF Spec

-----------------------------------------------------------------------------
(* Theorems.                                                               *)

(* The header, the links and the pages of callers stay in range: the list  *)
(* never leads to the header or to the first page.                         *)
THEOREM FileTypes == Spec => []TypeOK
<1>1. Sound => TypeOK
  BY DEF Sound
<1> QED
  BY <1>1, AlwaysSound, PTL

(* Wherever a call is interrupted, every page the header counts is in the  *)
(* Unix file.                                                              *)
THEOREM CountedPagesExist == Spec => []PagesExist
<1>1. Sound => PagesExist
  BY DEF Sound
<1> QED
  BY <1>1, AlwaysSound, PTL

(* The first page is page 1 and its first caller keeps it, whatever pages  *)
(* are disposed of.                                                        *)
THEOREM FirstPageIsKept == Spec => []FirstPageStays
<1>1. Sound => FirstPageStays
  BY DEF Sound
<1> QED
  BY <1>1, AlwaysSound, PTL

(* Wherever a call is interrupted, the list on disk ends and has exactly   *)
(* the pages that no caller has, each once.                                *)
THEOREM ListIsFreePages == Spec => []FreeListSound
<1>1. Sound => FreeListSound
  BY DEF Sound
<1> QED
  BY <1>1, AlwaysSound, PTL

(* allocatePage and disposePage implement what the buffer manager takes a  *)
(* file to be: FilePages.                                                  *)
THEOREM FileImplementsPages == Spec => PagesSpec
<1> DEFINE fvars == <<header.numPages, Free>>
<1>1. Init => FP!Init
  BY DEF Init, FP!Init, Free
<1>2. Sound /\ [Next]_vars => [FP!Next]_fvars
  <2> SUFFICES ASSUME Sound, [Next]_vars PROVE [FP!Next]_fvars
    OBVIOUS
  <2>1. CASE UNCHANGED vars
    BY <2>1 DEF vars, Free
  <2>2. CASE TakeFree
    <3>1. header.nextFree \in Free /\ Free' = Free \ {header.nextFree}
      BY <2>2, Taking
    <3>2. header.nextFree \in 1 .. MaxPages
      BY <3>1, FreeFinite DEF Sound, PageNos
    <3>3. header'.numPages = header.numPages
      BY <2>2 DEF TakeFree, Sound, TypeOK
    <3> QED
      BY <3>1, <3>2, <3>3 DEF FP!Next, FP!Take
  <2>3. CASE Extend
    BY <2>3 DEF Extend, Free
  <2>4. CASE WriteHeader /\ call.op = "extend"
    <3>1. Free' = Free /\ header.nextFree = NoPage
      BY <2>4, SoundExtended
    <3>2. Free = {}
      BY <3>1, EndedIsEmpty
    <3>3. header' = Extended /\ header.numPages <= MaxPages
      BY <2>4, MaxPagesAssumption DEF WriteHeader, Sound, CallSound, PageNos, NoCall
    <3>4. header'.numPages = header.numPages + 1
      BY <3>3 DEF Extended, Sound, TypeOK
    <3> QED
      BY <3>1, <3>2, <3>3, <3>4 DEF FP!Next, FP!Grow
  <2>5. CASE WriteHeader /\ call.op # "extend"
    <3>1. /\ header'.numPages = header.numPages
          /\ call.page \in 2 .. header.numPages - 1 /\ call.page \notin Free
          /\ Free' = Free \cup {call.page}
      BY <2>5, SoundDisposed
    <3>2. call.page \in 1 .. MaxPages
      BY <3>1, MaxPagesAssumption DEF Sound, TypeOK
    <3> QED
      BY <3>1, <3>2 DEF FP!Next, FP!GiveBack
  <2>6. CASE Interrupt
    BY <2>6 DEF Interrupt, Free
  <2>7. ASSUME NEW p \in PageNos, Dispose(p) PROVE UNCHANGED fvars
    BY <2>7 DEF Dispose, Free
  <2>8. ASSUME NEW p \in PageNos, WritePage(p) PROVE UNCHANGED fvars
    BY <2>8 DEF WritePage, Free
  <2> QED
    BY <2>1, <2>2, <2>3, <2>4, <2>5, <2>6, <2>7, <2>8 DEF Next
<1> QED
  BY <1>1, <1>2, AlwaysSound, PTL DEF Spec, PagesSpec, FP!Spec
=============================================================================
