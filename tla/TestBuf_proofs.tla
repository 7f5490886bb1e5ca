--------------------------- MODULE TestBuf_proofs ---------------------------
(***************************************************************************)
(* The page table of the buffer manager of phase 3 while testbuf.C runs,   *)
(* for any pool, any number of chains and File objects at any addresses:   *)
(* until a page hashes outside of the table, after which nothing is known. *)
(***************************************************************************)
EXTENDS TestBuf, NatLemmas

-----------------------------------------------------------------------------
(* The page table as a set.                                                *)

(* The pages that calls may name and that hash into the table, and the     *)
(* entries of the table.                                                   *)
Named   == {pg \in Files \X Nat : Defined(pg)}
Entry   == [page : Named, frameNo : Frames]
ToFrame(pg, n) == [page |-> pg, frameNo |-> n]

Distinct(chain) == \A k, m \in DOMAIN chain : chain[k].page = chain[m].page => k = m

(* Every entry is in its chain, and no page has two. *)
Sound(table) ==
  /\ table \in [0 .. HTSIZE - 1 -> Seq(Entry)]
  /\ \A h \in 0 .. HTSIZE - 1 : /\ Distinct(table[h])
                                /\ \A k \in DOMAIN table[h] : hash(table[h][k].page) = h

Entered(table) == UNION {ToSet(table[h]) : h \in 0 .. HTSIZE - 1}
-----------------------------------------------------------------------------
(* The invariant.                                                          *)

FrameTypes == /\ bufTable \in [Frames -> [page : Named \cup {NoPage}, pinCnt : Nat, dirty : BOOLEAN,
                                          valid : BOOLEAN, refbit : BOOLEAN]]
              /\ \A n \in Frames : bufTable[n].valid => bufTable[n].page \in Named

PoolTypes == /\ FrameTypes
             /\ clockHand \in Frames
             /\ numPages \in [Files -> Nat]

(* Entries lead to the frame of their page. *)
Leads == \A e \in Entered(ht) : bufTable[e.frameNo].valid /\ bufTable[e.frameNo].page = e.page

Own(n) == ToFrame(bufTable[n].page, n) \in Entered(ht)

PinsOwn == \A n \in Frames : bufTable[n].pinCnt > 0 => Own(n)

(* A frame whose page is not in the table: a read past the end of a file   *)
(* leaves its victim so.  It is valid, and no entry will lead to it.       *)
Lost(n) == \A e \in Entered(ht) : e.page # bufTable[n].page

OwnOrLost == \A n \in Frames : bufTable[n].valid => Own(n) \/ Lost(n)

(* A page that is new is in no frame. *)
Below == \A n \in Frames : bufTable[n].valid => bufTable[n].page[2] < numPages[bufTable[n].page[1]]

PoolInv == PoolTypes /\ Sound(ht) /\ Leads /\ PinsOwn /\ OwnOrLost /\ Below

(* No frame is lost. *)
NoneLost == \A n \in Frames : bufTable[n].valid => Own(n)

Place == /\ part \in 1 .. Len(Parts)
         /\ at \in 1 .. Len(Parts[part].calls)
         /\ i \in Nat /\ i \in Parts[part].first .. Parts[part].last
         /\ j \in [0 .. num - 1 -> Nat]
         /\ pageno \in [Names -> Nat]
         /\ file \in [Names -> Files]

(* The program reads past the end in loop Absent, and goes on without a    *)
(* read until loop TooMany finds all frames pinned.                        *)
LostWhen == Running /\ part \notin 10 .. 12 => NoneLost

(* Files are created before there is a page. *)
NoPages    == Entered(ht) = {} /\ \A n \in Frames : ~bufTable[n].valid
EmptyFirst == Running /\ part = 1 => NoPages

(* The program goes where nothing is known only by such a page. *)
OnlyOutside == outcome = "undefined" => \E f \in Names, n \in Nat : ~Defined(<<file[f], n>>)

TestInv == PoolInv /\ Place /\ LostWhen /\ EmptyFirst /\ OnlyOutside
-----------------------------------------------------------------------------
(* Chains.                                                                 *)

(* A page hashes into the table. *)
LEMMA HashIs ==
  ASSUME NEW pg \in Named
  PROVE  hash(pg) \in 0 .. HTSIZE - 1
<1>1. Sum(pg) \in Int /\ hash(pg) >= 0
  BY AddressAssumption DEF Named, Sum, Defined
<1>2. CASE Sum(pg) >= 0
  BY <1>1, <1>2, NumBufs3Assumption DEF hash
<1>3. CASE Sum(pg) < 0
  <2>1. PICK n \in Nat : n = -Sum(pg)
    BY <1>1, <1>3
  <2>2. hash(pg) = -(n % HTSIZE)
    BY <1>1, <1>3, <2>1 DEF hash
  <2>3. n % HTSIZE \in 0 .. HTSIZE - 1
    BY NumBufs3Assumption
  <2>4. n % HTSIZE = 0
    BY <1>1, <2>2, <2>3
  <2> QED
    BY <2>2, <2>4, NumBufs3Assumption
<1> QED
  BY <1>1, <1>2, <1>3

(* What Entries finds is the place of an entry of the page, if there is    *)
(* one.                                                                    *)
LEMMA EntriesIs ==
  ASSUME NEW table, NEW pg, Len(Chain(table, pg)) \in Nat,
         NEW k, k = Entries(table, pg)
  PROVE  \/ k = 0 /\ \A m \in 1 .. Len(Chain(table, pg)) : Chain(table, pg)[m].page # pg
         \/ k \in 1 .. Len(Chain(table, pg)) /\ Chain(table, pg)[k].page = pg
<1> DEFINE c == Chain(table, pg)
           I == {m \in 1 .. Len(c) : c[m].page = pg}
<1>1. k = IF I # {} THEN CHOOSE x \in I : \A y \in I : x =< y ELSE 0
  BY DEF Entries, SelectInSeq, Min
<1>2. I # {} => \E x \in I : \A y \in I : x <= y
  <2>1. I \subseteq Nat
    OBVIOUS
  <2> HIDE DEF I
  <2> QED
    BY <2>1, LeastElement
<1> HIDE DEF c
<1>3. I # {} => k \in I
  BY <1>1, <1>2
<1> QED
  BY <1>1, <1>3 DEF c

(* The chain of a page has its entry or none, and the frame it leads to is *)
(* looked up.                                                              *)
LEMMA LookupIs ==
  ASSUME NEW table, Sound(table), NEW pg \in Named
  PROVE  /\ IsHashed(table, pg) =>
              lookup(table, pg) \in Frames /\ ToFrame(pg, lookup(table, pg)) \in Entered(table)
         /\ ~IsHashed(table, pg) => \A e \in Entered(table) : e.page # pg
<1> DEFINE h == hash(pg)
           k == Entries(table, pg)
<1>1. h \in 0 .. HTSIZE - 1 /\ Chain(table, pg) = table[h]
  BY HashIs DEF Chain
<1>2. table[h] \in Seq(Entry)
  BY <1>1 DEF Sound
<1>3. \/ k = 0 /\ \A m \in 1 .. Len(table[h]) : table[h][m].page # pg
      \/ k \in 1 .. Len(table[h]) /\ table[h][k].page = pg
  <2> HIDE DEF h
  <2>1. Len(Chain(table, pg)) \in Nat
    BY <1>1, <1>2
  <2> QED
    BY <1>1, <2>1, EntriesIs
<1>4. IsHashed(table, pg) <=> k # 0
  BY DEF IsHashed
<1>5. lookup(table, pg) = table[h][k].frameNo
  BY <1>1 DEF lookup
<1> HIDE DEF h, k
<1>6. ASSUME k # 0
      PROVE  lookup(table, pg) \in Frames /\ ToFrame(pg, lookup(table, pg)) \in Entered(table)
  <2> DEFINE e == table[h][k]
  <2>1. k \in DOMAIN table[h] /\ e \in Entry /\ e.page = pg
    BY <1>2, <1>3, <1>6
  <2>2. e \in Entered(table)
    BY <1>1, <2>1 DEF Entered, ToSet
  <2>3. e = ToFrame(pg, e.frameNo) /\ e.frameNo \in Frames
    BY <2>1 DEF Entry, ToFrame
  <2> HIDE DEF e
  <2> QED
    BY <1>5, <2>2, <2>3 DEF e
<1>7. ASSUME k = 0, NEW e \in Entered(table) PROVE e.page # pg
  <2>0. PICK g \in 0 .. HTSIZE - 1 : e \in ToSet(table[g])
    BY DEF Entered
  <2>1. PICK m \in DOMAIN table[g] : e = table[g][m]
    BY <2>0 DEF ToSet
  <2>2. hash(e.page) = g
    BY <2>1 DEF Sound
  <2>3. CASE g = h
    <3>1. m \in 1 .. Len(table[h])
      BY <1>2, <2>1, <2>3
    <3> QED
      BY <1>3, <1>7, <2>1, <2>3, <3>1
  <2>4. CASE g # h
    BY <2>2, <2>4 DEF h
  <2> QED
    BY <2>3, <2>4
<1> QED
  BY <1>4, <1>6, <1>7

(* What is entered are entries, one of a page. *)
LEMMA OneOfAPage ==
  ASSUME NEW table, Sound(table)
  PROVE  /\ Entered(table) \subseteq Entry
         /\ \A a, b \in Entered(table) : a.page = b.page => a = b
<1>1. ASSUME NEW e \in Entered(table)
      PROVE  /\ e \in Entry
             /\ \E m \in DOMAIN table[hash(e.page)] : e = table[hash(e.page)][m]
             /\ hash(e.page) \in 0 .. HTSIZE - 1
  <2>0. PICK g \in 0 .. HTSIZE - 1 : e \in ToSet(table[g])
    BY DEF Entered
  <2>1. PICK m \in DOMAIN table[g] : e = table[g][m]
    BY <2>0 DEF ToSet
  <2>2. hash(e.page) = g /\ table[g] \in Seq(Entry)
    BY <2>1 DEF Sound
  <2> QED
    BY <2>1, <2>2
<1>2. ASSUME NEW a \in Entered(table), NEW b \in Entered(table), a.page = b.page
      PROVE  a = b
  <2> DEFINE h == hash(a.page)
  <2>1. PICK m \in DOMAIN table[h] : a = table[h][m]
    BY <1>1
  <2>2. PICK k \in DOMAIN table[h] : b = table[h][k]
    BY <1>1, <1>2
  <2>3. h \in 0 .. HTSIZE - 1
    BY <1>1
  <2>4. Distinct(table[h])
    BY <2>3 DEF Sound
  <2> HIDE DEF h
  <2> QED
    BY <1>2, <2>1, <2>2, <2>4 DEF Distinct
<1> QED
  BY <1>1, <1>2

(* A table of which one chain is replaced by a sound one. *)
LEMMA OneChain ==
  ASSUME NEW table, Sound(table), NEW h \in 0 .. HTSIZE - 1, NEW c \in Seq(Entry),
         Distinct(c), \A k \in DOMAIN c : hash(c[k].page) = h,
         NEW new, new = [table EXCEPT ![h] = c]
  PROVE  /\ Sound(new)
         /\ \A e : e \in Entered(new) <=> \/ e \in ToSet(c)
                                          \/ e \in Entered(table) /\ hash(e.page) # h
<1>1. /\ DOMAIN new = 0 .. HTSIZE - 1 /\ new[h] = c
      /\ \A g \in 0 .. HTSIZE - 1 : g # h => new[g] = table[g]
  BY DEF Sound
<1>2. new \in [0 .. HTSIZE - 1 -> Seq(Entry)]
  BY DEF Sound
<1>3. Sound(new)
  BY <1>1, <1>2 DEF Sound
<1>4. ASSUME NEW e, e \in Entered(new)
      PROVE  e \in ToSet(c) \/ (e \in Entered(table) /\ hash(e.page) # h)
  <2>1. PICK g \in 0 .. HTSIZE - 1 : e \in ToSet(new[g])
    BY <1>4 DEF Entered
  <2>2. CASE g = h
    BY <1>1, <2>1, <2>2
  <2>3. CASE g # h
    <3>1. e \in ToSet(table[g])
      BY <1>1, <2>1, <2>3
    <3>2. hash(e.page) = g
      BY <3>1 DEF ToSet, Sound
    <3> QED
      BY <2>3, <3>1, <3>2 DEF Entered
  <2> QED
    BY <2>2, <2>3
<1>5. ASSUME NEW e, e \in ToSet(c) PROVE e \in Entered(new)
  BY <1>1, <1>5 DEF Entered
<1>6. ASSUME NEW e, e \in Entered(table), hash(e.page) # h PROVE e \in Entered(new)
  <2>1. PICK g \in 0 .. HTSIZE - 1 : e \in ToSet(table[g])
    BY <1>6 DEF Entered
  <2>2. hash(e.page) = g
    BY <2>1 DEF ToSet, Sound
  <2>3. new[g] = table[g]
    BY <1>1, <1>6, <2>2
  <2> QED
    BY <2>1, <2>3 DEF Entered
<1> QED
  BY <1>3, <1>4, <1>5, <1>6

(* A chain has what hashes to it. *)
LEMMA ChainHas ==
  ASSUME NEW table, Sound(table), NEW h \in 0 .. HTSIZE - 1
  PROVE  \A e : e \in ToSet(table[h]) <=> e \in Entered(table) /\ hash(e.page) = h
<1>1. ASSUME NEW e, e \in ToSet(table[h]) PROVE e \in Entered(table) /\ hash(e.page) = h
  BY <1>1 DEF Entered, ToSet, Sound
<1>2. ASSUME NEW e, e \in Entered(table), hash(e.page) = h PROVE e \in ToSet(table[h])
  <2>1. PICK g \in 0 .. HTSIZE - 1 : e \in ToSet(table[g])
    BY <1>2 DEF Entered
  <2>2. hash(e.page) = g
    BY <2>1 DEF ToSet, Sound
  <2> QED
    BY <1>2, <2>1, <2>2
<1> QED
  BY <1>1, <1>2

(* A page that is not in the table is entered. *)
LEMMA InsertIs ==
  ASSUME NEW table, Sound(table), NEW pg \in Named, NEW n \in Frames,
         \A e \in Entered(table) : e.page # pg
  PROVE  /\ Sound(insert(table, pg, n))
         /\ Entered(insert(table, pg, n)) = Entered(table) \cup {ToFrame(pg, n)}
<1> DEFINE h == hash(pg)
           x == ToFrame(pg, n)
           c == <<x>> \o table[h]
           new == insert(table, pg, n)
<1>1. h \in 0 .. HTSIZE - 1
  BY HashIs
<1>2. table[h] \in Seq(Entry) /\ Distinct(table[h])
  BY <1>1 DEF Sound
<1>3. x \in Entry /\ x.page = pg
  BY DEF ToFrame, Entry
<1>4. new = [table EXCEPT ![h] = c]
  BY DEF insert, ToFrame
<1>5. \A k \in DOMAIN table[h] : table[h][k].page # pg /\ hash(table[h][k].page) = h
  BY <1>1 DEF Entered, ToSet, Sound
<1> HIDE DEF x, h
<1>6. /\ c \in Seq(Entry) /\ Len(c) = Len(table[h]) + 1 /\ c[1] = x
      /\ \A k \in DOMAIN c : k # 1 => k - 1 \in DOMAIN table[h] /\ c[k] = table[h][k - 1]
      /\ \A k \in DOMAIN table[h] : k + 1 \in DOMAIN c /\ c[k + 1] = table[h][k]
      /\ 1 \in DOMAIN c
  BY <1>2, <1>3
<1> HIDE DEF c
<1>7. \A k \in DOMAIN c : c[k] = x \/ \E m \in DOMAIN table[h] : c[k] = table[h][m]
  BY <1>6
<1>8. Distinct(c)
  <2> SUFFICES ASSUME NEW k \in DOMAIN c, NEW m \in DOMAIN c, c[k].page = c[m].page
               PROVE  k = m
    BY DEF Distinct
  <2>1. k \in Nat /\ m \in Nat
    BY <1>6
  <2>2. CASE k = 1 \/ m = 1
    BY <1>3, <1>5, <1>6, <2>2
  <2>3. CASE k # 1 /\ m # 1
    <3>1. k - 1 \in DOMAIN table[h] /\ m - 1 \in DOMAIN table[h] /\ c[k] = table[h][k - 1] /\ c[m] = table[h][m - 1]
      BY <1>6, <2>3
    <3>2. k - 1 = m - 1
      BY <1>2, <3>1 DEF Distinct
    <3> QED
      BY <2>1, <3>2
  <2> QED
    BY <2>2, <2>3
<1>9. \A k \in DOMAIN c : hash(c[k].page) = h
  BY <1>3, <1>5, <1>7 DEF h
<1>10. ToSet(c) = ToSet(table[h]) \cup {x}
  <2>1. \A e \in ToSet(c) : e \in ToSet(table[h]) \cup {x}
    BY <1>7 DEF ToSet
  <2>2. \A e \in ToSet(table[h]) : e \in ToSet(c)
    BY <1>6 DEF ToSet
  <2>3. x \in ToSet(c)
    BY <1>6 DEF ToSet
  <2> QED
    BY <2>1, <2>2, <2>3
<1>11. \A e : e \in ToSet(table[h]) <=> e \in Entered(table) /\ hash(e.page) = h
  BY <1>1, ChainHas
<1> HIDE DEF new
<1>12. /\ Sound(new)
       /\ \A e : e \in Entered(new) <=> e \in ToSet(c) \/ (e \in Entered(table) /\ hash(e.page) # h)
  BY <1>1, <1>4, <1>6, <1>8, <1>9, OneChain
<1>13. Entered(new) = Entered(table) \cup {x}
  BY <1>10, <1>11, <1>12
<1> QED
  BY <1>12, <1>13 DEF new, x

(* A chain without one of its elements. *)
LEMMA RemoveAtIs ==
  ASSUME NEW S, NEW s \in Seq(S), NEW k \in 1 .. Len(s), NEW c, c = RemoveAt(s, k)
  PROVE  /\ c \in Seq(S) /\ Len(c) = Len(s) - 1
         /\ \A m \in DOMAIN c : c[m] = IF m < k THEN s[m] ELSE s[m + 1]
<1> DEFINE a == SubSeq(s, 1, k - 1)
           b == SubSeq(s, k + 1, Len(s))
<1>1. /\ a \in Seq(S) /\ Len(a) = k - 1
      /\ \A m \in 1 .. k - 1 : a[m] = s[m]
  OBVIOUS
<1>2. /\ b \in Seq(S) /\ Len(b) = Len(s) - k
      /\ \A m \in 1 .. Len(s) - k : b[m] = s[m + k]
  OBVIOUS
<1>3. c = a \o b
  BY DEF RemoveAt
<1> HIDE DEF a, b
<1>4. c \in Seq(S) /\ Len(c) = Len(s) - 1
  <2>1. c \in Seq(S) /\ Len(c) = Len(a) + Len(b)
    <3>1. a \in Seq(S) /\ b \in Seq(S)
      BY <1>1, <1>2
    <3>2. a \o b \in Seq(S) /\ Len(a \o b) = Len(a) + Len(b)
      BY <3>1
    <3> QED
      BY <1>3, <3>2
  <2>2. k \in Int /\ Len(s) \in Int
    OBVIOUS
  <2> QED
    BY <1>1, <1>2, <2>1, <2>2
<1>5. ASSUME NEW m \in DOMAIN c PROVE c[m] = IF m < k THEN s[m] ELSE s[m + 1]
  <2>1. m \in 1 .. Len(s) - 1 /\ k \in 1 .. Len(s) /\ Len(s) \in Nat
    BY <1>4
  <2>2. CASE m < k
    <3>1. c[m] = a[m] /\ m \in 1 .. k - 1
      BY <1>1, <1>2, <1>3, <2>1, <2>2
    <3> QED
      BY <1>1, <2>2, <3>1
  <2>3. CASE m >= k
    <3>1. c[m] = b[m - (k - 1)]
      BY <1>1, <1>2, <1>3, <2>1, <2>3
    <3>2. m - (k - 1) \in 1 .. Len(s) - k /\ m - (k - 1) + k = m + 1
      BY <2>1, <2>3
    <3>3. b[m - (k - 1)] = s[m + 1]
      BY <1>2, <3>2
    <3> QED
      BY <2>1, <2>3, <3>1, <3>3
  <2> QED
    BY <2>1, <2>2, <2>3
<1> QED
  BY <1>4, <1>5

(* A page is removed from the table: that page, and no other. *)
LEMMA RemoveIs ==
  ASSUME NEW table, Sound(table), NEW pg \in Named
  PROVE  /\ Sound(remove(table, pg))
         /\ Entered(remove(table, pg)) = {e \in Entered(table) : e.page # pg}
<1>1. CASE ~IsHashed(table, pg)
  <2>1. remove(table, pg) = table
    BY <1>1 DEF remove
  <2>2. \A e \in Entered(table) : e.page # pg
    BY <1>1, LookupIs
  <2> QED
    BY <2>1, <2>2
<1>2. CASE IsHashed(table, pg)
  <2> DEFINE h == hash(pg)
             s == table[h]
             k == Entries(table, pg)
             c == RemoveAt(s, k)
             new == remove(table, pg)
  <2>1. h \in 0 .. HTSIZE - 1
    BY HashIs
  <2>2. s \in Seq(Entry) /\ Distinct(s) /\ Chain(table, pg) = s
    BY <2>1 DEF Sound, Chain
  <2>3. k \in 1 .. Len(s) /\ s[k].page = pg
    <3>1. Len(Chain(table, pg)) \in Nat
      BY <2>2
    <3>2. k # 0
      BY <1>2 DEF IsHashed
    <3> HIDE DEF k, s
    <3>3. k = Entries(table, pg)
      BY DEF k
    <3> QED
      BY <2>2, <3>1, <3>2, <3>3, EntriesIs
  <2>4. new = [table EXCEPT ![h] = c]
    BY <1>2 DEF remove
  <2>5. /\ \A m \in DOMAIN s : hash(s[m].page) = h
        /\ \A e : e \in ToSet(s) <=> e \in Entered(table) /\ hash(e.page) = h
    BY <2>1, ChainHas DEF Sound
  <2> HIDE DEF s, k
  <2>6. /\ c \in Seq(Entry) /\ Len(c) = Len(s) - 1
        /\ \A m \in DOMAIN c : c[m] = IF m < k THEN s[m] ELSE s[m + 1]
    BY <2>2, <2>3, RemoveAtIs
  <2> HIDE DEF c, h
  <2> DEFINE old(m) == IF m < k THEN m ELSE m + 1
  <2>7. \A m \in DOMAIN c : old(m) \in DOMAIN s /\ old(m) # k /\ c[m] = s[old(m)]
    BY <2>2, <2>3, <2>6
  <2>8. ASSUME NEW m \in DOMAIN s, m # k PROVE \E p \in DOMAIN c : c[p] = s[m]
    <3>1. CASE m < k
      <4>1. m \in DOMAIN c
        BY <2>2, <2>3, <2>6, <3>1
      <4> QED
        BY <2>6, <3>1, <4>1
    <3>2. CASE m > k
      <4>1. m - 1 \in DOMAIN c /\ ~(m - 1 < k) /\ (m - 1) + 1 = m
        BY <2>2, <2>3, <2>6, <3>2
      <4>2. c[m - 1] = s[m]
        BY <2>6, <4>1
      <4> QED
        BY <4>1, <4>2
    <3> QED
      BY <2>2, <2>3, <2>8, <3>1, <3>2
  <2>9. Distinct(c)
    <3> SUFFICES ASSUME NEW m \in DOMAIN c, NEW p \in DOMAIN c, c[m].page = c[p].page
                 PROVE  m = p
      BY DEF Distinct
    <3>1. old(m) = old(p)
      <4> HIDE DEF old
      <4> QED
        BY <2>2, <2>7 DEF Distinct
    <3>2. m \in Nat /\ p \in Nat /\ k \in Nat
      BY <2>2, <2>3, <2>6
    <3> QED
      BY <3>1, <3>2
  <2>10. \A m \in DOMAIN c : hash(c[m].page) = h
    <3> HIDE DEF old
    <3> QED
      BY <2>5, <2>7
  <2>11. \A e : e \in ToSet(c) <=> e \in ToSet(s) /\ e.page # pg
    <3>1. ASSUME NEW e, e \in ToSet(c) PROVE e \in ToSet(s) /\ e.page # pg
      <4>1. PICK m \in DOMAIN c : e = c[m]
        BY <3>1 DEF ToSet
      <4> HIDE DEF old
      <4>2. e = s[old(m)] /\ old(m) \in DOMAIN s /\ old(m) # k
        BY <2>7, <4>1
      <4>3. k \in DOMAIN s
        BY <2>2, <2>3
      <4> QED
        BY <2>2, <2>3, <4>2, <4>3 DEF ToSet, Distinct
    <3>2. ASSUME NEW e, e \in ToSet(s), e.page # pg PROVE e \in ToSet(c)
      <4>1. PICK m \in DOMAIN s : e = s[m]
        BY <3>2 DEF ToSet
      <4>2. m # k
        BY <2>3, <3>2, <4>1
      <4> QED
        BY <2>8, <4>1, <4>2 DEF ToSet
    <3> QED
      BY <3>1, <3>2
  <2> HIDE DEF new
  <2>12. /\ Sound(new)
         /\ \A e : e \in Entered(new) <=> e \in ToSet(c) \/ (e \in Entered(table) /\ hash(e.page) # h)
    BY <2>1, <2>4, <2>6, <2>9, <2>10, OneChain
  <2>13. Entered(new) = {e \in Entered(table) : e.page # pg}
    <3>1. \A e : e \in Entered(new) <=> e \in Entered(table) /\ e.page # pg
      BY <2>5, <2>11, <2>12 DEF h
    <3> QED
      BY <3>1
  <2> QED
    BY <2>12, <2>13 DEF new
<1> QED
  BY <1>1, <1>2

(* The chain without the pages of a set is made from its first to its last *)
(* entry.                                                                  *)
LEMMA WithoutSolved ==
  ASSUME NEW chain, NEW gone, NEW n \in Nat, Len(chain) = n
  PROVE  \E kept : /\ kept[0] = <<>>
                   /\ \A k \in 1 .. n : kept[k] = IF chain[k].page \in gone THEN kept[k - 1]
                                                  ELSE Append(kept[k - 1], chain[k])
                   /\ Without(chain, gone) = kept[n]
<1> DEFINE More(s, k) == IF chain[k].page \in gone THEN s ELSE Append(s, chain[k])
           Solves(f, m) == f = [k \in 0 .. m |-> IF k = 0 THEN <<>> ELSE More(f[k - 1], k)]
           Solved == {m \in Nat : \E f : Solves(f, m)}
<1> HIDE DEF More
<1>1. 0 \in Solved
  <2>1. Solves([k \in 0 .. 0 |-> <<>>], 0)
    OBVIOUS
  <2> QED
    BY <2>1
<1>2. ASSUME NEW m \in Solved PROVE m + 1 \in Solved
  <2>1. PICK f : Solves(f, m)
    OBVIOUS
  <2> DEFINE g == [k \in 0 .. m + 1 |-> IF k = m + 1 THEN More(f[m], k) ELSE f[k]]
  <2>2. \A k \in 0 .. m : g[k] = f[k]
    OBVIOUS
  <2>3. ASSUME NEW k \in 0 .. m + 1
        PROVE  g[k] = IF k = 0 THEN <<>> ELSE More(g[k - 1], k)
    <3>1. CASE k = 0
      <4>1. g[0] = f[0] /\ f[0] = <<>>
        BY <2>1
      <4> QED
        BY <3>1, <4>1
    <3>2. CASE k \in 1 .. m
      <4>1. k - 1 \in 0 .. m /\ k \in 0 .. m /\ k # 0
        BY <3>2
      <4>2. g[k] = f[k] /\ g[k - 1] = f[k - 1] /\ f[k] = More(f[k - 1], k)
        BY <2>1, <2>2, <4>1
      <4> QED
        BY <4>1, <4>2
    <3>3. CASE k = m + 1
      <4>1. k - 1 = m /\ m \in 0 .. m /\ k # 0
        BY <3>3
      <4>2. g[k] = More(f[m], k) /\ g[k - 1] = f[m]
        BY <2>2, <3>3, <4>1
      <4> QED
        BY <4>1, <4>2
    <3> QED
      BY <3>1, <3>2, <3>3
  <2>4. g = [k \in 0 .. m + 1 |-> IF k = 0 THEN <<>> ELSE More(g[k - 1], k)]
    <3> DEFINE x == [k \in 0 .. m + 1 |-> IF k = 0 THEN <<>> ELSE More(g[k - 1], k)]
    <3>1. \A k \in 0 .. m + 1 : g[k] = x[k]
      BY <2>3
    <3> QED
      BY <3>1
  <2> HIDE DEF g
  <2>5. Solves(g, m + 1)
    BY <2>4
  <2> QED
    BY <2>5
<1>3. n \in Solved
  <2> HIDE DEF Solved
  <2>1. Solved \subseteq Nat
    BY DEF Solved
  <2>2. Solved = Nat
    BY <1>1, <1>2, <2>1, SetInduction
  <2> QED
    BY <2>2
<1> DEFINE kept == CHOOSE f : f = [k \in 0 .. Len(chain) |->
                                     IF k = 0 THEN <<>>
                                     ELSE IF chain[k].page \in gone THEN f[k - 1]
                                     ELSE Append(f[k - 1], chain[k])]
<1>4. kept = [k \in 0 .. n |-> IF k = 0 THEN <<>> ELSE More(kept[k - 1], k)]
  BY <1>3 DEF More
<1>5. Without(chain, gone) = kept[n]
  BY DEF Without
<1> HIDE DEF kept
<1>6. kept[0] = <<>>
  BY <1>4
<1>7. ASSUME NEW k \in 1 .. n PROVE kept[k] = More(kept[k - 1], k)
  <2>1. k \in 0 .. n /\ k # 0
    OBVIOUS
  <2> QED
    BY <1>4, <2>1
<1> QED
  BY <1>5, <1>6, <1>7 DEF More

(* It keeps the entries of the other pages, and nothing else. *)
LEMMA WithoutIs ==
  ASSUME NEW S, NEW chain \in Seq(S), Distinct(chain), NEW gone,
         NEW c, c = Without(chain, gone)
  PROVE  /\ c \in Seq(S) /\ Distinct(c)
         /\ \A e : e \in ToSet(c) <=> e \in ToSet(chain) /\ e.page \notin gone
<1> DEFINE n == Len(chain)
           Some(m) == {chain[k] : k \in {x \in 1 .. m : chain[x].page \notin gone}}
           Right(s, m) == s \in Seq(S) /\ Distinct(s) /\ ToSet(s) = Some(m)
<1>0. n \in Nat /\ \A k \in 1 .. n : chain[k] \in S
  OBVIOUS
<1>1. PICK kept : /\ kept[0] = <<>>
                  /\ \A k \in 1 .. n : kept[k] = IF chain[k].page \in gone THEN kept[k - 1]
                                                 ELSE Append(kept[k - 1], chain[k])
                  /\ Without(chain, gone) = kept[n]
  BY <1>0, WithoutSolved
<1> DEFINE I == {m \in Nat : m <= n => Right(kept[m], m)}
<1>2. 0 \in I
  <2>1. kept[0] \in Seq(S) /\ ToSet(kept[0]) = {} /\ Distinct(kept[0])
    BY <1>1 DEF ToSet, Distinct
  <2>2. Some(0) = {}
    OBVIOUS
  <2> QED
    BY <2>1, <2>2
<1>3. ASSUME NEW m \in I PROVE m + 1 \in I
  <2> DEFINE k == m + 1
             s == kept[m]
  <2> SUFFICES ASSUME k <= n PROVE Right(kept[k], k)
    OBVIOUS
  <2>1. /\ Right(s, m) /\ k \in 1 .. n /\ k - 1 = m /\ m \in Nat
        /\ 1 .. k = (1 .. m) \cup {k} /\ k \notin 1 .. m
    BY <1>0
  <2>2. kept[k] = IF chain[k].page \in gone THEN s ELSE Append(s, chain[k])
    BY <1>1, <2>1
  <2> HIDE DEF k, s
  <2>3. CASE chain[k].page \in gone
    <3>1. Some(k) = Some(m)
      BY <2>1, <2>3
    <3> HIDE DEF Some
    <3> QED
      BY <2>1, <2>2, <2>3, <3>1
  <2>4. CASE chain[k].page \notin gone
    <3> DEFINE x == chain[k]
               t == Append(s, x)
    <3>1. Some(k) = Some(m) \cup {x}
      BY <2>1, <2>4
    <3>2. \A e \in Some(m) : e.page # x.page
      <4>1. \A a \in 1 .. m : a \in DOMAIN chain /\ a # k
        BY <1>0, <2>1
      <4>2. k \in DOMAIN chain
        BY <2>1
      <4> QED
        BY <4>1, <4>2 DEF Distinct
    <3>3. x \in S
      BY <1>0, <2>1
    <3> HIDE DEF x, Some
    <3>4. /\ t \in Seq(S) /\ DOMAIN t = 1 .. Len(s) + 1 /\ t[Len(s) + 1] = x
          /\ \A a \in 1 .. Len(s) : t[a] = s[a]
          /\ Len(s) \in Nat /\ DOMAIN s = 1 .. Len(s)
      BY <2>1, <3>3
    <3> HIDE DEF t
    <3>5. ToSet(t) = ToSet(s) \cup {x}
      <4>1. \A a \in DOMAIN t : t[a] \in ToSet(s) \/ t[a] = x
        BY <3>4 DEF ToSet
      <4>2. \A a \in DOMAIN s : s[a] \in ToSet(t)
        BY <3>4 DEF ToSet
      <4>3. x \in ToSet(t)
        BY <3>4 DEF ToSet
      <4> QED
        BY <4>1, <4>2, <4>3 DEF ToSet
    <3>6. Distinct(t)
      <4>1. \A a \in DOMAIN s : s[a].page # x.page
        BY <2>1, <3>2 DEF ToSet
      <4>2. Distinct(s)
        BY <2>1
      <4> QED
        BY <3>4, <4>1, <4>2 DEF Distinct
    <3>7. kept[k] = t
      BY <2>2, <2>4 DEF t, x
    <3> QED
      BY <2>1, <3>1, <3>4, <3>5, <3>6, <3>7
  <2> QED
    BY <2>3, <2>4
<1>4. Right(kept[n], n)
  <2> HIDE DEF I
  <2>1. I \subseteq Nat
    BY DEF I
  <2>2. I = Nat
    BY <1>2, <1>3, <2>1, SetInduction
  <2>3. n \in I
    BY <1>0, <2>2
  <2> HIDE DEF n, Right
  <2> QED
    BY <1>0, <2>3 DEF I
<1>5. c = kept[n]
  BY <1>1
<1>6. \A e : e \in Some(n) <=> e \in ToSet(chain) /\ e.page \notin gone
  BY DEF ToSet
<1> HIDE DEF Some, n
<1> QED
  BY <1>4, <1>5, <1>6

(* A flush removes the pages of a set, and no other. *)
LEMMA FlushedTable ==
  ASSUME NEW table, Sound(table), NEW gone,
         NEW new, new = [h \in DOMAIN table |-> Without(table[h], gone)]
  PROVE  /\ Sound(new)
         /\ Entered(new) = {e \in Entered(table) : e.page \notin gone}
<1>1. ASSUME NEW h \in 0 .. HTSIZE - 1
      PROVE  /\ table[h] \in Seq(Entry) /\ new[h] \in Seq(Entry) /\ Distinct(new[h])
             /\ \A e : e \in ToSet(new[h]) <=> e \in ToSet(table[h]) /\ e.page \notin gone
             /\ \A e \in ToSet(table[h]) : hash(e.page) = h
  <2>1. table[h] \in Seq(Entry) /\ Distinct(table[h]) /\ new[h] = Without(table[h], gone)
    BY DEF Sound
  <2>2. \A e \in ToSet(table[h]) : hash(e.page) = h
    BY ChainHas
  <2> QED
    BY <2>1, <2>2, WithoutIs
<1>2. new \in [0 .. HTSIZE - 1 -> Seq(Entry)]
  <2>1. DOMAIN new = 0 .. HTSIZE - 1 /\ new = [h \in 0 .. HTSIZE - 1 |-> new[h]]
    BY DEF Sound
  <2> QED
    BY <1>1, <2>1
<1>3. ASSUME NEW h \in 0 .. HTSIZE - 1, NEW k \in DOMAIN new[h] PROVE hash(new[h][k].page) = h
  <2>1. new[h][k] \in ToSet(new[h])
    BY DEF ToSet
  <2> QED
    BY <1>1, <2>1
<1>4. Sound(new)
  BY <1>1, <1>2, <1>3 DEF Sound
<1>5. ASSUME NEW e PROVE e \in Entered(new) <=> e \in Entered(table) /\ e.page \notin gone
  <2>1. e \in Entered(new) <=> \E h \in 0 .. HTSIZE - 1 : e \in ToSet(new[h])
    BY DEF Entered
  <2>2. e \in Entered(table) <=> \E h \in 0 .. HTSIZE - 1 : e \in ToSet(table[h])
    BY DEF Entered
  <2>3. \A h \in 0 .. HTSIZE - 1 : e \in ToSet(new[h]) <=> e \in ToSet(table[h]) /\ e.page \notin gone
    BY <1>1
  <2> QED
    BY <2>1, <2>2, <2>3
<1> QED
  BY <1>4, <1>5
-----------------------------------------------------------------------------
(* Frames.                                                                 *)

(* What is own of a frame is a named page, looked up there. *)
LEMMA OwnIs ==
  ASSUME Sound(ht), NEW n \in Frames, Own(n)
  PROVE  /\ bufTable[n].page \in Named
         /\ IsHashed(ht, bufTable[n].page) /\ lookup(ht, bufTable[n].page) = n
<1> DEFINE pg == bufTable[n].page
           e == ToFrame(pg, n)
<1>1. e \in Entered(ht) /\ e.page = pg /\ e.frameNo = n
  BY DEF Own, ToFrame
<1>2. pg \in Named
  <2>1. e \in Entry
    BY <1>1, OneOfAPage
  <2> QED
    BY <1>1, <2>1 DEF Entry
<1> HIDE DEF pg, e
<1>3. IsHashed(ht, pg)
  BY <1>1, <1>2, LookupIs
<1>4. ToFrame(pg, lookup(ht, pg)) \in Entered(ht)
  BY <1>2, <1>3, LookupIs
<1>5. ToFrame(pg, lookup(ht, pg)).page = pg /\ ToFrame(pg, lookup(ht, pg)).frameNo = lookup(ht, pg)
  BY DEF ToFrame
<1>6. ToFrame(pg, lookup(ht, pg)) = e
  BY <1>1, <1>4, <1>5, OneOfAPage
<1>7. lookup(ht, pg) = n
  BY <1>1, <1>5, <1>6
<1> QED
  BY <1>2, <1>3, <1>7 DEF pg

(* So the table is right.                                                  *)
LEMMA PoolIsRight ==
  ASSUME PoolInv
  PROVE  HashRight
<1>1. ASSUME NEW h \in DOMAIN ht, NEW k \in DOMAIN ht[h]
      PROVE  /\ hash(ht[h][k].page) = h
             /\ bufTable[ht[h][k].frameNo].valid /\ bufTable[ht[h][k].frameNo].page = ht[h][k].page
             /\ \A m \in DOMAIN ht[h] : ht[h][m].page = ht[h][k].page => m = k
  <2>1. h \in 0 .. HTSIZE - 1
    BY DEF PoolInv, Sound
  <2>2. hash(ht[h][k].page) = h /\ Distinct(ht[h])
    BY <2>1 DEF PoolInv, Sound
  <2>3. ht[h][k] \in Entered(ht)
    BY <2>1 DEF Entered, ToSet
  <2>4. bufTable[ht[h][k].frameNo].valid /\ bufTable[ht[h][k].frameNo].page = ht[h][k].page
    BY <2>3 DEF PoolInv, Leads
  <2> QED
    BY <2>2, <2>4 DEF Distinct
<1>2. ASSUME NEW n \in Frames, bufTable[n].pinCnt > 0
      PROVE  IsHashed(ht, bufTable[n].page) /\ lookup(ht, bufTable[n].page) = n
  BY <1>2, OwnIs DEF PoolInv, PinsOwn
<1> QED
  BY <1>1, <1>2 DEF HashRight

(* The sweep turns reference bits off, and nothing else. *)
LEMMA SweptIs ==
  ASSUME FrameTypes, NEW k
  PROVE  /\ Swept(k) \in [Frames -> [page : Named \cup {NoPage}, pinCnt : Nat, dirty : BOOLEAN,
                                     valid : BOOLEAN, refbit : BOOLEAN]]
         /\ \A n \in Frames : /\ Swept(k)[n].page = bufTable[n].page
                              /\ Swept(k)[n].pinCnt = bufTable[n].pinCnt
                              /\ Swept(k)[n].valid = bufTable[n].valid
<1> DEFINE T == [page : Named \cup {NoPage}, pinCnt : Nat, dirty : BOOLEAN, valid : BOOLEAN, refbit : BOOLEAN]
<1>1. ASSUME NEW n \in Frames
      PROVE  /\ Swept(k)[n] \in T
             /\ Swept(k)[n].page = bufTable[n].page
             /\ Swept(k)[n].pinCnt = bufTable[n].pinCnt
             /\ Swept(k)[n].valid = bufTable[n].valid
  <2>1. bufTable[n] \in T
    BY DEF FrameTypes
  <2>2. Swept(k)[n] = bufTable[n] \/ Swept(k)[n] = [bufTable[n] EXCEPT !.refbit = FALSE]
    BY DEF Swept
  <2> QED
    BY <2>1, <2>2
<1>2. DOMAIN Swept(k) = Frames /\ Swept(k) = [n \in Frames |-> Swept(k)[n]]
  BY DEF Swept
<1> QED
  BY <1>1, <1>2

(* The victim is invalid or not pinned, and if there is none all frames    *)
(* are pinned.                                                             *)
LEMMA VictimIs ==
  ASSUME FrameTypes, clockHand \in Frames
  PROVE  /\ Candidates # {} => /\ Victim \in Frames
                               /\ bufTable[Victim].valid => bufTable[Victim].pinCnt = 0
         /\ Candidates = {} => \A n \in Frames : bufTable[n].valid /\ bufTable[n].pinCnt > 0
<1>1. /\ \A k \in Nat : FrameAt(k) \in Frames
      /\ \A n \in Frames : \E k \in NumBufs + 1 .. 2 * NumBufs : FrameAt(k) = n
  BY NumBufs3Assumption, Modulo DEF FrameAt, Frames
<1>2. ASSUME Candidates # {}
      PROVE  Victim \in Frames /\ (bufTable[Victim].valid => bufTable[Victim].pinCnt = 0)
  <2>1. Candidates \subseteq Nat
    BY NumBufs3Assumption DEF Candidates
  <2>2. LastScan \in Candidates
    BY <1>2, <2>1, LeastElement DEF LastScan
  <2>3. LastScan \in Nat /\ Stops(LastScan)
    BY <2>1, <2>2 DEF Candidates
  <2> QED
    BY <1>1, <2>3 DEF Victim, Stops
<1>3. ASSUME Candidates = {}, NEW n \in Frames
      PROVE  bufTable[n].valid /\ bufTable[n].pinCnt > 0
  <2>1. PICK k \in NumBufs + 1 .. 2 * NumBufs : FrameAt(k) = n
    BY <1>1
  <2>2. k \in 1 .. 2 * NumBufs /\ k > NumBufs
    BY NumBufs3Assumption
  <2>3. ~Stops(k)
    BY <1>3, <2>2 DEF Candidates
  <2>4. bufTable[n].valid /\ bufTable[n].pinCnt # 0
    BY <2>1, <2>2, <2>3 DEF Stops
  <2>5. bufTable[n].pinCnt \in Nat
    BY DEF FrameTypes
  <2> QED
    BY <2>4, <2>5
<1> QED
  BY <1>2, <1>3

(* No other valid frame has the page that is own of a frame. *)
LEMMA OwnApart ==
  ASSUME PoolInv, NEW n \in Frames, Own(n), NEW m \in Frames, bufTable[m].valid, m # n
  PROVE  bufTable[m].page # bufTable[n].page
<1> SUFFICES ASSUME bufTable[m].page = bufTable[n].page PROVE FALSE
  OBVIOUS
<1> DEFINE a == ToFrame(bufTable[n].page, n)
           b == ToFrame(bufTable[m].page, m)
<1>1. a \in Entered(ht) /\ a.page = bufTable[n].page /\ a.frameNo = n
  BY DEF Own, ToFrame
<1>2. ~Lost(m)
  BY <1>1 DEF Lost
<1>3. b \in Entered(ht) /\ b.page = bufTable[m].page /\ b.frameNo = m
  BY <1>2 DEF PoolInv, OwnOrLost, Own, ToFrame
<1> HIDE DEF a, b
<1>4. a = b
  BY <1>1, <1>3, OneOfAPage DEF PoolInv
<1> QED
  BY <1>1, <1>3, <1>4
-----------------------------------------------------------------------------
(* The calls.                                                              *)

(* The table without the victim. *)
LEMMA UnhashedIs ==
  ASSUME PoolInv, Candidates # {}
  PROVE  /\ Victim \in Frames /\ Sound(Unhashed)
         /\ bufTable[Victim].valid => bufTable[Victim].pinCnt = 0
         /\ Entered(Unhashed) = {e \in Entered(ht) : e.frameNo # Victim}
<1> DEFINE v == Victim
<1>1. v \in Frames /\ (bufTable[v].valid => bufTable[v].pinCnt = 0)
  BY VictimIs DEF PoolInv, PoolTypes
<1>2. CASE ~bufTable[v].valid
  <2>1. Unhashed = ht
    BY <1>2 DEF Unhashed
  <2>2. \A e \in Entered(ht) : e.frameNo # v
    BY <1>2 DEF PoolInv, Leads
  <2> QED
    BY <1>1, <2>1, <2>2 DEF PoolInv
<1>3. CASE bufTable[v].valid
  <2> DEFINE pg == bufTable[v].page
  <2>1. Unhashed = remove(ht, pg) /\ pg \in Named
    BY <1>1, <1>3 DEF Unhashed, PoolInv, PoolTypes, FrameTypes
  <2>2. Sound(Unhashed) /\ Entered(Unhashed) = {e \in Entered(ht) : e.page # pg}
    <3> HIDE DEF pg
    <3> QED
      BY <2>1, RemoveIs DEF PoolInv
  <2>3. ASSUME NEW e \in Entered(ht) PROVE e.page = pg <=> e.frameNo = v
    <3>1. ASSUME e.frameNo = v PROVE e.page = pg
      BY <3>1 DEF PoolInv, Leads
    <3>2. ASSUME e.page = pg PROVE e.frameNo = v
      <4>1. ~Lost(v)
        BY <3>2 DEF Lost
      <4>2. ToFrame(pg, v) \in Entered(ht)
        BY <1>1, <1>3, <4>1 DEF PoolInv, OwnOrLost, Own
      <4>3. ToFrame(pg, v).page = pg /\ ToFrame(pg, v).frameNo = v
        BY DEF ToFrame
      <4>4. e = ToFrame(pg, v)
        BY <3>2, <4>2, <4>3, OneOfAPage DEF PoolInv
      <4> QED
        BY <4>3, <4>4
    <3> QED
      BY <3>1, <3>2
  <2> QED
    BY <1>1, <2>2, <2>3
<1> QED
  BY <1>2, <1>3

(* A frame is given to a page that is in none. *)
LEMMA GivenKeeps ==
  ASSUME PoolInv, Candidates # {}, NEW pg \in Named, NEW content, Given(pg, content),
         \A e \in Entered(ht) : e.page # pg,
         \A n \in Frames : bufTable[n].valid => bufTable[n].page # pg,
         numPages' \in [Files -> Nat], \A f \in Files : numPages[f] <= numPages'[f],
         pg[2] < numPages'[pg[1]]
  PROVE  PoolInv' /\ (NoneLost => NoneLost')
<1>1. PICK v \in Frames : v = Victim
  BY UnhashedIs
<1> DEFINE E == Entered(ht)
           F == Entered(ht')
           x == ToFrame(pg, v)
           T == [page : Named \cup {NoPage}, pinCnt : Nat, dirty : BOOLEAN, valid : BOOLEAN, refbit : BOOLEAN]
           old == Swept(LastScan - 1)
<1>2. Sound(ht') /\ F = {e \in E : e.frameNo # v} \cup {x}
  <2>1. Sound(Unhashed) /\ Entered(Unhashed) = {e \in E : e.frameNo # v}
    BY <1>1, UnhashedIs
  <2>2. \A e \in Entered(Unhashed) : e.page # pg
    BY <2>1
  <2>3. ht' = insert(Unhashed, pg, v)
    BY <1>1 DEF Given
  <2> QED
    BY <1>1, <2>1, <2>2, <2>3, InsertIs
<1>3. /\ old \in [Frames -> T]
      /\ \A n \in Frames : /\ old[n].page = bufTable[n].page /\ old[n].pinCnt = bufTable[n].pinCnt
                           /\ old[n].valid = bufTable[n].valid
  BY SweptIs DEF PoolInv, PoolTypes
<1>4. bufTable' = [old EXCEPT ![v] = Set(pg)] /\ clockHand' = v
  BY <1>1 DEF Given
<1>5. /\ Set(pg) \in T /\ Set(pg).page = pg /\ Set(pg).pinCnt = 1 /\ Set(pg).valid
      /\ x.page = pg /\ x.frameNo = v
  BY DEF Set, ToFrame
<1> HIDE DEF x, old, T
<1>6. /\ bufTable' \in [Frames -> T] /\ bufTable'[v] = Set(pg)
      /\ \A n \in Frames \ {v} : bufTable'[n] = old[n]
  BY <1>1, <1>3, <1>4, <1>5
<1>7. \A n \in Frames \ {v} : /\ bufTable'[n].page = bufTable[n].page
                              /\ bufTable'[n].pinCnt = bufTable[n].pinCnt
                              /\ bufTable'[n].valid = bufTable[n].valid
  BY <1>3, <1>6
<1>8. Own(v)'
  BY <1>1, <1>2, <1>5, <1>6 DEF Own, x
<1>9. ASSUME NEW n \in Frames \ {v} PROVE /\ Own(n) => Own(n)'
                                          /\ bufTable[n].valid /\ Lost(n) => Lost(n)'
  <2>1. ASSUME Own(n) PROVE Own(n)'
    <3>1. ToFrame(bufTable[n].page, n) \in E /\ ToFrame(bufTable[n].page, n).frameNo = n
      BY <2>1 DEF Own, ToFrame
    <3>2. ToFrame(bufTable[n].page, n) \in F
      BY <1>2, <3>1
    <3> QED
      BY <1>7, <3>2 DEF Own
  <2>2. ASSUME bufTable[n].valid, Lost(n) PROVE Lost(n)'
    <3>1. \A e \in F : e.page # bufTable[n].page
      BY <1>2, <1>5, <2>2 DEF Lost
    <3> QED
      BY <1>7, <3>1 DEF Lost
  <2> QED
    BY <2>1, <2>2
<1>10. PoolTypes'
  <2>1. \A n \in Frames : bufTable'[n].valid => bufTable'[n].page \in Named
    <3>1. \A n \in Frames : bufTable[n].valid => bufTable[n].page \in Named
      BY DEF PoolInv, PoolTypes, FrameTypes
    <3> QED
      BY <1>5, <1>6, <1>7, <3>1
  <2> QED
    BY <1>1, <1>4, <1>6, <2>1 DEF PoolTypes, FrameTypes, T
<1>11. Leads'
  <2> SUFFICES ASSUME NEW e \in F
               PROVE  bufTable'[e.frameNo].valid /\ bufTable'[e.frameNo].page = e.page
    BY DEF Leads
  <2>1. CASE e = x
    BY <1>5, <1>6, <2>1
  <2>2. CASE e \in E /\ e.frameNo # v
    <3>1. e.frameNo \in Frames
      BY <2>2, OneOfAPage DEF PoolInv, Entry
    <3>2. bufTable[e.frameNo].valid /\ bufTable[e.frameNo].page = e.page
      BY <2>2 DEF PoolInv, Leads
    <3> QED
      BY <1>7, <2>2, <3>1, <3>2
  <2> QED
    BY <1>2, <2>1, <2>2
<1>12. PinsOwn'
  BY <1>7, <1>8, <1>9 DEF PinsOwn, PoolInv
<1>13. OwnOrLost'
  BY <1>7, <1>8, <1>9 DEF OwnOrLost, PoolInv
<1>14. Below'
  <2> SUFFICES ASSUME NEW n \in Frames, bufTable'[n].valid
               PROVE  bufTable'[n].page[2] < numPages'[bufTable'[n].page[1]]
    BY DEF Below
  <2>1. CASE n = v
    BY <1>5, <1>6, <2>1
  <2>2. CASE n # v
    <3> DEFINE q == bufTable[n].page
    <3>1. bufTable'[n].page = q /\ bufTable[n].valid
      BY <1>7, <2>2
    <3>2. q[2] < numPages[q[1]] /\ q \in Named
      BY <3>1 DEF PoolInv, Below, PoolTypes, FrameTypes
    <3> HIDE DEF q
    <3>3. q[1] \in Files /\ q[2] \in Nat
      BY <3>2 DEF Named
    <3>4. numPages[q[1]] \in Nat /\ numPages'[q[1]] \in Nat /\ numPages[q[1]] <= numPages'[q[1]]
      BY <3>3 DEF PoolInv, PoolTypes
    <3> QED
      BY <3>1, <3>2, <3>3, <3>4
  <2> QED
    BY <2>1, <2>2
<1>15. NoneLost => NoneLost'
  BY <1>7, <1>8, <1>9 DEF NoneLost
<1> QED
  BY <1>2, <1>10, <1>11, <1>12, <1>13, <1>14, <1>15 DEF PoolInv

(* What only changes reference bits and pin counts, of frames that are own *)
(* if they are pinned then, keeps the pool right.                          *)
LEMMA SameKeeps ==
  ASSUME PoolInv, UNCHANGED ht, clockHand' \in Frames, numPages' \in [Files -> Nat],
         bufTable' \in [Frames -> [page : Named \cup {NoPage}, pinCnt : Nat, dirty : BOOLEAN,
                                   valid : BOOLEAN, refbit : BOOLEAN]],
         \A n \in Frames : /\ bufTable'[n].page = bufTable[n].page
                           /\ bufTable'[n].valid = bufTable[n].valid
                           /\ bufTable'[n].pinCnt > 0 => Own(n),
         \A n \in Frames : bufTable[n].valid =>
           numPages[bufTable[n].page[1]] <= numPages'[bufTable[n].page[1]]
  PROVE  PoolInv' /\ (NoneLost => NoneLost') /\ (NoPages => NoPages')
<1>1. \A n \in Frames : (Own(n) => Own(n)') /\ (Lost(n) => Lost(n)')
  BY DEF Own, Lost
<1>2. PoolTypes'
  BY DEF PoolInv, PoolTypes, FrameTypes
<1>3. Sound(ht')
  BY DEF PoolInv
<1>4. Leads'
  <2> SUFFICES ASSUME NEW e \in Entered(ht)
               PROVE  bufTable'[e.frameNo].valid /\ bufTable'[e.frameNo].page = e.page
    BY DEF Leads
  <2>1. e.frameNo \in Frames
    BY OneOfAPage DEF PoolInv, Entry
  <2> QED
    BY <2>1 DEF PoolInv, Leads
<1>5. PinsOwn'
  BY <1>1 DEF PinsOwn
<1>6. OwnOrLost'
  BY <1>1 DEF OwnOrLost, PoolInv
<1>7. Below'
  <2> SUFFICES ASSUME NEW n \in Frames, bufTable'[n].valid
               PROVE  bufTable'[n].page[2] < numPages'[bufTable'[n].page[1]]
    BY DEF Below
  <2> DEFINE q == bufTable[n].page
  <2>1. bufTable'[n].page = q /\ bufTable[n].valid
    OBVIOUS
  <2>2. q[2] < numPages[q[1]] /\ q \in Named
    BY <2>1 DEF PoolInv, Below, PoolTypes, FrameTypes
  <2>3. numPages[q[1]] <= numPages'[q[1]]
    BY <2>1
  <2> HIDE DEF q
  <2>4. q[1] \in Files /\ q[2] \in Nat
    BY <2>2 DEF Named
  <2>5. numPages[q[1]] \in Nat /\ numPages'[q[1]] \in Nat
    BY <2>4 DEF PoolInv, PoolTypes
  <2> QED
    BY <2>1, <2>2, <2>3, <2>4, <2>5
<1>8. NoneLost => NoneLost'
  BY <1>1 DEF NoneLost
<1>9. NoPages => NoPages'
  BY DEF NoPages
<1> QED
  BY <1>2, <1>3, <1>4, <1>5, <1>6, <1>7, <1>8, <1>9 DEF PoolInv

(* A call that finds no frame: then none is lost, all are pinned.          *)
LEMMA ExceededKeeps ==
  ASSUME PoolInv, Exceeded, numPages' \in [Files -> Nat],
         \A f \in Files : numPages[f] <= numPages'[f]
  PROVE  PoolInv' /\ NoneLost'
<1>1. \A n \in Frames : bufTable[n].valid /\ bufTable[n].pinCnt > 0
  BY VictimIs DEF Exceeded, PoolInv, PoolTypes
<1>2. \A n \in Frames : Own(n)
  BY <1>1 DEF PoolInv, PinsOwn
<1>3. NoneLost
  BY <1>2 DEF NoneLost
<1>4. bufTable' = Swept(2 * NumBufs) /\ UNCHANGED <<ht, clockHand>>
  BY DEF Exceeded
<1>5. \A n \in Frames : bufTable[n].page[1] \in Files
  BY <1>1 DEF PoolInv, PoolTypes, FrameTypes, Named
<1>6. /\ bufTable' \in [Frames -> [page : Named \cup {NoPage}, pinCnt : Nat, dirty : BOOLEAN,
                                   valid : BOOLEAN, refbit : BOOLEAN]]
      /\ \A n \in Frames : /\ bufTable'[n].page = bufTable[n].page
                           /\ bufTable'[n].valid = bufTable[n].valid
  BY <1>4, SweptIs DEF PoolInv, PoolTypes
<1>7. clockHand' \in Frames
  BY <1>4 DEF PoolInv, PoolTypes
<1> QED
  BY <1>2, <1>3, <1>4, <1>5, <1>6, <1>7, SameKeeps

(* A page that is hashed is in a frame that is its own. *)
LEMMA HashedIs ==
  ASSUME PoolInv, NEW pg \in Named, IsHashed(ht, pg), NEW n, n = lookup(ht, pg)
  PROVE  n \in Frames /\ bufTable[n].valid /\ bufTable[n].page = pg /\ Own(n)
<1>1. n \in Frames /\ ToFrame(pg, n) \in Entered(ht)
  BY LookupIs DEF PoolInv
<1>2. bufTable[n].valid /\ bufTable[n].page = pg
  BY <1>1 DEF PoolInv, Leads, ToFrame
<1> QED
  BY <1>1, <1>2 DEF Own

(* A page that is in a frame is pinned once more. *)
LEMMA ReadHitKeeps ==
  ASSUME PoolInv, NEW pg \in Named, ReadHit(pg), UNCHANGED numPages
  PROVE  PoolInv' /\ (NoneLost => NoneLost')
<1>1. PICK n : n = lookup(ht, pg)
  OBVIOUS
<1>2. n \in Frames /\ bufTable[n].valid /\ bufTable[n].page = pg /\ Own(n)
  BY <1>1, HashedIs DEF ReadHit
<1>3. bufTable' = [bufTable EXCEPT ![n].refbit = TRUE, ![n].pinCnt = @ + 1] /\ UNCHANGED <<ht, clockHand>>
  BY <1>1 DEF ReadHit
<1>4. /\ bufTable' \in [Frames -> [page : Named \cup {NoPage}, pinCnt : Nat, dirty : BOOLEAN,
                                   valid : BOOLEAN, refbit : BOOLEAN]]
      /\ \A m \in Frames : /\ bufTable'[m].page = bufTable[m].page
                           /\ bufTable'[m].valid = bufTable[m].valid
                           /\ m # n => bufTable'[m] = bufTable[m]
  BY <1>2, <1>3 DEF PoolInv, PoolTypes, FrameTypes
<1>5. \A m \in Frames : bufTable'[m].pinCnt > 0 => Own(m)
  BY <1>2, <1>4 DEF PoolInv, PinsOwn
<1>6. clockHand' \in Frames /\ numPages' \in [Files -> Nat]
  BY <1>3 DEF PoolInv, PoolTypes
<1>7. \A m \in Frames : bufTable[m].valid =>
        numPages[bufTable[m].page[1]] <= numPages'[bufTable[m].page[1]]
  BY DEF PoolInv, PoolTypes, FrameTypes, Named
<1> QED
  BY <1>3, <1>4, <1>5, <1>6, <1>7, SameKeeps

(* A page is unpinned, or is not pinned or not there.                      *)
LEMMA UnPinKeeps ==
  ASSUME PoolInv, NEW pg \in Named, NEW dirty, UnPinPage(pg, dirty)
  PROVE  PoolInv' /\ (NoneLost => NoneLost')
<1>1. UNCHANGED <<ht, clockHand, numPages>>
  BY DEF UnPinPage
<1>2. clockHand' \in Frames /\ numPages' \in [Files -> Nat]
  BY <1>1 DEF PoolInv, PoolTypes
<1>3. \A m \in Frames : bufTable[m].valid =>
        numPages[bufTable[m].page[1]] <= numPages'[bufTable[m].page[1]]
  BY <1>1 DEF PoolInv, PoolTypes, FrameTypes, Named
<1>4. /\ bufTable' \in [Frames -> [page : Named \cup {NoPage}, pinCnt : Nat, dirty : BOOLEAN,
                                   valid : BOOLEAN, refbit : BOOLEAN]]
      /\ \A m \in Frames : /\ bufTable'[m].page = bufTable[m].page
                           /\ bufTable'[m].valid = bufTable[m].valid
                           /\ bufTable'[m].pinCnt > 0 => bufTable[m].pinCnt > 0
  <2>1. CASE UNCHANGED bufTable
    BY <2>1 DEF PoolInv, PoolTypes, FrameTypes
  <2>2. CASE ~UNCHANGED bufTable
    <3>1. PICK n : n = lookup(ht, pg)
      OBVIOUS
    <3>2. /\ IsHashed(ht, pg) /\ bufTable[n].pinCnt # 0
          /\ bufTable' = [bufTable EXCEPT ![n].pinCnt = @ - 1, ![n].dirty = @ \/ dirty]
      BY <2>2, <3>1 DEF UnPinPage
    <3>3. n \in Frames
      BY <3>1, <3>2, HashedIs
    <3>4. bufTable[n].pinCnt \in Nat \ {0} /\ bufTable[n].dirty \in BOOLEAN
      BY <3>2, <3>3 DEF PoolInv, PoolTypes, FrameTypes
    <3>5. bufTable[n].pinCnt - 1 \in Nat /\ bufTable[n].pinCnt > 0 /\ (bufTable[n].dirty \/ dirty) \in BOOLEAN
      BY <3>4
    <3> QED
      BY <3>2, <3>3, <3>5 DEF PoolInv, PoolTypes, FrameTypes
  <2> QED
    BY <2>1, <2>2
<1>5. \A m \in Frames : bufTable'[m].pinCnt > 0 => Own(m)
  BY <1>4 DEF PoolInv, PinsOwn
<1> QED
  BY <1>1, <1>2, <1>3, <1>4, <1>5, SameKeeps

(* A page that is not in a frame is given one.                             *)
LEMMA ReadMissKeeps ==
  ASSUME PoolInv, NoneLost, NEW pg \in Named, ReadMiss(pg), UNCHANGED numPages
  PROVE  PoolInv' /\ NoneLost'
<1>1. numPages' \in [Files -> Nat] /\ \A f \in Files : numPages[f] <= numPages'[f]
  BY DEF PoolInv, PoolTypes
<1>2. \A e \in Entered(ht) : e.page # pg
  BY LookupIs DEF ReadMiss, PoolInv
<1>3. \A n \in Frames : bufTable[n].valid => bufTable[n].page # pg
  <2> SUFFICES ASSUME NEW n \in Frames, bufTable[n].valid PROVE bufTable[n].page # pg
    OBVIOUS
  <2>1. ToFrame(bufTable[n].page, n) \in Entered(ht) /\ ToFrame(bufTable[n].page, n).page = bufTable[n].page
    BY DEF NoneLost, Own, ToFrame
  <2> QED
    BY <1>2, <2>1
<1>4. CASE Exceeded
  BY <1>1, <1>4, ExceededKeeps
<1>5. CASE ~Exceeded
  <2>1. Candidates # {} /\ pg[2] < numPages'[pg[1]]
    BY <1>5 DEF ReadMiss
  <2>2. PICK content : Given(pg, content)
    BY <1>5 DEF ReadMiss
  <2> QED
    BY <1>1, <1>2, <1>3, <2>1, <2>2, GivenKeeps
<1> QED
  BY <1>4, <1>5

(* What is read past the end leaves its victim without an entry.           *)
LEMMA ReadFailsKeeps ==
  ASSUME PoolInv, NEW pg, ReadFails(pg), UNCHANGED numPages
  PROVE  PoolInv'
<1>1. PICK v \in Frames : v = Victim
  BY UnhashedIs DEF ReadFails
<1> DEFINE E == Entered(ht)
           F == Entered(ht')
           T == [page : Named \cup {NoPage}, pinCnt : Nat, dirty : BOOLEAN, valid : BOOLEAN, refbit : BOOLEAN]
           old == Swept(LastScan - 1)
<1>2. Sound(ht') /\ F = {e \in E : e.frameNo # v} /\ (bufTable[v].valid => bufTable[v].pinCnt = 0)
  BY <1>1, UnhashedIs DEF ReadFails
<1>3. /\ old \in [Frames -> T]
      /\ \A n \in Frames : /\ old[n].page = bufTable[n].page /\ old[n].pinCnt = bufTable[n].pinCnt
                           /\ old[n].valid = bufTable[n].valid
  BY SweptIs DEF PoolInv, PoolTypes
<1>4. bufTable' = [old EXCEPT ![v].dirty = FALSE] /\ clockHand' = v
  BY <1>1 DEF ReadFails
<1> HIDE DEF old
<1>5. /\ bufTable' \in [Frames -> T]
      /\ \A n \in Frames : /\ bufTable'[n].page = bufTable[n].page
                           /\ bufTable'[n].pinCnt = bufTable[n].pinCnt
                           /\ bufTable'[n].valid = bufTable[n].valid
  BY <1>3, <1>4
<1> HIDE DEF T
<1>6. \A n \in Frames \ {v} : Own(n) => Own(n)'
  <2> SUFFICES ASSUME NEW n \in Frames \ {v}, Own(n) PROVE Own(n)'
    OBVIOUS
  <2>1. ToFrame(bufTable[n].page, n) \in E /\ ToFrame(bufTable[n].page, n).frameNo = n
    BY DEF Own, ToFrame
  <2>2. ToFrame(bufTable[n].page, n) \in F
    BY <1>2, <2>1
  <2> QED
    BY <1>5, <2>2 DEF Own
<1>7. \A n \in Frames : Lost(n) => Lost(n)'
  BY <1>2, <1>5 DEF Lost
<1>8. bufTable[v].valid => Lost(v)'
  <2> SUFFICES ASSUME bufTable[v].valid, NEW e \in F, e.page = bufTable[v].page PROVE FALSE
    BY <1>5 DEF Lost
  <2>1. e \in E /\ e.frameNo # v
    BY <1>2
  <2>2. e.frameNo \in Frames /\ bufTable[e.frameNo].valid /\ bufTable[e.frameNo].page = e.page
    BY <2>1, OneOfAPage DEF PoolInv, Entry, Leads
  <2>3. e = ToFrame(e.page, e.frameNo)
    BY <2>1, OneOfAPage DEF PoolInv, Entry, ToFrame
  <2>4. Own(e.frameNo)
    BY <2>1, <2>2, <2>3 DEF Own
  <2> QED
    BY <2>1, <2>2, <2>4, OwnApart
<1>9. PoolTypes'
  BY <1>4, <1>5 DEF PoolInv, PoolTypes, FrameTypes, T
<1>10. Leads'
  <2> SUFFICES ASSUME NEW e \in F
               PROVE  bufTable'[e.frameNo].valid /\ bufTable'[e.frameNo].page = e.page
    BY DEF Leads
  <2>1. e \in E /\ e.frameNo \in Frames
    BY <1>2, OneOfAPage DEF PoolInv, Entry
  <2> QED
    BY <1>5, <2>1 DEF PoolInv, Leads
<1>11. PinsOwn'
  <2> SUFFICES ASSUME NEW n \in Frames, bufTable[n].pinCnt > 0 PROVE Own(n)'
    BY <1>5 DEF PinsOwn
  <2>1. Own(n)
    BY DEF PoolInv, PinsOwn
  <2>2. bufTable[n].valid
    BY <2>1 DEF PoolInv, Leads, Own, ToFrame
  <2> QED
    BY <1>2, <1>6, <2>1, <2>2
<1>12. OwnOrLost'
  BY <1>5, <1>6, <1>7, <1>8 DEF OwnOrLost, PoolInv
<1>13. Below'
  BY <1>5 DEF Below, PoolInv
<1> QED
  BY <1>2, <1>9, <1>10, <1>11, <1>12, <1>13 DEF PoolInv

(* A page is added to a file, and given a frame if there is one.           *)
LEMMA AllocKeeps ==
  ASSUME PoolInv, NEW f \in Files, NEW fills, AllocPage(f, fills)
  PROVE  PoolInv' /\ (NoneLost => NoneLost') /\ (status' # "OK" => NoneLost')
<1> DEFINE pg == NewPage(f)
<1>1. /\ Defined(pg) => pg \in Named
      /\ pg[1] = f /\ pg[2] = numPages[f]
      /\ numPages[f] \in Nat
  BY DEF PoolInv, PoolTypes, NewPage, Named
<1>2. numPages' = [numPages EXCEPT ![f] = @ + 1]
  BY DEF AllocPage
<1>3. /\ numPages' \in [Files -> Nat] /\ numPages'[f] = numPages[f] + 1
      /\ \A g \in Files : numPages[g] <= numPages'[g]
  BY <1>1, <1>2 DEF PoolInv, PoolTypes
<1>4. \A n \in Frames : bufTable[n].valid => bufTable[n].page # pg
  <2> SUFFICES ASSUME NEW n \in Frames, bufTable[n].valid, bufTable[n].page = pg PROVE FALSE
    OBVIOUS
  <2>1. pg[2] < numPages[pg[1]]
    BY DEF PoolInv, Below
  <2> QED
    BY <1>1, <2>1
<1> HIDE DEF pg
<1>5. \A e \in Entered(ht) : e.page # pg
  <2> SUFFICES ASSUME NEW e \in Entered(ht) PROVE e.page # pg
    OBVIOUS
  <2>1. e.frameNo \in Frames /\ bufTable[e.frameNo].valid /\ bufTable[e.frameNo].page = e.page
    BY OneOfAPage DEF PoolInv, Entry, Leads
  <2> QED
    BY <1>4, <2>1
<1>6. CASE Exceeded
  BY <1>3, <1>6, ExceededKeeps
<1>7. CASE ~Exceeded
  <2>1. Candidates # {} /\ pg[2] < numPages'[pg[1]]
    BY <1>1, <1>3, <1>7 DEF AllocPage
  <2>2. PICK content : Given(pg, content)
    BY <1>7 DEF AllocPage, pg
  <2>3. status' = "OK"
    BY <2>2 DEF Given
  <2>4. pg \in Named
    BY <1>1, <1>7 DEF AllocPage, pg
  <2> QED
    BY <1>1, <1>3, <1>4, <1>5, <2>1, <2>2, <2>3, <2>4, GivenKeeps
<1> QED
  BY <1>6, <1>7

(* The flush removes pages together with what their frames say of them.    *)
LEMMA FlushKeeps ==
  ASSUME PoolInv, NEW f, DoFlush(f)
  PROVE  PoolInv' /\ (NoneLost => NoneLost')
<1>1. PICK S \in SUBSET Frames : S = Flushed(f)
  BY DEF Flushed
<1> DEFINE gone == {bufTable[n].page : n \in S}
           E == Entered(ht)
           F == Entered(ht')
           T == [page : Named \cup {NoPage}, pinCnt : Nat, dirty : BOOLEAN, valid : BOOLEAN, refbit : BOOLEAN]
<1>2. \A n \in S : bufTable[n].valid /\ bufTable[n].pinCnt = 0
  <2> SUFFICES ASSUME NEW n \in S PROVE bufTable[n].valid /\ bufTable[n].pinCnt = 0
    OBVIOUS
  <2>1. OfFile(n, f) /\ \A k \in 0 .. n : OfFile(k, f) => bufTable[k].pinCnt = 0
    BY <1>1 DEF Flushed
  <2>2. n \in 0 .. n
    BY NumBufs3Assumption DEF Frames
  <2> QED
    BY <2>1, <2>2 DEF OfFile
<1>3. Sound(ht') /\ F = {e \in E : e.page \notin gone}
  <2>1. ht' = [h \in DOMAIN ht |-> Without(ht[h], gone)]
    BY <1>1 DEF DoFlush
  <2> HIDE DEF gone
  <2> QED
    BY <2>1, FlushedTable DEF PoolInv
<1>4. /\ bufTable' = [n \in Frames |->
                        IF n \in S
                        THEN [bufTable[n] EXCEPT !.page = NoPage, !.dirty = FALSE, !.valid = FALSE]
                        ELSE bufTable[n]]
      /\ UNCHANGED <<clockHand, numPages>>
  BY <1>1 DEF DoFlush
<1>5. ASSUME NEW n \in Frames
      PROVE  /\ bufTable'[n] \in T
             /\ n \in S => bufTable'[n].pinCnt = 0 /\ ~bufTable'[n].valid
             /\ n \notin S => bufTable'[n] = bufTable[n]
  <2>1. bufTable[n] \in T
    BY DEF PoolInv, PoolTypes, FrameTypes
  <2>2. CASE n \in S
    <3>1. bufTable'[n] = [bufTable[n] EXCEPT !.page = NoPage, !.dirty = FALSE, !.valid = FALSE]
      BY <1>4, <2>2
    <3> QED
      BY <1>2, <2>1, <2>2, <3>1
  <2>3. CASE n \notin S
    BY <1>4, <2>1, <2>3
  <2> QED
    BY <2>2, <2>3
<1>6. bufTable' \in [Frames -> T]
  <2>1. bufTable' = [n \in Frames |-> bufTable'[n]]
    BY <1>4
  <2> HIDE DEF T
  <2> QED
    BY <1>5, <2>1
<1>7. ASSUME NEW n \in Frames \ S PROVE (Own(n) => Own(n)') /\ (Lost(n) => Lost(n)')
  <2>1. ASSUME Own(n) PROVE Own(n)'
    <3>1. bufTable[n].page \notin gone
      <4> SUFFICES ASSUME NEW m \in S PROVE bufTable[m].page # bufTable[n].page
        OBVIOUS
      <4>1. m \in Frames /\ m # n /\ bufTable[m].valid
        BY <1>2
      <4> QED
        BY <2>1, <4>1, OwnApart
    <3>2. ToFrame(bufTable[n].page, n) \in E /\ ToFrame(bufTable[n].page, n).page = bufTable[n].page
      BY <2>1 DEF Own, ToFrame
    <3> HIDE DEF gone
    <3>3. ToFrame(bufTable[n].page, n) \in F
      BY <1>3, <3>1, <3>2
    <3> QED
      BY <1>5, <3>3 DEF Own
  <2>2. ASSUME Lost(n) PROVE Lost(n)'
    BY <1>3, <1>5, <2>2 DEF Lost
  <2> QED
    BY <2>1, <2>2
<1> HIDE DEF T
<1>8. PoolTypes'
  BY <1>4, <1>5, <1>6 DEF PoolInv, PoolTypes, FrameTypes, T
<1>9. Leads'
  <2> SUFFICES ASSUME NEW e \in F
               PROVE  bufTable'[e.frameNo].valid /\ bufTable'[e.frameNo].page = e.page
    BY DEF Leads
  <2>1. e \in E /\ e.frameNo \in Frames /\ e.page \notin gone
    BY <1>3, OneOfAPage DEF PoolInv, Entry
  <2>2. bufTable[e.frameNo].valid /\ bufTable[e.frameNo].page = e.page
    BY <2>1 DEF PoolInv, Leads
  <2>3. e.frameNo \notin S
    BY <2>1, <2>2
  <2> QED
    BY <1>5, <2>1, <2>2, <2>3
<1>10. PinsOwn'
  <2> SUFFICES ASSUME NEW n \in Frames, bufTable'[n].pinCnt > 0 PROVE Own(n)'
    BY DEF PinsOwn
  <2>1. n \notin S /\ bufTable'[n] = bufTable[n]
    BY <1>5
  <2> QED
    BY <1>7, <2>1 DEF PoolInv, PinsOwn
<1>11. \A n \in Frames : bufTable'[n].valid => n \notin S /\ bufTable[n].valid
  BY <1>5
<1>12. OwnOrLost'
  BY <1>7, <1>11 DEF OwnOrLost, PoolInv
<1>13. Below'
  BY <1>4, <1>5, <1>11 DEF Below, PoolInv
<1>14. NoneLost => NoneLost'
  BY <1>7, <1>11 DEF NoneLost
<1> QED
  BY <1>3, <1>8, <1>9, <1>10, <1>12, <1>13, <1>14 DEF PoolInv
-----------------------------------------------------------------------------
(* The program.                                                            *)

(* What the calls of a part are. *)
CallFits(c, loop, p) ==
  /\ c.file \in Names
  /\ c.do \in {"read", "unpin"} => c.nr \in {"j[i]", "i", "i+1", "i+2", "pageno"}
  /\ c.nr = "j[i]" => loop.first = 0 /\ loop.last = num - 1
  /\ p = 1 <=> c.do \in {"create", "open"}
  /\ p = 9 <=> c.do = "read" /\ ~c.ok
  /\ p \in 10 .. 12 => c.do \in {"alloc", "unpin"}
  /\ p = 12 => c.do = "alloc" /\ ~c.ok

Fits(loop, p) ==
  /\ loop.first \in Nat /\ loop.last \in Int /\ Len(loop.calls) \in Nat \ {0}
  /\ \A k \in 1 .. Len(loop.calls) : CallFits(loop.calls[k], loop, p)

(* Functions on 1..n are sequences. *)
LEMMA FunctionIsSeq ==
  ASSUME NEW S
  PROVE  /\ \A f \in [1 .. 2 -> S] : f \in Seq(S) /\ Len(f) = 2
         /\ \A f \in [1 .. 4 -> S] : f \in Seq(S) /\ Len(f) = 4
<1>1. \A n \in Nat : \A f \in [1 .. n -> S] : f \in Seq(S) /\ Len(f) = n
  OBVIOUS
<1>2. 2 \in Nat /\ 4 \in Nat
  OBVIOUS
<1> QED
  BY <1>1, <1>2, Zenon

(* Three sequences, one without its first element, make one. *)
LEMMA ThreePieces ==
  ASSUME NEW S, NEW a \in Seq(S), NEW b \in Seq(S), b # <<>>, NEW c \in Seq(S)
  PROVE  /\ a \o Tail(b) \o c \in Seq(S)
         /\ Len(a \o Tail(b) \o c) = Len(a) + (Len(b) - 1) + Len(c)
<1>1. Tail(b) \in Seq(S) /\ Len(Tail(b)) = Len(b) - 1
  OBVIOUS
<1>2. a \o Tail(b) \in Seq(S) /\ Len(a \o Tail(b)) = Len(a) + (Len(b) - 1)
  BY <1>1
<1> QED
  BY <1>2

(* So they are, in every part. *)
LEMMA PartsFit ==
  /\ Len(Parts) = 17
  /\ \A p \in 1 .. 17 : Fits(Parts[p], p)
  /\ Parts[9] = Absent /\ Parts[10] = UnPinned /\ Parts[11] = AllPins /\ Parts[12] = TooMany
  /\ Parts[17] = TearDown
<1>0. Third \in Int /\ num - 1 \in Int /\ file1 \in Names /\ file2 \in Names /\ file3 \in Names /\ file4 \in Names
  BY NumBufs3Assumption, NumIsPoolAssumption DEF Third, Names
<1>2. Fits(Allocate, 2)
  BY <1>0 DEF Allocate, Fits, CallFits, Once, Loop, Call, Alloc, Read, UnPin, Flush, Fails
<1>3. Fits(ReadBack, 3)
  BY <1>0 DEF ReadBack, Fits, CallFits, Once, Loop, Call, Alloc, Read, UnPin, Flush, Fails
<1>4. Fits(Several, 4)
  BY <1>0 DEF Several, Fits, CallFits, Once, Loop, Call, Alloc, Read, UnPin, Flush, Fails
<1>5. Fits(TwoPins, 5)
  BY <1>0 DEF TwoPins, Fits, CallFits, Once, Loop, Call, Alloc, Read, UnPin, Flush, Fails
<1>6. Fits(Reading1, 6)
  BY <1>0 DEF Reading1, Fits, CallFits, Once, Loop, Call, Alloc, Read, UnPin, Flush, Fails
<1>7. Fits(Reading2, 7)
  BY <1>0 DEF Reading2, Fits, CallFits, Once, Loop, Call, Alloc, Read, UnPin, Flush, Fails
<1>8. Fits(Reading3, 8)
  BY <1>0 DEF Reading3, Fits, CallFits, Once, Loop, Call, Alloc, Read, UnPin, Flush, Fails
<1>9. Fits(Absent, 9)
  BY <1>0 DEF Absent, Fits, CallFits, Once, Loop, Call, Alloc, Read, UnPin, Flush, Fails
<1>10. Fits(UnPinned, 10)
  BY <1>0 DEF UnPinned, Fits, CallFits, Once, Loop, Call, Alloc, Read, UnPin, Flush, Fails
<1>11. Fits(AllPins, 11)
  BY <1>0 DEF AllPins, Fits, CallFits, Once, Loop, Call, Alloc, Read, UnPin, Flush, Fails
<1>12. Fits(TooMany, 12)
  BY <1>0 DEF TooMany, Fits, CallFits, Once, Loop, Call, Alloc, Read, UnPin, Flush, Fails
<1>13. Fits(UnPinAll, 13)
  BY <1>0 DEF UnPinAll, Fits, CallFits, Once, Loop, Call, Alloc, Read, UnPin, Flush, Fails
<1>14. Fits(PinAll, 14)
  BY <1>0 DEF PinAll, Fits, CallFits, Once, Loop, Call, Alloc, Read, UnPin, Flush, Fails
<1>15. Fits(FlushPinned, 15)
  BY <1>0 DEF FlushPinned, Fits, CallFits, Once, Loop, Call, Alloc, Read, UnPin, Flush, Fails
<1>16. Fits(UnPinFile, 16)
  BY <1>0 DEF UnPinFile, Fits, CallFits, Once, Loop, Call, Alloc, Read, UnPin, Flush, Fails
<1>1. Fits(SetUp, 1)
  <2> DEFINE a == <<Call("create", file1, "-", FALSE), Fails(Call("create", file1, "-", FALSE))>>
             b == Of("create")
             c == Of("open")
             A == {x \in {a[k] : k \in 1 .. 2} \cup {b[k] : k \in 1 .. 4} \cup {c[k] : k \in 1 .. 4} :
                     CallFits(x, SetUp, 1)}
             s == a \o Tail(b) \o c
  <2>1. \A k \in 1 .. 2 : CallFits(a[k], SetUp, 1)
    BY <1>0 DEF CallFits, Call, Fails
  <2>2. \A k \in 1 .. 4 : CallFits(b[k], SetUp, 1) /\ CallFits(c[k], SetUp, 1)
    BY <1>0 DEF CallFits, Call, Of
  <2>3. a \in [1 .. 2 -> A]
    <3>1. \A k \in 1 .. 2 : a[k] \in A
      BY <2>1
    <3>2. a = [k \in 1 .. 2 |-> a[k]]
      OBVIOUS
    <3> HIDE DEF A, a
    <3> QED
      BY <3>1, <3>2
  <2>4. b \in [1 .. 4 -> A] /\ c \in [1 .. 4 -> A]
    <3>1. \A k \in 1 .. 4 : b[k] \in A /\ c[k] \in A
      BY <2>2
    <3>2. b = [k \in 1 .. 4 |-> b[k]] /\ c = [k \in 1 .. 4 |-> c[k]]
      BY DEF Of
    <3> HIDE DEF A, b, c
    <3> QED
      BY <3>1, <3>2
  <2>5. \A x \in A : CallFits(x, SetUp, 1)
    OBVIOUS
  <2>6. SetUp.calls = s /\ SetUp.first = 1 /\ SetUp.last = 1
    BY DEF SetUp, Once, Loop
  <2> HIDE DEF a, b, c, A
  <2>7. a \in Seq(A) /\ Len(a) = 2
    BY <2>3, FunctionIsSeq, Zenon
  <2>8. b \in Seq(A) /\ Len(b) = 4 /\ c \in Seq(A) /\ Len(c) = 4
    BY <2>4, FunctionIsSeq, Zenon
  <2>9. b # <<>>
    BY <2>8
  <2>10. s \in Seq(A) /\ Len(s) = Len(a) + (Len(b) - 1) + Len(c)
    <3>1. a \in Seq(A) /\ b \in Seq(A) /\ c \in Seq(A)
      BY <2>7, <2>8, Zenon
    <3> QED
      BY <2>9, <3>1, ThreePieces
  <2> HIDE DEF s
  <2>11. Len(s) = 9
    BY <2>7, <2>8, <2>10
  <2>12. \A k \in 1 .. Len(s) : CallFits(s[k], SetUp, 1)
    BY <2>5, <2>10
  <2> QED
    BY <1>0, <2>6, <2>11, <2>12 DEF Fits
<1>17. Fits(TearDown, 17)
  BY <1>0 DEF TearDown, Fits, CallFits, Once, Loop, Call, Flush, Of
<1>18. Parts[1] = SetUp /\ Parts[2] = Allocate /\ Parts[3] = ReadBack /\ Parts[4] = Several /\ Parts[5] = TwoPins /\ Parts[6] = Reading1 /\ Parts[7] = Reading2 /\ Parts[8] = Reading3 /\ Parts[9] = Absent
  BY DEF Parts
<1>19. Parts[10] = UnPinned /\ Parts[11] = AllPins /\ Parts[12] = TooMany /\ Parts[13] = UnPinAll /\ Parts[14] = PinAll /\ Parts[15] = FlushPinned /\ Parts[16] = UnPinFile /\ Parts[17] = TearDown
  BY DEF Parts
<1>20. Len(Parts) = 17
  BY DEF Parts
<1>21. ASSUME NEW p \in 1 .. 17 PROVE Fits(Parts[p], p)
  BY <1>1, <1>2, <1>3, <1>4, <1>5, <1>6, <1>7, <1>8, <1>9, <1>10, <1>11, <1>12, <1>13, <1>14, <1>15, <1>16, <1>17, <1>18, <1>19
<1> QED
  BY <1>18, <1>19, <1>20, <1>21

(* The next part has a round, and is the one behind if that has.           *)
LEMMA NextPartIs ==
  ASSUME part \in 1 .. 16
  PROVE  /\ NextPart \in part + 1 .. 17
         /\ Parts[NextPart].first <= Parts[NextPart].last
         /\ Parts[part + 1].first <= Parts[part + 1].last => NextPart = part + 1
<1> DEFINE open(p) == Parts[p].first <= Parts[p].last
           P(p) == p \in part + 1 .. 17 /\ open(p) /\ \A q \in part + 1 .. p - 1 : ~open(q)
           S == {p \in part + 1 .. 17 : open(p)}
<1>1. ASSUME NEW p \in 1 .. 17 PROVE Parts[p].first \in Int /\ Parts[p].last \in Int
  <2>1. Fits(Parts[p], p)
    BY PartsFit
  <2> QED
    BY <2>1 DEF Fits
<1>2. NextPart = CHOOSE p \in part + 1 .. 17 : open(p) /\ \A q \in part + 1 .. p - 1 : Parts[q].first > Parts[q].last
  BY PartsFit DEF NextPart
<1>3. \A q \in 1 .. 17 : (Parts[q].first > Parts[q].last) <=> ~open(q)
  BY <1>1
<1>4. open(17)
  BY PartsFit DEF TearDown, Once, Loop
<1> HIDE DEF open
<1>5. \E p \in S : \A q \in S : p <= q
  <2>1. S \subseteq Nat /\ 17 \in S
    BY <1>4
  <2> HIDE DEF S
  <2> QED
    BY <2>1, LeastElement
<1>6. PICK p \in part + 1 .. 17 : open(p) /\ \A q \in part + 1 .. p - 1 : Parts[q].first > Parts[q].last
  <2>1. PICK p \in S : \A q \in S : p <= q
    BY <1>5
  <2>2. p \in part + 1 .. 17 /\ open(p)
    OBVIOUS
  <2>3. \A q \in part + 1 .. p - 1 : q \in 1 .. 17 /\ q \in part + 1 .. 17 /\ ~(p <= q)
    BY <2>2
  <2>4. \A q \in part + 1 .. p - 1 : ~open(q)
    BY <2>1, <2>3
  <2> QED
    BY <1>3, <2>2, <2>3, <2>4
<1>7. /\ NextPart \in part + 1 .. 17 /\ open(NextPart)
      /\ \A q \in part + 1 .. NextPart - 1 : Parts[q].first > Parts[q].last
  BY <1>2, <1>6
<1>8. ASSUME open(part + 1) PROVE NextPart = part + 1
  <2>1. part + 1 \in 1 .. 17 /\ NextPart \in part + 1 .. 17
    BY <1>7
  <2>2. CASE NextPart > part + 1
    <3>1. part + 1 \in part + 1 .. NextPart - 1
      BY <2>1, <2>2
    <3> QED
      BY <1>3, <1>7, <1>8, <2>1, <3>1
  <2> QED
    BY <2>1, <2>2
<1> QED
  BY <1>7, <1>8 DEF open

(* Where the program goes. *)
LEMMA GoesIs ==
  ASSUME Place, Running, NEW ok, Goes(ok),
         j' \in [0 .. num - 1 -> Nat], pageno' \in [Names -> Nat], UNCHANGED file
  PROVE  /\ Place' /\ OnlyOutside'
         /\ Running' => ok
         /\ part' = 1 => part = 1
         /\ Running' /\ part = 9 => part' = 10
         /\ Running' /\ part \in 10 .. 11 => part' \in 10 .. 12
<1>0. /\ part \in 1 .. 17 /\ Fits(Parts[part], part) /\ Len(Parts) = 17
      /\ Len(Parts[part].calls) \in Nat /\ Parts[part].first \in Nat /\ Parts[part].last \in Int
  BY PartsFit DEF Place, Fits
<1>1. /\ Parts[9].last = 1 /\ Len(Parts[9].calls) = 1
      /\ \A p \in {10, 11, 12} : Parts[p].first <= Parts[p].last
  <2>1. Absent.last = 1 /\ Len(Absent.calls) = 1
    BY DEF Absent, Once, Loop
  <2>2. UnPinned.first = 1 /\ UnPinned.last = 1 /\ TooMany.first = 1 /\ TooMany.last = 1
    BY DEF UnPinned, TooMany, Once, Loop
  <2>3. AllPins.first = 0 /\ AllPins.last = num - 1 /\ num \in Nat /\ num >= 3
    BY NumBufs3Assumption, NumIsPoolAssumption DEF AllPins, Loop
  <2>4. Parts[9] = Absent /\ Parts[10] = UnPinned /\ Parts[11] = AllPins /\ Parts[12] = TooMany
    BY PartsFit
  <2> QED
    BY <2>1, <2>2, <2>3, <2>4
<1>2. CASE ~ok
  BY <1>2, <1>0 DEF Goes, Place, Running, OnlyOutside
<1>3. CASE ok /\ at < Len(Parts[part].calls)
  <2>1. at' = at + 1 /\ UNCHANGED <<part, i, outcome>>
    BY <1>3 DEF Goes
  <2>2. part # 9
    <3> SUFFICES ASSUME part = 9 PROVE FALSE
      OBVIOUS
    <3> DEFINE n == Len(Parts[part].calls)
    <3>1. at \in 1 .. n /\ at < n
      BY <1>3 DEF Place
    <3>2. n = 1
      BY <1>1
    <3> HIDE DEF n
    <3> QED
      BY <3>1, <3>2
  <2> QED
    BY <1>0, <1>3, <2>1, <2>2 DEF Place, Running, OnlyOutside
<1>4. CASE ok /\ at >= Len(Parts[part].calls) /\ i < Parts[part].last
  <2>1. at' = 1 /\ i' = i + 1 /\ UNCHANGED <<part, outcome>>
    BY <1>0, <1>4 DEF Goes, Place
  <2>2. part # 9
    BY <1>0, <1>1, <1>4, PartsFit DEF Place, Absent, Once, Loop
  <2>3. Len(Parts[part].calls) # 0
    BY <1>0 DEF Fits
  <2> QED
    BY <1>0, <1>4, <2>1, <2>2, <2>3 DEF Place, Running, OnlyOutside
<1>5. CASE ok /\ at >= Len(Parts[part].calls) /\ i >= Parts[part].last /\ part = 17
  <2>1. outcome' = "passed" /\ UNCHANGED <<part, at, i>>
    BY <1>0, <1>5 DEF Goes, Place
  <2> QED
    BY <1>0, <1>5, <2>1 DEF Place, Running, OnlyOutside
<1>6. CASE ok /\ at >= Len(Parts[part].calls) /\ i >= Parts[part].last /\ part # 17
  <2>1. part' = NextPart /\ at' = 1 /\ i' = Parts[part'].first /\ UNCHANGED outcome
    BY <1>0, <1>6 DEF Goes, Place
  <2>2. part \in 1 .. 16
    BY <1>0, <1>6
  <2>3. /\ part' \in part + 1 .. 17 /\ Parts[part'].first <= Parts[part'].last
        /\ Parts[part + 1].first <= Parts[part + 1].last => part' = part + 1
    BY <2>1, <2>2, NextPartIs
  <2>4. part' \in 1 .. 17 /\ Fits(Parts[part'], part')
    BY <2>2, <2>3, PartsFit
  <2>5. part \in 9 .. 11 => part' = part + 1
    BY <1>1, <2>2, <2>3
  <2>6. Place'
    <3>1. file' \in [Names -> Files]
      BY DEF Place
    <3>2. Len(Parts[part'].calls) \in Nat \ {0} /\ Parts[part'].first \in Nat /\ Parts[part'].last \in Int
      BY <2>4 DEF Fits
    <3>3. at' \in 1 .. Len(Parts[part'].calls) /\ i' \in Nat /\ i' \in Parts[part'].first .. Parts[part'].last
      BY <2>1, <2>3, <3>2
    <3>4. part' \in 1 .. Len(Parts')
      BY <1>0, <2>4
    <3> HIDE DEF Parts
    <3> QED
      BY <3>1, <3>3, <3>4 DEF Place
  <2> QED
    BY <1>6, <2>1, <2>2, <2>3, <2>5, <2>6 DEF OnlyOutside, Running
<1>7. i \in Nat /\ at \in Nat
  BY <1>0 DEF Place
<1> QED
  BY <1>0, <1>2, <1>3, <1>4, <1>5, <1>6, <1>7

(* The part is one. *)
LEMMA PartIs ==
  ASSUME Place
  PROVE  part \in Nat
<1>1. Len(Parts) = 17
  BY PartsFit
<1> HIDE DEF Parts
<1> QED
  BY <1>1 DEF Place

(* The call that is next. *)
LEMMA ThisFits ==
  ASSUME Place
  PROVE  CallFits(This, Parts[part], part)
BY PartsFit DEF Place, Fits, This

(* What is read or unpinned is a page. *)
LEMMA PageIs ==
  ASSUME Place, This.do \in {"read", "unpin"}
  PROVE  Page \in Files \X Nat /\ Page[1] = File
<1> DEFINE nr == CASE This.nr = "j[i]"   -> j[i]
                   [] This.nr = "i"      -> i
                   [] This.nr = "i+1"    -> i + 1
                   [] This.nr = "i+2"    -> i + 2
                   [] This.nr = "pageno" -> pageno[This.file]
<1>1. CallFits(This, Parts[part], part)
  BY ThisFits
<1>2. /\ This.file \in Names /\ This.nr \in {"j[i]", "i", "i+1", "i+2", "pageno"}
      /\ This.nr = "j[i]" => Parts[part].first = 0 /\ Parts[part].last = num - 1
  BY <1>1 DEF CallFits
<1>3. i \in Nat /\ (This.nr = "j[i]" => j[i] \in Nat) /\ pageno[This.file] \in Nat /\ File \in Files
  BY <1>2 DEF Place, File
<1>4. /\ This.nr = "j[i]" => nr = j[i]
      /\ This.nr = "i" => nr = i
      /\ This.nr = "i+1" => nr = i + 1
      /\ This.nr = "i+2" => nr = i + 2
      /\ This.nr = "pageno" => nr = pageno[This.file]
  OBVIOUS
<1>5. Page = <<File, nr>>
  BY DEF Page
<1> HIDE DEF nr
<1>6. nr \in Nat
  BY <1>2, <1>3, <1>4
<1> QED
  BY <1>3, <1>5, <1>6
-----------------------------------------------------------------------------
(* The program keeps the pool right.                                       *)

(* A step that leaves the pool as it is, except the pages of files.        *)
LEMMA IdleKeeps ==
  ASSUME PoolInv, UNCHANGED <<bufTable, ht, clockHand>>, numPages' \in [Files -> Nat],
         NoPages \/ UNCHANGED numPages
  PROVE  PoolInv' /\ (NoneLost => NoneLost') /\ (NoPages => NoPages')
<1>1. clockHand' \in Frames
  BY DEF PoolInv, PoolTypes
<1>2. /\ bufTable' \in [Frames -> [page : Named \cup {NoPage}, pinCnt : Nat, dirty : BOOLEAN,
                                   valid : BOOLEAN, refbit : BOOLEAN]]
      /\ \A n \in Frames : /\ bufTable'[n].page = bufTable[n].page
                           /\ bufTable'[n].valid = bufTable[n].valid
                           /\ bufTable'[n].pinCnt > 0 => Own(n)
  BY DEF PoolInv, PoolTypes, FrameTypes, PinsOwn
<1>3. ASSUME NEW n \in Frames, bufTable[n].valid
      PROVE  numPages[bufTable[n].page[1]] <= numPages'[bufTable[n].page[1]]
  <2>1. UNCHANGED numPages
    BY <1>3 DEF NoPages
  <2>2. bufTable[n].page[1] \in Files
    BY <1>3 DEF PoolInv, PoolTypes, FrameTypes, Named
  <2> QED
    BY <2>1, <2>2 DEF PoolInv, PoolTypes
<1> QED
  BY <1>1, <1>2, <1>3, SameKeeps

(* No frame is lost but in loops 10 to 12. *)
LEMMA NoneLostNow ==
  ASSUME TestInv, Running, part \notin 10 .. 12
  PROVE  NoneLost
BY DEF TestInv, LostWhen

(* A page is allocated. *)
LEMMA DoAllocKeeps ==
  ASSUME TestInv, DoAlloc, UNCHANGED file
  PROVE  TestInv'
<1>0. TestInv /\ PoolInv /\ Place /\ Running /\ This.do = "alloc" /\ CallFits(This, Parts[part], part)
  BY ThisFits DEF TestInv, DoAlloc
<1> DEFINE f == File
<1>1. f \in Files /\ This.file \in Names /\ part # 1 /\ part # 9 /\ (part = 12 => ~This.ok)
  BY <1>0 DEF CallFits, Place, File
<1>2. AllocPage(f, This.flag) /\ Goes(AsExpected)
  BY DEF DoAlloc
<1>3. PoolInv' /\ (NoneLost => NoneLost') /\ (status' # "OK" => NoneLost')
  <2> HIDE DEF f
  <2> QED
    BY <1>0, <1>1, <1>2, AllocKeeps
<1>4. numPages[f] \in Nat
  BY <1>0, <1>1 DEF PoolInv, PoolTypes
<1>5. j' \in [0 .. num - 1 -> Nat] /\ pageno' \in [Names -> Nat]
  BY <1>0, <1>1, <1>4 DEF DoAlloc, Place
<1>6. /\ Place' /\ OnlyOutside' /\ (Running' => AsExpected) /\ (part' = 1 => part = 1)
      /\ (Running' /\ part \in 10 .. 11 => part' \in 10 .. 12)
  BY <1>0, <1>2, <1>5, GoesIs
<1>7. LostWhen'
  <2> SUFFICES ASSUME Running', part' \notin 10 .. 12 PROVE NoneLost'
    BY DEF LostWhen
  <2>1. CASE part \in 10 .. 11
    BY <1>6, <2>1
  <2>2. CASE part = 12
    <3>1. AsExpected /\ ~This.ok
      BY <1>1, <1>6, <2>2
    <3>2. status' # "OK"
      BY <3>1, Zenon DEF AsExpected
    <3> QED
      BY <1>3, <3>2
  <2>3. CASE part \notin 10 .. 12
    BY <1>0, <1>3, <2>3, NoneLostNow
  <2>4. part \in Nat
    BY <1>0, PartIs
  <2> QED
    BY <2>1, <2>2, <2>3, <2>4
<1>8. EmptyFirst'
  BY <1>1, <1>6 DEF EmptyFirst
<1> QED
  BY <1>3, <1>6, <1>7, <1>8 DEF TestInv

(* A page is read. *)
LEMMA DoReadKeeps ==
  ASSUME TestInv, DoRead, UNCHANGED file
  PROVE  TestInv'
<1>0. TestInv /\ PoolInv /\ Place /\ Running /\ This.do = "read" /\ CallFits(This, Parts[part], part)
  BY ThisFits DEF TestInv, DoRead
<1>1. part # 1 /\ part \notin 10 .. 12 /\ (part # 9 => This.ok)
  BY <1>0 DEF CallFits
<1>2. NoneLost
  BY <1>0, <1>1, NoneLostNow
<1>3. PICK pg \in Named : pg = Page
  BY <1>0, PageIs DEF DoRead, ReadPage, Named
<1>4. (ReadHit(pg) \/ ReadMiss(pg) \/ ReadFails(pg)) /\ UNCHANGED numPages
  BY <1>3 DEF DoRead, ReadPage
<1>5. PICK ok : Goes(ok) /\ (ok => AsExpected)
  BY DEF DoRead
<1>6. j' \in [0 .. num - 1 -> Nat] /\ pageno' \in [Names -> Nat]
  BY <1>0 DEF DoRead, Place
<1>7. Place' /\ OnlyOutside' /\ (Running' => AsExpected) /\ (part' = 1 => part = 1) /\ (Running' /\ part = 9 => part' = 10)
  BY <1>0, <1>5, <1>6, GoesIs
<1>8. EmptyFirst'
  BY <1>1, <1>7 DEF EmptyFirst
<1>9. CASE ReadHit(pg)
  <2>1. PoolInv' /\ NoneLost'
    BY <1>0, <1>2, <1>4, <1>9, ReadHitKeeps
  <2> QED
    BY <1>7, <1>8, <2>1 DEF TestInv, LostWhen
<1>10. CASE ReadMiss(pg)
  <2>1. PoolInv' /\ NoneLost'
    BY <1>0, <1>2, <1>4, <1>10, ReadMissKeeps
  <2> QED
    BY <1>7, <1>8, <2>1 DEF TestInv, LostWhen
<1>11. CASE ReadFails(pg)
  <2>1. PoolInv'
    BY <1>0, <1>4, <1>11, ReadFailsKeeps
  <2>2. Running' => part = 9
    <3> SUFFICES ASSUME Running', part # 9 PROVE FALSE
      OBVIOUS
    <3>1. AsExpected /\ This.ok
      BY <1>1, <1>7
    <3>2. status' = "OK"
      BY <3>1, Zenon DEF AsExpected
    <3>3. status' = "UNIXERR"
      BY <1>11 DEF ReadFails
    <3> QED
      BY <3>2, <3>3
  <2>3. LostWhen'
    BY <1>7, <2>2 DEF LostWhen
  <2> QED
    BY <1>7, <1>8, <2>1, <2>3 DEF TestInv
<1> QED
  BY <1>4, <1>9, <1>10, <1>11

(* A page is unpinned. *)
LEMMA DoUnPinKeeps ==
  ASSUME TestInv, DoUnPin, UNCHANGED file
  PROVE  TestInv'
<1>0. TestInv /\ PoolInv /\ Place /\ Running /\ This.do = "unpin" /\ CallFits(This, Parts[part], part)
  BY ThisFits DEF TestInv, DoUnPin
<1>1. part # 1 /\ part # 9 /\ part # 12
  BY <1>0 DEF CallFits
<1>2. PICK pg \in Named : pg = Page
  BY <1>0, PageIs DEF DoUnPin, UnPinPage, Named
<1>3. PICK dirty : UnPinPage(pg, dirty)
  BY <1>2 DEF DoUnPin
<1>4. PoolInv' /\ (NoneLost => NoneLost')
  BY <1>0, <1>3, UnPinKeeps
<1>5. j' \in [0 .. num - 1 -> Nat] /\ pageno' \in [Names -> Nat] /\ Goes(AsExpected)
  BY <1>0 DEF DoUnPin, Place
<1>6. Place' /\ OnlyOutside' /\ (part' = 1 => part = 1) /\ (Running' /\ part \in 10 .. 11 => part' \in 10 .. 12)
  BY <1>0, <1>5, GoesIs
<1>7. LostWhen'
  <2> SUFFICES ASSUME Running', part' \notin 10 .. 12 PROVE NoneLost'
    BY DEF LostWhen
  <2>1. part \notin 10 .. 11 /\ part \in Nat
    BY <1>0, <1>6, PartIs
  <2>2. part \notin 10 .. 12
    BY <1>1, <2>1
  <2> QED
    BY <1>0, <1>4, <2>2, NoneLostNow
<1>8. EmptyFirst'
  BY <1>1, <1>6 DEF EmptyFirst
<1> QED
  BY <1>4, <1>6, <1>7, <1>8 DEF TestInv

(* A file is flushed, created, opened, closed or destroyed.                *)
LEMMA DoFileKeeps ==
  ASSUME TestInv, DoFile, UNCHANGED file
  PROVE  TestInv'
<1>0. TestInv /\ PoolInv /\ Place /\ Running /\ CallFits(This, Parts[part], part)
  BY ThisFits DEF TestInv, DoFile
<1>1. /\ This.do \in {"flush", "create", "open", "close", "destroy"} /\ This.file \in Names /\ File \in Files
      /\ This.do \in {"create", "open"} <=> part = 1
      /\ part \notin 10 .. 12
  BY <1>0 DEF CallFits, DoFile, Place, File
<1>2. NoneLost /\ (part = 1 => NoPages)
  BY <1>0, <1>1, NoneLostNow DEF TestInv, EmptyFirst
<1>3. j' \in [0 .. num - 1 -> Nat] /\ pageno' \in [Names -> Nat] /\ Goes(AsExpected)
  BY <1>0 DEF DoFile, Place
<1>4. Place' /\ OnlyOutside' /\ (part' = 1 => part = 1)
  BY <1>0, <1>3, GoesIs
<1>5. PoolInv' /\ NoneLost' /\ (part = 1 => NoPages')
  <2>1. CASE This.do \in {"flush", "close"}
    <3>1. PICK f : DoFlush(f)
      BY <2>1 DEF DoFile, FlushFile, CloseFile
    <3> QED
      BY <1>0, <1>1, <1>2, <2>1, <3>1, FlushKeeps
  <2>2. CASE This.do = "create"
    <3>1. PICK f \in Files : CreateFile(f)
      BY <1>1, <2>2 DEF DoFile
    <3>2. NoPages
      BY <1>1, <1>2, <2>2
    <3>3. UNCHANGED <<bufTable, ht, clockHand>> /\ numPages' \in [Files -> Nat]
      BY <1>0, <3>1 DEF CreateFile, Unchanged, PoolInv, PoolTypes
    <3> QED
      BY <1>0, <1>2, <3>2, <3>3, IdleKeeps
  <2>3. CASE This.do \in {"open", "destroy"}
    <3>1. UNCHANGED <<bufTable, ht, clockHand, numPages>>
      BY <2>3 DEF DoFile, OpenFile, DestroyFile, Unchanged
    <3>2. numPages' \in [Files -> Nat]
      BY <1>0, <3>1 DEF PoolInv, PoolTypes
    <3> QED
      BY <1>0, <1>2, <3>1, <3>2, IdleKeeps
  <2> QED
    BY <1>1, <2>1, <2>2, <2>3
<1> QED
  BY <1>4, <1>5 DEF TestInv, LostWhen, EmptyFirst

(* A page is drawn.                                                        *)
LEMMA RandomKeeps ==
  ASSUME TestInv, Random, UNCHANGED file
  PROVE  TestInv'
<1>0. TestInv /\ PoolInv /\ Place /\ Running /\ This.do = "random" /\ CallFits(This, Parts[part], part)
  BY ThisFits DEF TestInv, Random
<1>1. part # 1 /\ part \notin 10 .. 12
  BY <1>0 DEF CallFits
<1>2. NoneLost
  BY <1>0, <1>1, NoneLostNow
<1>3. PICK k \in 0 .. num - 1 : pageno' = [pageno EXCEPT ![This.file] = j[k]]
  BY DEF Random
<1>4. j' \in [0 .. num - 1 -> Nat] /\ pageno' \in [Names -> Nat] /\ Goes(TRUE)
  BY <1>0, <1>3 DEF Random, Place
<1>5. Place' /\ OnlyOutside' /\ (part' = 1 => part = 1)
  BY <1>0, <1>4, GoesIs
<1>6. UNCHANGED <<bufTable, ht, clockHand, numPages>>
  BY DEF Random, pool
<1>7. numPages' \in [Files -> Nat]
  BY <1>0, <1>6 DEF PoolInv, PoolTypes
<1>8. PoolInv' /\ NoneLost'
  BY <1>0, <1>2, <1>6, <1>7, IdleKeeps
<1> QED
  BY <1>1, <1>5, <1>8 DEF TestInv, LostWhen, EmptyFirst

(* A page hashes outside of the table.                                     *)
LEMMA DoUndefinedKeeps ==
  ASSUME TestInv, DoUndefined, UNCHANGED file
  PROVE  TestInv'
<1>0. TestInv /\ PoolInv /\ Place /\ Running /\ CallFits(This, Parts[part], part)
  BY ThisFits DEF TestInv, DoUndefined
<1>1. UNCHANGED <<bufTable, ht, clockHand, numPages, part, at, i, j, pageno>> /\ outcome' = "undefined"
  BY DEF DoUndefined, pool
<1>2. This.file \in Names /\ file \in [Names -> Files] /\ File = file[This.file] /\ File \in Files
  BY <1>0 DEF CallFits, Place, File
<1>3. \E n \in Nat : ~Defined(<<File, n>>)
  <2>1. CASE This.do \in {"read", "unpin"} /\ ~Defined(Page)
    <3>1. Page \in Files \X Nat /\ Page[1] = File
      BY <1>0, <2>1, PageIs
    <3>2. Page = <<File, Page[2]>> /\ Page[2] \in Nat
      BY <3>1
    <3> QED
      BY <2>1, <3>2
  <2>2. CASE ~Defined(NewPage(File))
    <3>1. numPages[File] \in Nat
      BY <1>0, <1>2 DEF PoolInv, PoolTypes
    <3> QED
      BY <2>2, <3>1 DEF NewPage
  <2> QED
    BY <2>1, <2>2 DEF DoUndefined
<1>4. OnlyOutside'
  BY <1>2, <1>3 DEF OnlyOutside
<1>5. numPages' \in [Files -> Nat]
  BY <1>0, <1>1 DEF PoolInv, PoolTypes
<1>6. PoolInv'
  BY <1>0, <1>1, <1>5, IdleKeeps
<1> QED
  BY <1>0, <1>1, <1>4, <1>6 DEF TestInv, Place, LostWhen, EmptyFirst, Running

(* The pool is empty at first.                                             *)
LEMMA InitTestInv == Init => TestInv
<1> SUFFICES ASSUME Init PROVE TestInv
  OBVIOUS
<1>1. /\ bufTable = [n \in Frames |-> EmptyFrame] /\ ht = [h \in 0 .. HTSIZE - 1 |-> <<>>]
      /\ clockHand = NumBufs - 1 /\ numPages = [f \in Files |-> 1]
  BY DEF Init, InitPool
<1>2. /\ EmptyFrame.page = NoPage /\ EmptyFrame.pinCnt = 0 /\ ~EmptyFrame.valid
      /\ EmptyFrame \in [page : Named \cup {NoPage}, pinCnt : Nat, dirty : BOOLEAN, valid : BOOLEAN, refbit : BOOLEAN]
  BY DEF EmptyFrame
<1>3. \A n \in Frames : bufTable[n].pinCnt = 0 /\ ~bufTable[n].valid
  BY <1>1, <1>2
<1>4. PoolTypes
  <2>1. clockHand \in Frames
    BY <1>1, NumBufs3Assumption DEF Frames
  <2> QED
    BY <1>1, <1>2, <2>1 DEF PoolTypes, FrameTypes
<1>5. Sound(ht) /\ Entered(ht) = {}
  <2>1. \A h \in 0 .. HTSIZE - 1 : ht[h] = <<>>
    BY <1>1
  <2>2. DOMAIN <<>> = {}
    OBVIOUS
  <2>3. ToSet(<<>>) = {}
    BY <2>2 DEF ToSet
  <2>4. ht \in [0 .. HTSIZE - 1 -> Seq(Entry)]
    BY <1>1
  <2>5. Sound(ht)
    BY <2>1, <2>2, <2>4 DEF Sound, Distinct
  <2> QED
    BY <2>1, <2>3, <2>5 DEF Entered
<1>6. PoolInv /\ NoneLost /\ NoPages
  BY <1>3, <1>4, <1>5 DEF PoolInv, Leads, PinsOwn, OwnOrLost, Below, NoneLost, NoPages
<1>7. Place
  <2>1. /\ part = 1 /\ at = 1 /\ i = 1 /\ j = [k \in 0 .. num - 1 |-> 0] /\ pageno = [f \in Names |-> 0]
        /\ file \in [Names -> Files]
    BY PlacesAssumption DEF Init, Injection
  <2>2. Parts[1].first = 1 /\ Parts[1].last = 1
    BY DEF Parts, SetUp, Once, Loop
  <2>3. Len(Parts) = 17 /\ Len(Parts[1].calls) \in Nat \ {0}
    BY PartsFit DEF Fits
  <2> QED
    BY <2>1, <2>2, <2>3 DEF Place
<1>8. OnlyOutside
  BY DEF Init, OnlyOutside
<1> QED
  BY <1>6, <1>7, <1>8 DEF TestInv, LostWhen, EmptyFirst

(* Every step keeps the invariant. *)
LEMMA NextTestInv == TestInv /\ [Next]_vars => TestInv'
<1> SUFFICES ASSUME TestInv, [Next]_vars PROVE TestInv'
  OBVIOUS
<1>0. UNCHANGED file
  BY DEF Next, vars
<1>1. CASE DoAlloc
  BY <1>0, <1>1, DoAllocKeeps
<1>2. CASE DoRead
  BY <1>0, <1>2, DoReadKeeps
<1>3. CASE DoUnPin
  BY <1>0, <1>3, DoUnPinKeeps
<1>4. CASE DoFile
  BY <1>0, <1>4, DoFileKeeps
<1>5. CASE Random
  BY <1>0, <1>5, RandomKeeps
<1>6. CASE DoUndefined
  BY <1>0, <1>6, DoUndefinedKeeps
<1>7. CASE UNCHANGED vars
  <2>1. UNCHANGED <<bufTable, ht, clockHand, numPages, file, part, at, i, j, pageno, outcome>>
    BY <1>7 DEF vars, pool
  <2>2. numPages' \in [Files -> Nat]
    BY <2>1 DEF TestInv, PoolInv, PoolTypes
  <2>3. PoolInv' /\ (NoneLost => NoneLost') /\ (NoPages => NoPages')
    BY <2>1, <2>2, IdleKeeps DEF TestInv
  <2> QED
    BY <2>1, <2>3 DEF TestInv, Place, LostWhen, EmptyFirst, OnlyOutside, Running
<1> QED
  BY <1>1, <1>2, <1>3, <1>4, <1>5, <1>6, <1>7 DEF Next, Step

(* The invariant of the program: every valid frame has the entry of its    *)
(* page, or its page has none, and the latter only between the read past   *)
(* the end and the time when all frames are pinned; and the program does   *)
(* what is undefined only if a page of one of the four File objects hashes *)
(* outside of the table.                                                   *)
THEOREM TestInvariant == Spec => []TestInv
<1>1. Init => TestInv
  BY InitTestInv
<1>2. TestInv /\ [Next]_vars => TestInv'
  BY NextTestInv
<1> QED
  BY <1>1, <1>2, PTL DEF Spec

(* The page table of phase 3 (bufHash.C, buf.C) stays right all along      *)
(* testbuf.C: entries are in their chains and lead to the frames of their  *)
(* pages, no page has two, and every pinned frame is found.  Addresses may *)
(* be any ints; it is so until a page hashes outside of the table.         *)
THEOREM TableStaysRight == Spec => []HashRight
<1>1. TestInv => HashRight
  BY PoolIsRight DEF TestInv
<1> QED
  BY <1>1, TestInvariant, PTL
=============================================================================
