-------------------------- MODULE HeapFile_proofs --------------------------
(***************************************************************************)
(* Theorems about heap files, for any number of objects, of pages and of   *)
(* records on a page: what objects are and which pages they pin; then the  *)
(* chain and the records in it, that the header counts them, that the file *)
(* is a RecordFile, and that scans return each record that matches once.   *)
(***************************************************************************)
EXTENDS HeapFile, NatLemmas

-----------------------------------------------------------------------------
(* Chains.  Pages are linked forward: a page leads to one that was         *)
(* allocated later.                                                        *)

Links(pages) == \A p \in DataPages :
                  pages[p].next # NoPage => pages[p].next \in DataPages /\ pages[p].next > p

(* From, with the pages as a parameter. *)
FromIn(pages, p) ==
  LET reached[n \in 0 .. MaxPages] ==
        IF n = 0 THEN {p}
        ELSE reached[n - 1] \cup {pages[q].next : q \in reached[n - 1] \ {NoPage}}
  IN  reached[MaxPages] \ {NoPage}

(* The pages that can be reached do not depend on anything but the links. *)
LEMMA FromIsFromIn == \A p : From(p) = FromIn(page, p)
BY DEF From, FromIn

(* The recursion that From is defined by has a solution. *)
LEMMA Reached ==
  ASSUME NEW pages, NEW p
  PROVE  \E r : /\ r[0] = {p}
                /\ \A n \in 0 .. MaxPages - 1 :
                     r[n + 1] = r[n] \cup {pages[q].next : q \in r[n] \ {NoPage}}
                /\ FromIn(pages, p) = r[MaxPages] \ {NoPage}
<1> DEFINE Step(S) == S \cup {pages[q].next : q \in S \ {NoPage}}
           Solves(f, m) == f = [n \in 0 .. m |-> IF n = 0 THEN {p} ELSE Step(f[n - 1])]
           Good == {m \in Nat : \E f : Solves(f, m)}
<1>1. 0 \in Good
  <2>1. Solves([n \in 0 .. 0 |-> {p}], 0)
    OBVIOUS
  <2> QED
    BY <2>1
<1>2. ASSUME NEW m \in Good PROVE m + 1 \in Good
  <2>1. PICK f : Solves(f, m)
    OBVIOUS
  <2> DEFINE g == [n \in 0 .. m + 1 |-> IF n = m + 1 THEN Step(f[m]) ELSE f[n]]
  <2>2. \A n \in 0 .. m : g[n] = f[n]
    OBVIOUS
  <2>3. ASSUME NEW n \in 0 .. m + 1
        PROVE  g[n] = IF n = 0 THEN {p} ELSE Step(g[n - 1])
    <3>1. CASE n = 0
      <4>1. g[0] = f[0] /\ f[0] = {p}
        BY <2>1
      <4> QED
        BY <3>1, <4>1
    <3>2. CASE n \in 1 .. m
      <4>1. n - 1 \in 0 .. m /\ n \in 0 .. m /\ n # 0
        BY <3>2
      <4>2. g[n] = f[n] /\ g[n - 1] = f[n - 1] /\ f[n] = Step(f[n - 1])
        BY <2>1, <2>2, <4>1
      <4> QED
        BY <4>1, <4>2
    <3>3. CASE n = m + 1
      <4>1. n - 1 = m /\ m \in 0 .. m /\ n # 0
        BY <3>3
      <4>2. g[n] = Step(f[m]) /\ g[n - 1] = f[m]
        BY <2>2, <3>3, <4>1
      <4> QED
        BY <4>1, <4>2
    <3> QED
      BY <3>1, <3>2, <3>3
  <2>4. g = [n \in 0 .. m + 1 |-> IF n = 0 THEN {p} ELSE Step(g[n - 1])]
    <3> DEFINE h == [n \in 0 .. m + 1 |-> IF n = 0 THEN {p} ELSE Step(g[n - 1])]
    <3>1. \A n \in 0 .. m + 1 : g[n] = h[n]
      BY <2>3
    <3> QED
      BY <3>1
  <2> HIDE DEF g
  <2>5. Solves(g, m + 1)
    BY <2>4
  <2> QED
    BY <2>5
<1>3. MaxPages \in Good
  <2> HIDE DEF Good
  <2>1. Good \subseteq Nat
    BY DEF Good
  <2>2. Good = Nat
    BY <1>1, <1>2, <2>1, SetInduction
  <2> QED
    BY <2>2, MaxPagesAssumption
<1> DEFINE r == CHOOSE f : f = [n \in 0 .. MaxPages |->
                                  IF n = 0 THEN {p}
                                  ELSE f[n - 1] \cup {pages[q].next : q \in f[n - 1] \ {NoPage}}]
<1>4. r = [n \in 0 .. MaxPages |->
             IF n = 0 THEN {p}
             ELSE r[n - 1] \cup {pages[q].next : q \in r[n - 1] \ {NoPage}}]
  BY <1>3
<1>5. FromIn(pages, p) = r[MaxPages] \ {NoPage}
  BY DEF FromIn
<1> HIDE DEF r
<1>6. r[0] = {p}
  BY <1>4, MaxPagesAssumption
<1>7. ASSUME NEW n \in 0 .. MaxPages - 1
      PROVE  r[n + 1] = r[n] \cup {pages[q].next : q \in r[n] \ {NoPage}}
  <2>1. n + 1 \in 0 .. MaxPages /\ n + 1 # 0 /\ (n + 1) - 1 = n
    BY MaxPagesAssumption
  <2> QED
    BY <1>4, <2>1
<1> QED
  BY <1>5, <1>6, <1>7

(* From(p) is the least set of pages that has p and, with every page that  *)
(* leads on, the next one; no page of it comes before p.                   *)
LEMMA FromLeast ==
  ASSUME NEW pages, Links(pages), NEW p \in DataPages
  PROVE  /\ p \in FromIn(pages, p)
         /\ FromIn(pages, p) \subseteq {q \in DataPages : p <= q}
         /\ \A q \in FromIn(pages, p) :
              pages[q].next # NoPage => pages[q].next \in FromIn(pages, p)
         /\ \A S : /\ p \in S
                   /\ \A q \in S \cap FromIn(pages, p) :
                        pages[q].next # NoPage => pages[q].next \in S
                   => FromIn(pages, p) \subseteq S
<1>1. PICK r : /\ r[0] = {p}
               /\ \A n \in 0 .. MaxPages - 1 :
                    r[n + 1] = r[n] \cup {pages[q].next : q \in r[n] \ {NoPage}}
               /\ FromIn(pages, p) = r[MaxPages] \ {NoPage}
  BY Reached
<1>2. MaxPages \in Nat /\ DataPages \subseteq Nat /\ NoPage \notin Nat /\ p >= 2 /\ p <= MaxPages
  BY MaxPagesAssumption DEF DataPages, NoPage
<1> DEFINE Bounded(S) == S \subseteq {NoPage} \cup {q \in DataPages : p <= q}
           Done(n) == /\ p \in r[n]
                      /\ Bounded(r[n])
                      /\ \A q \in r[n] \ {NoPage} : q < p + n => pages[q].next \in r[n]
           Good == {n \in Nat : n <= MaxPages => Done(n)}
<1>3. 0 \in Good
  BY <1>1, <1>2
<1>4. ASSUME NEW n \in Good PROVE n + 1 \in Good
  <2> SUFFICES ASSUME n + 1 <= MaxPages PROVE Done(n + 1)
    OBVIOUS
  <2>1. n \in 0 .. MaxPages - 1
    BY <1>2
  <2>2. Done(n) /\ r[n + 1] = r[n] \cup {pages[q].next : q \in r[n] \ {NoPage}}
    BY <1>1, <1>2, <2>1
  <2>3. Bounded(r[n + 1])
    <3> SUFFICES ASSUME NEW q \in r[n] \ {NoPage}, pages[q].next # NoPage
                 PROVE  pages[q].next \in {x \in DataPages : p <= x}
      BY <2>2
    <3>1. q \in DataPages /\ p <= q
      BY <2>2
    <3>2. pages[q].next \in DataPages /\ pages[q].next > q
      BY <3>1 DEF Links
    <3> QED
      BY <1>2, <3>1, <3>2
  <2>4. ASSUME NEW q \in r[n + 1] \ {NoPage}, q < p + (n + 1) PROVE pages[q].next \in r[n + 1]
    <3>1. CASE q \in r[n]
      BY <2>2, <3>1
    <3>2. CASE q \notin r[n]
      <4>1. PICK x \in r[n] \ {NoPage} : q = pages[x].next
        BY <2>2, <3>2
      <4>2. ~(x < p + n)
        BY <2>2, <3>2, <4>1
      <4>3. x \in DataPages /\ q > x /\ q \in DataPages
        BY <2>2, <4>1 DEF Links
      <4> QED
        BY <1>2, <2>1, <2>4, <4>2, <4>3
    <3> QED
      BY <3>1, <3>2
  <2> QED
    BY <2>2, <2>3, <2>4
<1>5. Good = Nat
  <2> HIDE DEF Good
  <2>1. Good \subseteq Nat
    BY DEF Good
  <2> QED
    BY <1>3, <1>4, <2>1, SetInduction
<1>6. Done(MaxPages)
  BY <1>2, <1>5
<1>7. FromIn(pages, p) \subseteq {q \in DataPages : p <= q} /\ p \in FromIn(pages, p)
  BY <1>1, <1>2, <1>6
<1>8. ASSUME NEW q \in FromIn(pages, p), pages[q].next # NoPage
      PROVE  pages[q].next \in FromIn(pages, p)
  <2>1. q \in r[MaxPages] \ {NoPage} /\ q < p + MaxPages
    BY <1>1, <1>2, <1>7 DEF DataPages
  <2> QED
    BY <1>1, <1>6, <1>8, <2>1
<1>9. ASSUME NEW S, p \in S,
             \A q \in S \cap FromIn(pages, p) : pages[q].next # NoPage => pages[q].next \in S
      PROVE  FromIn(pages, p) \subseteq S
  <2> DEFINE F == FromIn(pages, p)
             In == {n \in Nat : n <= MaxPages => r[n] \ {NoPage} \subseteq S \cap F}
  <2>1. 0 \in In
    BY <1>1, <1>7, <1>9
  <2>2. ASSUME NEW n \in In PROVE n + 1 \in In
    <3> SUFFICES ASSUME n + 1 <= MaxPages PROVE r[n + 1] \ {NoPage} \subseteq S \cap F
      OBVIOUS
    <3>1. n \in 0 .. MaxPages - 1
      BY <1>2
    <3>2. r[n] \ {NoPage} \subseteq S \cap F
      BY <1>2, <3>1
    <3> HIDE DEF F, In
    <3>3. \A q \in r[n] \ {NoPage} : pages[q].next # NoPage => pages[q].next \in S \cap F
      BY <1>8, <1>9, <3>2 DEF F
    <3> QED
      BY <1>1, <3>1, <3>2, <3>3
  <2>3. In = Nat
    <3> HIDE DEF In
    <3>1. In \subseteq Nat
      BY DEF In
    <3> QED
      BY <2>1, <2>2, <3>1, SetInduction
  <2> QED
    BY <1>1, <1>2, <2>3
<1> QED
  BY <1>7, <1>8, <1>9

(* A page and what the next page leads to. *)
LEMMA FromNext ==
  ASSUME NEW pages, Links(pages), NEW p \in DataPages
  PROVE  FromIn(pages, p) = {p} \cup (IF pages[p].next = NoPage THEN {}
                                      ELSE FromIn(pages, pages[p].next))
<1>1. CASE pages[p].next = NoPage
  <2>1. FromIn(pages, p) \subseteq {p}
    BY <1>1, FromLeast
  <2> QED
    BY <1>1, <2>1, FromLeast
<1>2. CASE pages[p].next # NoPage
  <2> DEFINE n == pages[p].next
  <2>1. n \in DataPages
    BY <1>2 DEF Links
  <2> HIDE DEF n
  <2>2. /\ n \in FromIn(pages, n)
        /\ \A q \in FromIn(pages, n) :
             pages[q].next # NoPage => pages[q].next \in FromIn(pages, n)
        /\ \A S : /\ n \in S
                  /\ \A q \in S \cap FromIn(pages, n) :
                       pages[q].next # NoPage => pages[q].next \in S
                  => FromIn(pages, n) \subseteq S
    BY <2>1, FromLeast
  <2>3. FromIn(pages, p) \subseteq {p} \cup FromIn(pages, n)
    <3> DEFINE S == {p} \cup FromIn(pages, n)
    <3>1. \A q \in S : pages[q].next # NoPage => pages[q].next \in S
      BY <2>2 DEF n
    <3>2. p \in S
      OBVIOUS
    <3> HIDE DEF S
    <3>3. FromIn(pages, p) \subseteq S
      BY <3>1, <3>2, FromLeast
    <3> QED
      BY <3>3 DEF S
  <2>4. p \in FromIn(pages, p) /\ n \in FromIn(pages, p)
    BY <1>2, FromLeast DEF n
  <2>5. FromIn(pages, n) \subseteq FromIn(pages, p)
    <3>1. \A q \in FromIn(pages, p) : pages[q].next # NoPage => pages[q].next \in FromIn(pages, p)
      BY FromLeast
    <3> QED
      BY <2>2, <2>4, <3>1
  <2> QED
    BY <1>2, <2>3, <2>4, <2>5 DEF n
<1> QED
  BY <1>1, <1>2

(* From a page of the chain on come the pages of it that are not before.   *)
LEMMA FromTail ==
  ASSUME NEW pages, Links(pages), NEW p \in DataPages, NEW q \in FromIn(pages, p)
  PROVE  FromIn(pages, q) = {x \in FromIn(pages, p) : q <= x}
<1> DEFINE F(x) == FromIn(pages, x)
<1>1. q \in DataPages /\ p <= q /\ DataPages \subseteq Nat
  BY FromLeast, MaxPagesAssumption DEF DataPages
<1>2. \A x \in F(p) : pages[x].next # NoPage => pages[x].next \in F(p)
  BY FromLeast
<1>3. F(q) \subseteq F(p)
  <2>1. \A S : /\ q \in S
               /\ \A x \in S \cap F(q) : pages[x].next # NoPage => pages[x].next \in S
               => F(q) \subseteq S
    BY <1>1, FromLeast
  <2> QED
    BY <1>2, <2>1
<1>4. F(q) \subseteq {x \in DataPages : q <= x}
  BY <1>1, FromLeast
<1> DEFINE S == {x \in F(p) : (x <= q => q \in F(x)) /\ (q <= x => x \in F(q))}
<1>5. p \in S
  <2>1. p \in F(p)
    BY FromLeast
  <2>2. q <= p => p = q
    BY <1>1
  <2> QED
    BY <2>1, <2>2
<1>6. ASSUME NEW x \in S, pages[x].next # NoPage PROVE pages[x].next \in S
  <2> DEFINE y == pages[x].next
  <2>1. x \in DataPages /\ y \in DataPages /\ y > x /\ y \in F(p)
    BY <1>2, <1>6, FromLeast DEF Links
  <2> HIDE DEF y
  <2>2. x \in Nat /\ y \in Nat /\ q \in Nat
    BY <1>1, <2>1
  <2>3. F(x) = {x} \cup F(y)
    BY <1>6, <2>1, FromNext DEF y
  <2>4. F(y) \subseteq {z \in DataPages : y <= z} /\ y \in F(y)
    BY <2>1, FromLeast
  <2>5. CASE x < q
    <3>1. q \in F(x) /\ x # q
      BY <2>2, <2>5
    <3>2. q \in F(y)
      BY <2>2, <2>3, <2>5, <3>1
    <3>3. y <= q
      BY <2>4, <3>2
    <3>4. q <= y => y = q
      BY <2>2, <3>3
    <3> QED
      BY <2>1, <2>4, <3>2, <3>4 DEF y
  <2>6. CASE q <= x
    <3>1. y \in F(q)
      <4>1. x \in F(q)
        BY <2>6
      <4> QED
        BY <1>1, <1>6, <4>1, FromLeast DEF y
    <3>2. ~(y <= q)
      BY <2>2, <2>1, <2>6
    <3> QED
      BY <2>1, <3>1, <3>2 DEF y
  <2> QED
    BY <2>2, <2>5, <2>6 DEF y
<1>7. F(p) \subseteq S
  <2> HIDE DEF S
  <2> QED
    BY <1>5, <1>6, FromLeast
<1> QED
  BY <1>3, <1>4, <1>7

(* A chain has an end, and all its other pages are before that.            *)
LEMMA FromEnds ==
  ASSUME NEW pages, Links(pages), NEW p \in DataPages
  PROVE  /\ \E q \in FromIn(pages, p) : pages[q].next = NoPage
         /\ \A q \in FromIn(pages, p) :
              pages[q].next = NoPage => \A x \in FromIn(pages, p) : x <= q
<1> DEFINE F == FromIn(pages, p)
<1>1. F \subseteq 0 .. MaxPages /\ p \in F /\ F \subseteq DataPages /\ MaxPages \in Nat
  BY FromLeast, MaxPagesAssumption DEF DataPages
<1>2. PICK k \in F : \A j \in F : j <= k
  <2> HIDE DEF F
  <2> QED
    BY <1>1, GreatestElement
<1>3. pages[k].next = NoPage
  <2> SUFFICES ASSUME pages[k].next # NoPage PROVE FALSE
    OBVIOUS
  <2>1. pages[k].next \in F /\ pages[k].next > k
    BY <1>1, <1>2, FromLeast DEF Links
  <2> QED
    BY <1>1, <1>2, <2>1 DEF DataPages
<1>4. ASSUME NEW q \in F, pages[q].next = NoPage, NEW x \in F PROVE x <= q
  <2>1. FromIn(pages, q) = {q}
    BY <1>1, <1>4, FromNext
  <2>2. FromIn(pages, q) = {y \in F : q <= y}
    BY FromTail
  <2>3. q \in Nat /\ x \in Nat
    BY <1>1
  <2> QED
    BY <2>1, <2>2, <2>3
<1> QED
  BY <1>2, <1>3, <1>4

(* What leads nowhere is the end of every chain through it.                *)
LEMMA LastFromIs ==
  ASSUME NEW p \in DataPages, Links(page)
  PROVE  /\ LastFrom(p) \in From(p)
         /\ page[LastFrom(p)].next = NoPage
         /\ \A x \in From(p) : x <= LastFrom(p)
<1>1. /\ \E q \in From(p) : page[q].next = NoPage
      /\ \A q \in From(p) : page[q].next = NoPage => \A x \in From(p) : x <= q
  BY FromEnds, FromIsFromIn
<1>2. LastFrom(p) \in From(p) /\ page[LastFrom(p)].next = NoPage
  BY <1>1 DEF LastFrom
<1> QED
  BY <1>1, <1>2

(* The chains depend on nothing but the links.                             *)
LEMMA FromSame ==
  ASSUME NEW pages, Links(pages), NEW others,
         \A q \in DataPages : others[q].next = pages[q].next,
         NEW p \in DataPages
  PROVE  Links(others) /\ FromIn(others, p) = FromIn(pages, p)
<1>1. Links(others)
  BY DEF Links
<1>2. FromIn(others, p) \subseteq FromIn(pages, p)
  <2>1. \A q \in FromIn(pages, p) : others[q].next # NoPage => others[q].next \in FromIn(pages, p)
    BY FromLeast
  <2>2. p \in FromIn(pages, p)
    BY FromLeast
  <2> QED
    BY <1>1, <2>1, <2>2, FromLeast
<1>3. FromIn(pages, p) \subseteq FromIn(others, p)
  <2>1. /\ p \in FromIn(others, p)
        /\ FromIn(others, p) \subseteq DataPages
        /\ \A q \in FromIn(others, p) :
             others[q].next # NoPage => others[q].next \in FromIn(others, p)
    BY <1>1, FromLeast
  <2> QED
    BY <2>1, FromLeast
<1> QED
  BY <1>1, <1>2, <1>3

(* A page that was part of no chain, linked to the end of one: every page  *)
(* of the chain leads to it, too.                                          *)
LEMMA FromAppended ==
  ASSUME NEW pages, Links(pages), NEW l \in DataPages, pages[l].next = NoPage,
         NEW n \in DataPages, n > l, NEW others,
         \A q \in DataPages : others[q].next = IF q = n THEN NoPage
                                               ELSE IF q = l THEN n ELSE pages[q].next
  PROVE  /\ Links(others)
         /\ \A p \in DataPages : l \in FromIn(pages, p) =>
              /\ FromIn(others, p) = FromIn(pages, p) \cup {n}
              /\ n \notin FromIn(pages, p)
<1>1. Links(others)
  BY DEF Links
<1> SUFFICES ASSUME NEW p \in DataPages, l \in FromIn(pages, p)
             PROVE  /\ FromIn(others, p) = FromIn(pages, p) \cup {n}
                    /\ n \notin FromIn(pages, p)
  BY <1>1
<1>2. n \notin FromIn(pages, p)
  <2>1. \A x \in FromIn(pages, p) : x <= l
    BY FromEnds
  <2> QED
    BY <2>1 DEF DataPages
<1>3. FromIn(others, p) \subseteq FromIn(pages, p) \cup {n}
  <2> DEFINE S == FromIn(pages, p) \cup {n}
  <2>1. p \in S /\ FromIn(pages, p) \subseteq DataPages
    BY FromLeast
  <2>2. \A q \in S : others[q].next # NoPage => others[q].next \in S
    <3>1. \A q \in FromIn(pages, p) : pages[q].next # NoPage => pages[q].next \in FromIn(pages, p)
      BY FromLeast
    <3> QED
      BY <2>1, <3>1
  <2> HIDE DEF S
  <2>3. FromIn(others, p) \subseteq S
    BY <1>1, <2>1, <2>2, FromLeast
  <2> QED
    BY <2>3 DEF S
<1>4. /\ p \in FromIn(others, p)
      /\ \A q \in FromIn(others, p) :
           others[q].next # NoPage => others[q].next \in FromIn(others, p)
  BY <1>1, FromLeast
<1>5. FromIn(pages, p) \subseteq FromIn(others, p)
  <2>1. ASSUME NEW q \in FromIn(others, p) \cap FromIn(pages, p), pages[q].next # NoPage
        PROVE  pages[q].next \in FromIn(others, p)
    <3>1. q \in DataPages /\ q # l /\ q # n
      BY <1>2, <2>1, FromLeast
    <3>2. others[q].next = pages[q].next
      BY <3>1
    <3> QED
      BY <1>4, <2>1, <3>2
  <2> QED
    BY <1>4, <2>1, FromLeast
<1>6. n \in FromIn(others, p)
  <2>1. others[l].next = n /\ n # NoPage /\ l # n
    BY DEF DataPages, NoPage
  <2> QED
    BY <1>4, <1>5, <2>1
<1> QED
  BY <1>2, <1>3, <1>5, <1>6

-----------------------------------------------------------------------------
(* Slots, records and their order.                                         *)

(* A page has room for at least one record; slots are numbered from 0.     *)
LEMMA SlotNosIs ==
  /\ \E n \in Nat : SlotNos = 0 .. n
  /\ \A k \in Nat : (RecSize + SlotSize) * (k + 1) <= PageSpace => k \in SlotNos
  /\ 0 \in SlotNos /\ SlotNos \subseteq Nat
  /\ IsFiniteSet(SlotNos) /\ IsFiniteSet(DataPages) /\ IsFiniteSet(Rids)
<1> DEFINE d == RecSize + SlotSize
           m == PageSpace \div d
<1>1. d \in Nat \ {0} /\ PageSpace \in Nat /\ d * 1 <= PageSpace
  BY SizesAssumption
<1>2. m \in Nat /\ 1 <= m
  <2> HIDE DEF d
  <2> QED
    BY <1>1, Division
<1>3. SlotNos = 0 .. m - 1
  BY DEF SlotNos
<1>4. ASSUME NEW k \in Nat, d * (k + 1) <= PageSpace PROVE k \in 0 .. m - 1
  <2> HIDE DEF d
  <2>1. k + 1 \in Nat
    OBVIOUS
  <2>2. k + 1 <= PageSpace \div d
    BY <1>1, <1>4, <2>1, Division
  <2> QED
    BY <1>2, <2>2
<1> HIDE DEF m
<1>5. IsFiniteSet(SlotNos) /\ IsFiniteSet(DataPages)
  BY <1>2, <1>3, FS_Interval, MaxPagesAssumption DEF DataPages
<1>6. IsFiniteSet(Rids)
  BY <1>5, FS_Product DEF Rids
<1>7. \E n \in Nat : SlotNos = 0 .. n
  BY <1>2, <1>3
<1> QED
  BY <1>2, <1>3, <1>4, <1>5, <1>6, <1>7

(* Within a chain the order of a scan is that of pages, then of slots.     *)
LEMMA BeforeIs ==
  ASSUME Links(page), NEW p \in DataPages,
         NEW r \in From(p) \X SlotNos, NEW q \in From(p) \X SlotNos
  PROVE  Before(r, q) <=> \/ r[1] = q[1] /\ r[2] < q[2]
                          \/ r[1] < q[1]
<1>1. r[1] \in From(p) /\ q[1] \in From(p)
  OBVIOUS
<1>2. r[1] \in DataPages /\ q[1] \in DataPages /\ DataPages \subseteq Nat
  BY <1>1, FromIsFromIn, FromLeast DEF DataPages
<1>3. From(r[1]) = {x \in From(p) : r[1] <= x}
  BY <1>1, FromIsFromIn, FromTail
<1>4. q[1] \in Later(r[1]) <=> r[1] < q[1]
  <2>1. q[1] \in Later(r[1]) <=> r[1] <= q[1] /\ q[1] # r[1]
    BY <1>1, <1>3 DEF Later
  <2>2. r[1] \in Nat /\ q[1] \in Nat
    BY <1>2
  <2> QED
    BY <2>1, <2>2
<1> QED
  BY <1>4 DEF Before

(* Among records of a chain there is a first one and a last one.           *)
LEMMA FirstOfIs ==
  ASSUME Links(page), NEW p \in DataPages, NEW R, R \subseteq From(p) \X SlotNos, R # {}
  PROVE  /\ FirstOf(R) \in R
         /\ \A q \in R : q = FirstOf(R) \/ Before(FirstOf(R), q)
<1>1. From(p) \subseteq Nat /\ SlotNos \subseteq Nat
  BY FromIsFromIn, FromLeast, SlotNosIs DEF DataPages
<1> DEFINE P == {r[1] : r \in R}
<1>2. PICK k \in P : \A j \in P : k <= j
  <2>1. P \subseteq Nat /\ P # {}
    BY <1>1
  <2> HIDE DEF P
  <2> QED
    BY <2>1, LeastElement
<1> DEFINE T == {r[2] : r \in {x \in R : x[1] = k}}
<1>3. PICK t \in T : \A j \in T : t <= j
  <2>1. T \subseteq Nat /\ T # {}
    BY <1>1, <1>2
  <2> HIDE DEF T
  <2> QED
    BY <2>1, LeastElement
<1>4. PICK r \in R : r[1] = k /\ r[2] = t
  BY <1>3
<1>5. ASSUME NEW q \in R PROVE q = r \/ Before(r, q)
  <2>1. q = <<q[1], q[2]>> /\ r = <<r[1], r[2]>> /\ q[1] \in Nat /\ r[1] \in Nat
        /\ q[2] \in Nat /\ r[2] \in Nat
    BY <1>1
  <2>2. r[1] <= q[1]
    BY <1>2, <1>4
  <2>3. q[1] = r[1] => r[2] <= q[2]
    BY <1>3, <1>4
  <2>4. Before(r, q) <=> (r[1] = q[1] /\ r[2] < q[2]) \/ r[1] < q[1]
    BY BeforeIs
  <2> QED
    BY <2>1, <2>2, <2>3, <2>4
<1> QED
  BY <1>5 DEF FirstOf

(* A set of record ids that is not empty has a last one.                 *)
LEMMA LastOfIs ==
  ASSUME Links(page), NEW p \in DataPages, NEW R, R \subseteq From(p) \X SlotNos, R # {}
  PROVE  /\ LastOf(R) \in R
         /\ \A q \in R : q = LastOf(R) \/ Before(q, LastOf(R))
<1>1. From(p) \subseteq 0 .. MaxPages /\ MaxPages \in Nat /\ From(p) \subseteq Nat
  BY FromIsFromIn, FromLeast, MaxPagesAssumption DEF DataPages
<1>2. PICK n \in Nat : SlotNos = 0 .. n
  BY SlotNosIs
<1> DEFINE P == {r[1] : r \in R}
<1>3. PICK k \in P : \A j \in P : j <= k
  <2>1. P \subseteq 0 .. MaxPages /\ P # {}
    BY <1>1
  <2> HIDE DEF P
  <2> QED
    BY <1>1, <2>1, GreatestElement
<1> DEFINE T == {r[2] : r \in {x \in R : x[1] = k}}
<1>4. PICK t \in T : \A j \in T : j <= t
  <2>1. T \subseteq 0 .. n /\ T # {}
    BY <1>2, <1>3
  <2> HIDE DEF T
  <2> QED
    BY <2>1, GreatestElement
<1>5. PICK r \in R : r[1] = k /\ r[2] = t
  BY <1>4
<1>6. ASSUME NEW q \in R PROVE q = r \/ Before(q, r)
  <2>1. q = <<q[1], q[2]>> /\ r = <<r[1], r[2]>> /\ q[1] \in Nat /\ r[1] \in Nat
        /\ q[2] \in Nat /\ r[2] \in Nat
    BY <1>1, <1>2
  <2>2. q[1] <= r[1]
    BY <1>3, <1>5
  <2>3. q[1] = r[1] => q[2] <= r[2]
    BY <1>4, <1>5
  <2>4. Before(q, r) <=> (r[1] = q[1] /\ q[2] < r[2]) \/ q[1] < r[1]
    BY BeforeIs
  <2> QED
    BY <2>1, <2>2, <2>3, <2>4
<1> QED
  BY <1>6 DEF LastOf

-----------------------------------------------------------------------------
(* The inductive invariants.                                               *)

RecSets == UNION {[S -> Values] : S \in SUBSET SlotNos}
Members == [open : BOOLEAN, curPage : DataPages \cup {NoPage},
            curPageNo : DataPages \cup {NoPage, 0}, curDirty : BOOLEAN, hdrDirty : BOOLEAN,
            curRec : Rids \cup {NullRid}, failed : BOOLEAN]
Marks   == [pageNo : DataPages \cup {NoPage}, rec : Rids \cup {NullRid},
            todo : SUBSET Rids, seen : SUBSET Rids]

TypeOK ==
  /\ header \in [firstPage : {2}, lastPage : DataPages, pageCnt : Nat, recCnt : Int]
  /\ page \in [DataPages -> [recs : RecSets, next : DataPages \cup {NoPage}]]
  /\ numPages \in 3 .. MaxPages + 1
  /\ pinCnt \in [PageNos -> Nat]
  /\ owed \in SUBSET PageNos
  /\ obj \in [Objects -> Members]
  /\ scan \in [Scans -> [filter : SUBSET Values, mark : Marks]]
  /\ todo \in [Scans -> SUBSET Rids]
  /\ seen \in [Scans -> SUBSET Rids]

(* Only pages that have been allocated are used, and those are linked      *)
(* forward.                                                                *)
FileSound ==
  /\ header.lastPage < numPages
  /\ Links(page)
  /\ \A p \in DataPages : /\ page[p].next < numPages
                          /\ numPages <= p => SlotsOf(p) = {} /\ page[p].next = NoPage

(* What holds of the members of an object when the file has n - 1 pages. *)
MemberSound(o, m, n) ==
  /\ ~m.open => m = Closed
  /\ m.curPage # NoPage => m.curPageNo \in DataPages
  /\ m.curPage < n /\ m.curPageNo < n
  /\ o \in Inserters /\ m.open => m.curPage # NoPage

ObjectsSound == /\ \A o \in Objects : MemberSound(o, obj[o], numPages)
                /\ \A s \in Scans : scan[s].mark.pageNo < numPages

TypeInv == TypeOK /\ FileSound /\ ObjectsSound /\ HeaderHeld

(* The departures without which more holds. *)
ReadsSucceed == "read fails" \notin Departures
ScansOnlyOnce == "scan again" \notin Departures
DeletesOnlyOnce == "delete again" \notin Departures

(* The pages owed are those that some object is to unpin as dirty. *)
Holds(m, p)   == m.curPage # NoPage /\ m.curPageNo = p
Owes(o, m, p) == IF p = HeaderPage THEN m.open /\ m.hdrDirty
                 ELSE Holds(m, p) /\ (m.curDirty \/ o \in Inserters)
OwedSound     == \A p \in owed : \E o \in Objects : Owes(o, obj[o], p)

(* Where objects are in the chain. *)
Chain == From(header.firstPage)
PlacesSound ==
  /\ \A o \in Objects : HoldsPage(o) => obj[o].curPage \in Chain
  /\ \A s \in Scans : scan[s].mark.pageNo \in Chain \cup {NoPage}
  /\ \A i \in Inserters : obj[i].open => obj[i].curPage = header.lastPage

(* Record r comes after slot k of page p. *)
After(r, p, k) == \/ p < r[1]
                  \/ p = r[1] /\ k < r[2]

-----------------------------------------------------------------------------
(* What the invariants say about pages, records and pins.                  *)

(* What the invariant says of header and pages.                          *)
LEMMA FileFacts ==
  ASSUME TypeOK, FileSound
  PROVE  /\ header.firstPage = 2 /\ 2 \in DataPages /\ header.lastPage \in DataPages
         /\ DataPages \subseteq Nat /\ numPages \in Nat /\ NoPage \notin DataPages
         /\ DataPages \subseteq PageNos /\ HeaderPage \in PageNos \ DataPages
         /\ PageNos \subseteq DataPages \cup {HeaderPage}
         /\ \A p \in DataPages :
              /\ SlotsOf(p) \subseteq SlotNos /\ page[p].recs \in [SlotsOf(p) -> Values]
              /\ From(p) \subseteq DataPages /\ p \in From(p)
              /\ p < numPages => \A q \in From(p) : q < numPages
              /\ LastFrom(p) \in From(p)
<1>1. header.firstPage = 2 /\ 2 \in DataPages /\ header.lastPage \in DataPages
  BY MaxPagesAssumption DEF TypeOK, DataPages
<1>2. /\ DataPages \subseteq Nat /\ numPages \in Nat /\ NoPage \notin DataPages
      /\ DataPages \subseteq PageNos /\ HeaderPage \in PageNos \ DataPages
      /\ PageNos \subseteq DataPages \cup {HeaderPage}
  BY MaxPagesAssumption DEF TypeOK, DataPages, NoPage, PageNos, HeaderPage
<1> SUFFICES ASSUME NEW p \in DataPages
             PROVE  /\ SlotsOf(p) \subseteq SlotNos /\ page[p].recs \in [SlotsOf(p) -> Values]
                    /\ From(p) \subseteq DataPages /\ p \in From(p)
                    /\ p < numPages => \A q \in From(p) : q < numPages
                    /\ LastFrom(p) \in From(p)
  BY <1>1, <1>2
<1>3. SlotsOf(p) \subseteq SlotNos /\ page[p].recs \in [SlotsOf(p) -> Values]
  BY DEF TypeOK, SlotsOf, RecSets
<1>4. From(p) \subseteq DataPages /\ p \in From(p)
  BY FromLeast, FromIsFromIn DEF FileSound
<1>5. ASSUME p < numPages PROVE \A q \in From(p) : q < numPages
  <2> DEFINE S == {q \in DataPages : q < numPages}
  <2>1. p \in S /\ \A q \in S : page[q].next # NoPage => page[q].next \in S
    BY <1>5 DEF FileSound, Links
  <2> HIDE DEF S
  <2>2. From(p) \subseteq S
    BY <2>1, FromLeast, FromIsFromIn DEF FileSound
  <2> QED
    BY <2>2 DEF S
<1>6. LastFrom(p) \in From(p)
  BY LastFromIs DEF FileSound
<1> QED
  BY <1>3, <1>4, <1>5, <1>6

(* What it says of the records.                                          *)
LEMMA RecordFacts ==
  ASSUME TypeOK, FileSound
  PROVE  /\ Records \subseteq Rids /\ IsFiniteSet(Records)
         /\ \A r \in Rids : r \in Records <=> r[1] \in Chain /\ r[2] \in SlotsOf(r[1])
         /\ \A r \in Records : ValueOf(r) \in Values /\ r[1] \in DataPages /\ r[1] < numPages
<1>1. /\ header.firstPage \in DataPages /\ Chain \subseteq DataPages
      /\ \A p \in DataPages : SlotsOf(p) \subseteq SlotNos /\ page[p].recs \in [SlotsOf(p) -> Values]
  BY FileFacts DEF Chain
<1>2. \A r : r \in Records <=> \E p \in Chain : \E t \in SlotsOf(p) : r = <<p, t>>
  BY DEF Records, Chain, OnPage
<1>3. Records \subseteq Rids
  BY <1>1, <1>2 DEF Rids
<1>4. \A r \in Rids : r = <<r[1], r[2]>>
  BY DEF Rids
<1>5. \A r \in Rids : r \in Records <=> r[1] \in Chain /\ r[2] \in SlotsOf(r[1])
  BY <1>2, <1>4
<1>6. IsFiniteSet(Records)
  BY <1>3, SlotNosIs, FS_Subset
<1>7. ASSUME NEW r \in Records
      PROVE  ValueOf(r) \in Values /\ r[1] \in DataPages /\ r[1] < numPages
  <2>1. r[1] \in DataPages /\ r[2] \in SlotsOf(r[1])
    BY <1>1, <1>3, <1>5, <1>7
  <2>2. ~(numPages <= r[1])
    BY <2>1 DEF FileSound
  <2>3. r[1] < numPages
    BY <2>1, <2>2, FileFacts
  <2> QED
    BY <1>1, <2>1, <2>3 DEF ValueOf
<1> QED
  BY <1>3, <1>5, <1>6, <1>7

(* A page that an object holds is pinned, and the header page of an open   *)
(* one.                                                                    *)
LEMMA PinFacts ==
  ASSUME TypeInv, NEW o \in Objects
  PROVE  /\ obj[o].open => pinCnt[HeaderPage] > 0
         /\ PinsAreObjects /\ HoldsPage(o) =>
              /\ obj[o].curPageNo \in DataPages /\ obj[o].curPage = obj[o].curPageNo
              /\ pinCnt[obj[o].curPageNo] > 0
<1> DEFINE P(S) == IsFiniteSet(S) /\ Cardinality(S) \in Nat /\ (o \in S => Cardinality(S) > 0)
<1>1. ASSUME NEW S, S \subseteq Objects PROVE P(S)
  <2>1. IsFiniteSet(S) /\ Cardinality(S) \in Nat
    BY <1>1, ObjectsAssumption, FS_Subset, FS_CardinalityType
  <2>2. o \in S => Cardinality(S) # 0
    BY <2>1, FS_EmptySet
  <2> QED
    BY <2>1, <2>2
<1>2. ASSUME obj[o].open PROVE pinCnt[HeaderPage] > 0
  <2> DEFINE S == {x \in Objects : obj[x].open}
  <2>1. P(S) /\ o \in S
    BY <1>1, <1>2
  <2> QED
    BY <2>1 DEF TypeInv, HeaderHeld
<1>3. ASSUME PinsAreObjects, HoldsPage(o)
      PROVE  /\ obj[o].curPageNo \in DataPages /\ obj[o].curPage = obj[o].curPageNo
             /\ pinCnt[obj[o].curPageNo] > 0
  <2> DEFINE p == obj[o].curPageNo
             S == {x \in Objects : HoldsPage(x) /\ obj[x].curPageNo = p}
  <2>1. p \in DataPages
    BY <1>3 DEF TypeInv, ObjectsSound, MemberSound, HoldsPage
  <2>2. P(S) /\ o \in S
    BY <1>1, <1>3
  <2>3. pinCnt[p] = Cardinality(S)
    BY <1>3, <2>1 DEF PinsAreObjects
  <2> QED
    BY <1>3, <2>1, <2>2, <2>3 DEF PinsAreObjects
<1> QED
  BY <1>2, <1>3

-----------------------------------------------------------------------------
(* Steps of one object.                                                    *)

One(x) == IF x THEN 1 ELSE 0

(* The members of o become m; the header page is pinned for m if it is     *)
(* open, and no longer for the o that was.                                 *)
Becomes(o, m) ==
  /\ obj' = [obj EXCEPT ![o] = m]
  /\ m \in Members
  /\ MemberSound(o, m, numPages')
  /\ pinCnt' \in [PageNos -> Nat]
  /\ owed' \in SUBSET PageNos
  /\ pinCnt'[HeaderPage] = pinCnt[HeaderPage] + One(m.open) - One(obj[o].open)

(* So is its data page; what is still owed is what m is to declare, or     *)
(* what was not up to o.                                                   *)
PinsFollow(o, m) ==
  /\ m.curPage # NoPage => m.curPage = m.curPageNo
  /\ \A p \in DataPages : pinCnt'[p] = pinCnt[p] + One(Holds(m, p)) - One(Holds(obj[o], p))
  /\ \A p \in owed' : Owes(o, m, p) \/ (p \in owed /\ ~Owes(o, obj[o], p))

(* A step of one object as the invariants need it. *)
Moves(o, m) == Becomes(o, m) /\ (PinsAreObjects /\ ReadsSucceed => PinsFollow(o, m))

(* What it says of one object.                                           *)
LEMMA MemberIs ==
  ASSUME TypeInv, NEW o \in Objects
  PROVE  /\ obj[o] \in Members /\ MemberSound(o, obj[o], numPages)
         /\ obj[o].open \in BOOLEAN /\ obj[o].curDirty \in BOOLEAN /\ obj[o].hdrDirty \in BOOLEAN
         /\ HoldsPage(o) => obj[o].curPage \in DataPages /\ obj[o].curPageNo \in DataPages
BY DEF TypeInv, TypeOK, ObjectsSound, MemberSound, Members, HoldsPage

(* The pins and the pages to be written, but for those of object o's.    *)
LEMMA PinsWithoutIs ==
  ASSUME TypeInv, NEW o \in Objects
  PROVE  /\ PinsWithout(o) \in [PageNos -> Nat]
         /\ PinsWithout(o)[HeaderPage] = pinCnt[HeaderPage]
         /\ PinsAreObjects => \A p \in DataPages :
              PinsWithout(o)[p] = pinCnt[p] - One(Holds(obj[o], p))
         /\ OwedWithout(o) \subseteq owed
         /\ OwedWithout(o) \in SUBSET PageNos
         /\ o \notin Inserters => \A p \in DataPages \cap OwedWithout(o) : ~Owes(o, obj[o], p)
<1> DEFINE c == obj[o].curPageNo
<1>1. /\ pinCnt \in [PageNos -> Nat] /\ owed \in SUBSET PageNos
      /\ HeaderPage \notin DataPages /\ DataPages \subseteq PageNos
      /\ HeaderPage \in PageNos
  BY FileFacts DEF TypeInv, TypeOK
<1>2. HoldsPage(o) => c \in DataPages
  BY MemberIs
<1>3. /\ PinsWithout(o) \in [PageNos -> Nat]
      /\ PinsWithout(o)[HeaderPage] = pinCnt[HeaderPage]
  BY <1>1, <1>2 DEF PinsWithout, UnPin
<1>4. ASSUME PinsAreObjects, NEW p \in DataPages
      PROVE  PinsWithout(o)[p] = pinCnt[p] - One(Holds(obj[o], p))
  <2>1. HoldsPage(o) => pinCnt[c] > 0
    BY <1>4, PinFacts
  <2>2. pinCnt[p] \in Nat
    BY <1>1
  <2> QED
    BY <1>1, <1>2, <2>1, <2>2 DEF PinsWithout, UnPin, One, Holds, HoldsPage
<1>5. OwedWithout(o) \subseteq owed /\ OwedWithout(o) \in SUBSET PageNos
  BY <1>1 DEF OwedWithout
<1>6. ASSUME o \notin Inserters, NEW p \in DataPages \cap OwedWithout(o)
      PROVE  ~Owes(o, obj[o], p)
  BY <1>1, <1>6 DEF OwedWithout, Owes, Holds, HoldsPage
<1> QED
  BY <1>3, <1>4, <1>5, <1>6

(* An object gives up its data page. *)
LEMMA LeavesPage ==
  ASSUME TypeInv, NEW o \in Objects \ Inserters, NEW m \in Members,
         pinCnt' = PinsWithout(o), owed' = OwedWithout(o),
         obj' = [obj EXCEPT ![o] = m], MemberSound(o, m, numPages'),
         m.open = obj[o].open, m.hdrDirty = obj[o].hdrDirty,
         ReadsSucceed => m.curPage = NoPage
  PROVE  Moves(o, m)
<1>1. pinCnt[HeaderPage] \in Nat /\ HeaderPage \notin DataPages /\ owed \subseteq PageNos
      /\ PageNos \subseteq DataPages \cup {HeaderPage}
  BY FileFacts DEF TypeInv, TypeOK
<1>2. Becomes(o, m)
  <2>1. /\ PinsWithout(o) \in [PageNos -> Nat] /\ OwedWithout(o) \in SUBSET PageNos
        /\ PinsWithout(o)[HeaderPage] = pinCnt[HeaderPage]
    BY PinsWithoutIs
  <2>2. pinCnt[HeaderPage] = pinCnt[HeaderPage] + One(m.open) - One(obj[o].open)
    BY <1>1 DEF One
  <2> QED
    BY <2>1, <2>2 DEF Becomes
<1>3. ASSUME PinsAreObjects, ReadsSucceed PROVE PinsFollow(o, m)
  <2>1. \A p : ~Holds(m, p)
    BY <1>3 DEF Holds
  <2>2. \A p \in DataPages : pinCnt[p] \in Nat
    BY FileFacts DEF TypeInv, TypeOK
  <2>3. \A p \in DataPages : pinCnt'[p] = pinCnt[p] + One(Holds(m, p)) - One(Holds(obj[o], p))
    <3> SUFFICES ASSUME NEW p \in DataPages
                 PROVE  pinCnt'[p] = pinCnt[p] + One(Holds(m, p)) - One(Holds(obj[o], p))
      OBVIOUS
    <3>1. PinsWithout(o)[p] = pinCnt[p] - One(Holds(obj[o], p))
      BY <1>3, PinsWithoutIs
    <3>2. One(Holds(m, p)) = 0 /\ One(Holds(obj[o], p)) \in Nat
      BY <2>1 DEF One
    <3> QED
      BY <2>2, <3>1, <3>2
  <2>4. ASSUME NEW p \in owed' PROVE Owes(o, m, p) \/ (p \in owed /\ ~Owes(o, obj[o], p))
    <3>1. p \in owed /\ p \in DataPages \cup {HeaderPage}
      BY <1>1, PinsWithoutIs
    <3>2. CASE p = HeaderPage
      BY <3>1, <3>2 DEF Owes
    <3>3. CASE p \in DataPages
      BY <3>1, <3>3, PinsWithoutIs
    <3> QED
      BY <3>1, <3>2, <3>3
  <2> QED
    BY <1>3, <2>3, <2>4 DEF PinsFollow
<1> QED
  BY <1>2, <1>3 DEF Moves

(* An object gives up its data page for page p, or stays on p. *)
LEMMA MovesTo ==
  ASSUME TypeInv, NEW o \in Objects \ Inserters, NEW p \in DataPages, NEW m \in Members,
         MoveTo(o, p), obj' = [obj EXCEPT ![o] = m], MemberSound(o, m, numPages'),
         m.open = obj[o].open, m.hdrDirty = obj[o].hdrDirty,
         m.curPage = p, m.curPageNo = p, m.curDirty = DirtyAt(o, p)
  PROVE  Moves(o, m)
<1>1. /\ pinCnt \in [PageNos -> Nat] /\ HeaderPage \notin DataPages /\ owed \subseteq PageNos
      /\ PageNos \subseteq DataPages \cup {HeaderPage} /\ NoPage \notin DataPages
      /\ DataPages \subseteq PageNos /\ HeaderPage \in PageNos
  BY FileFacts DEF TypeInv, TypeOK
<1>2. CASE HoldsPage(o) /\ obj[o].curPageNo = p
  <2>1. pinCnt' = pinCnt /\ owed' = owed
    BY <1>2 DEF MoveTo
  <2>2. Becomes(o, m)
    BY <1>1, <2>1 DEF Becomes, One
  <2>3. \A q : Holds(m, q) <=> Holds(obj[o], q)
    BY <1>1, <1>2 DEF Holds, HoldsPage
  <2>4. m.curDirty = obj[o].curDirty
    BY <1>2, MemberIs DEF DirtyAt
  <2>5. \A q : Owes(o, m, q) <=> Owes(o, obj[o], q)
    BY <2>3, <2>4 DEF Owes
  <2>6. \A q \in DataPages : pinCnt'[q] = pinCnt[q] + One(Holds(m, q)) - One(Holds(obj[o], q))
    BY <1>1, <2>1, <2>3 DEF One
  <2> QED
    BY <2>1, <2>2, <2>5, <2>6 DEF Moves, PinsFollow
<1>3. CASE ~(HoldsPage(o) /\ obj[o].curPageNo = p)
  <2>1. pinCnt' = Pin(PinsWithout(o), p) /\ owed' = OwedWithout(o)
    BY <1>3 DEF MoveTo
  <2>2. Becomes(o, m)
    BY <1>1, <2>1, PinsWithoutIs DEF Becomes, One, Pin
  <2>3. ASSUME PinsAreObjects PROVE PinsFollow(o, m)
    <3>1. \A q : Holds(m, q) <=> q = p
      BY <1>1 DEF Holds
    <3>2. \A q \in DataPages : pinCnt'[q] = pinCnt[q] + One(Holds(m, q)) - One(Holds(obj[o], q))
      <4> SUFFICES ASSUME NEW q \in DataPages
                   PROVE  pinCnt'[q] = pinCnt[q] + One(q = p) - One(Holds(obj[o], q))
        BY <3>1 DEF One
      <4>1. PinsWithout(o)[q] = pinCnt[q] - One(Holds(obj[o], q))
        BY <2>3, PinsWithoutIs
      <4>2. PinsWithout(o) \in [PageNos -> Nat] /\ q \in PageNos /\ p \in PageNos
        BY <1>1, PinsWithoutIs
      <4>3. pinCnt'[q] = PinsWithout(o)[q] + One(q = p)
        BY <2>1, <4>2 DEF Pin, One
      <4>4. pinCnt[q] \in Nat
        BY <1>1
      <4> QED
        BY <4>1, <4>3, <4>4 DEF One
    <3>3. ASSUME NEW q \in owed' PROVE Owes(o, m, q) \/ (q \in owed /\ ~Owes(o, obj[o], q))
      <4>1. q \in owed /\ q \in DataPages \cup {HeaderPage}
        BY <1>1, <2>1, PinsWithoutIs
      <4>2. CASE q = HeaderPage
        BY <4>1, <4>2 DEF Owes
      <4>3. CASE q \in DataPages
        BY <2>1, <4>1, <4>3, PinsWithoutIs
      <4> QED
        BY <4>1, <4>2, <4>3
    <3> QED
      BY <3>2, <3>3 DEF PinsFollow
  <2> QED
    BY <2>2, <2>3 DEF Moves
<1> QED
  BY <1>2, <1>3



(* An object that is closed.                                             *)
LEMMA ClosedIs == /\ Closed \in Members
                  /\ ~Closed.open /\ Closed.open = FALSE /\ Closed.curPage = NoPage
                  /\ Closed.curPageNo = 0 /\ ~Closed.curDirty /\ ~Closed.hdrDirty
                  /\ Closed.curRec = NullRid
BY DEF Closed, Members

(* Opening pins the header page and a data page. *)
LEMMA Opens ==
  ASSUME TypeInv, NEW o \in Objects, NEW p \in DataPages, p < numPages,
         ~obj[o].open, pinCnt' = Pin(Pin(pinCnt, HeaderPage), p),
         obj' = [obj EXCEPT ![o] = Opened(p)], UNCHANGED <<owed, numPages>>
  PROVE  Moves(o, Opened(p))
<1> DEFINE m == Opened(p)
<1>1. /\ pinCnt \in [PageNos -> Nat] /\ HeaderPage \notin DataPages /\ owed \subseteq PageNos
      /\ PageNos \subseteq DataPages \cup {HeaderPage} /\ NoPage \notin DataPages
      /\ DataPages \subseteq PageNos /\ HeaderPage \in PageNos /\ numPages \in Nat
  BY FileFacts DEF TypeInv, TypeOK
<1>2. obj[o] = Closed
  BY MemberIs DEF MemberSound
<1>3. m \in Members /\ m.open = TRUE /\ m.curPage = p /\ m.curPageNo = p
  <2>1. m = [Closed EXCEPT !.open = TRUE, !.curPage = p, !.curPageNo = p]
    BY DEF Opened
  <2> HIDE DEF m
  <2> QED
    BY <2>1, ClosedIs DEF Members
<1>5. obj' = [obj EXCEPT ![o] = m]
  OBVIOUS
<1> HIDE DEF m
<1>6. MemberSound(o, m, numPages')
  BY <1>1, <1>3 DEF MemberSound
<1>7. \A q : ~Holds(obj[o], q)
  BY <1>2, ClosedIs DEF Holds
<1>8. \A q : Holds(m, q) <=> q = p
  BY <1>1, <1>3 DEF Holds
<1>9. /\ pinCnt' \in [PageNos -> Nat]
      /\ \A q \in PageNos : pinCnt'[q] = pinCnt[q] + One(q = p) + One(q = HeaderPage)
  BY <1>1 DEF Pin, One
<1>10. Becomes(o, m)
  <2>1. pinCnt'[HeaderPage] = pinCnt[HeaderPage] + One(m.open) - One(obj[o].open)
    <3>1. pinCnt'[HeaderPage] = pinCnt[HeaderPage] + 1 /\ pinCnt[HeaderPage] \in Nat
      BY <1>1, <1>9 DEF One
    <3> QED
      BY <1>2, <1>3, <3>1, ClosedIs DEF One
  <2> QED
    BY <1>1, <1>3, <1>5, <1>6, <1>9, <2>1 DEF Becomes
<1>11. PinsFollow(o, m)
  <2>1. ASSUME NEW q \in DataPages
        PROVE  pinCnt'[q] = pinCnt[q] + One(Holds(m, q)) - One(Holds(obj[o], q))
    <3>1. One(Holds(m, q)) = One(q = p) /\ One(Holds(obj[o], q)) = 0 /\ One(q = HeaderPage) = 0
      BY <1>1, <1>7, <1>8 DEF One
    <3>2. pinCnt[q] \in Nat /\ One(q = p) \in Nat
      BY <1>1 DEF One
    <3> QED
      BY <1>1, <1>9, <3>1, <3>2
  <2>2. \A q : ~Owes(o, obj[o], q)
    BY <1>2, <1>7, ClosedIs DEF Owes
  <2> QED
    BY <1>3, <2>1, <2>2 DEF PinsFollow
<1> QED
  BY <1>10, <1>11 DEF Moves, m

(* The destructors unpin what is pinned, and declare what is owed. *)
LEMMA Closes ==
  ASSUME TypeInv, NEW o \in Objects, Close(o)
  PROVE  Moves(o, Closed)
<1>1. /\ pinCnt \in [PageNos -> Nat] /\ HeaderPage \notin DataPages /\ owed \subseteq PageNos
      /\ PageNos \subseteq DataPages \cup {HeaderPage} /\ NoPage \notin DataPages
      /\ DataPages \subseteq PageNos /\ HeaderPage \in PageNos /\ numPages \in Nat
  BY FileFacts DEF TypeInv, TypeOK
<1>2. /\ obj[o].open /\ pinCnt' = UnPin(PinsWithout(o), HeaderPage) /\ numPages' = numPages
      /\ obj' = [obj EXCEPT ![o] = Closed]
  BY DEF Close, PinsClosed
<1>3. /\ Closed \in Members /\ MemberSound(o, Closed, numPages')
      /\ Closed.open = FALSE /\ Closed.curPage = NoPage
  <2>1. numPages > 0
    BY DEF TypeInv, TypeOK
  <2> QED
    BY <1>1, <1>2, <2>1, ClosedIs DEF MemberSound, NoPage
<1>4. /\ PinsWithout(o) \in [PageNos -> Nat]
      /\ PinsWithout(o)[HeaderPage] = pinCnt[HeaderPage]
      /\ pinCnt[HeaderPage] > 0
      /\ PinsAreObjects => \A p \in DataPages :
           PinsWithout(o)[p] = pinCnt[p] - One(Holds(obj[o], p))
  BY <1>2, PinsWithoutIs, PinFacts
<1>5. owed' = owed \ ((IF HoldsPage(o) /\ CloseDirty(o) THEN {obj[o].curPageNo} ELSE {})
                       \cup (IF obj[o].hdrDirty THEN {HeaderPage} ELSE {}))
  BY DEF Close
<1>6. Becomes(o, Closed)
  <2>1. pinCnt' \in [PageNos -> Nat] /\ pinCnt'[HeaderPage] = pinCnt[HeaderPage] - 1
    BY <1>1, <1>2, <1>4 DEF UnPin
  <2>2. pinCnt'[HeaderPage] = pinCnt[HeaderPage] + One(Closed.open) - One(obj[o].open)
    <3>1. pinCnt[HeaderPage] \in Nat
      BY <1>1
    <3> QED
      BY <1>2, <1>3, <2>1, <3>1 DEF One
  <2>3. owed' \in SUBSET PageNos
    BY <1>1, <1>5
  <2> QED
    BY <1>2, <1>3, <2>1, <2>2, <2>3 DEF Becomes
<1>7. ASSUME PinsAreObjects PROVE PinsFollow(o, Closed)
  <2>1. ASSUME NEW p \in DataPages
        PROVE  pinCnt'[p] = pinCnt[p] + One(Holds(Closed, p)) - One(Holds(obj[o], p))
    <3>1. pinCnt'[p] = PinsWithout(o)[p]
      BY <1>1, <1>2, <1>4 DEF UnPin
    <3>2. One(Holds(Closed, p)) = 0 /\ One(Holds(obj[o], p)) \in Nat /\ pinCnt[p] \in Nat
      BY <1>1, <1>3 DEF One, Holds
    <3>3. PinsWithout(o)[p] = pinCnt[p] - One(Holds(obj[o], p))
      BY <1>4, <1>7
    <3> QED
      BY <3>1, <3>2, <3>3
  <2>2. ASSUME NEW p \in owed' PROVE p \in owed /\ ~Owes(o, obj[o], p)
    BY <1>1, <1>5 DEF Owes, Holds, HoldsPage, CloseDirty
  <2> QED
    BY <1>3, <2>1, <2>2 DEF PinsFollow
<1> QED
  BY <1>6, <1>7 DEF Moves

(* Objects that keep the pages they have. *)
LEMMA Stays ==
  ASSUME TypeInv, NEW o \in Objects, NEW m \in Members, NEW D \in SUBSET PageNos,
         UNCHANGED pinCnt, owed' = owed \cup D, obj' = [obj EXCEPT ![o] = m],
         MemberSound(o, m, numPages'), m.open = obj[o].open,
         m.curPage = obj[o].curPage,
         m.curPage # NoPage => m.curPageNo = obj[o].curPageNo,
         obj[o].hdrDirty => m.hdrDirty,
         m.curPage # NoPage /\ obj[o].curDirty => m.curDirty,
         PinsAreObjects => \A p \in D : Owes(o, m, p)
  PROVE  Moves(o, m)
<1>1. pinCnt \in [PageNos -> Nat] /\ HeaderPage \in PageNos /\ DataPages \subseteq PageNos
      /\ owed \in SUBSET PageNos
  BY FileFacts DEF TypeInv, TypeOK
<1>2. \A q : Holds(m, q) <=> Holds(obj[o], q)
  BY DEF Holds
<1>3. Becomes(o, m)
  <2>1. pinCnt[HeaderPage] = pinCnt[HeaderPage] + One(m.open) - One(obj[o].open)
    BY <1>1 DEF One
  <2> QED
    BY <1>1, <2>1 DEF Becomes
<1>4. ASSUME PinsAreObjects PROVE PinsFollow(o, m)
  <2>1. ASSUME NEW q \in DataPages
        PROVE  pinCnt'[q] = pinCnt[q] + One(Holds(m, q)) - One(Holds(obj[o], q))
    <3>1. One(Holds(m, q)) = One(Holds(obj[o], q)) /\ One(Holds(obj[o], q)) \in Nat
      BY <1>2 DEF One
    <3>2. pinCnt[q] \in Nat
      BY <1>1
    <3> QED
      BY <3>1, <3>2
  <2>2. \A q : Owes(o, obj[o], q) => Owes(o, m, q)
    BY <1>2 DEF Owes, Holds
  <2>3. m.curPage # NoPage => m.curPage = m.curPageNo
    BY <1>4, PinFacts DEF HoldsPage
  <2> QED
    BY <1>4, <2>1, <2>2, <2>3 DEF PinsFollow
<1> QED
  BY <1>3, <1>4 DEF Moves

(* Where a scan goes on, it finds records of allocated pages.              *)
LEMMA ScanFacts ==
  ASSUME TypeInv, NEW s \in Scans
  PROVE  LET p == Start(s)[1]
         IN  /\ p \in DataPages /\ p < numPages
             /\ Rest(s) = {r \in From(p) \X SlotNos : /\ r[2] \in SlotsOf(r[1])
                                                      /\ After(r, p, Start(s)[2])}
             /\ Rest(s) \subseteq Rids /\ \A r \in Rest(s) : r[1] < numPages
             /\ Hits(s) # {} => FirstOf(Hits(s)) \in Hits(s)
             /\ Rest(s) # {} => LastOf(Rest(s)) \in Rest(s)
             /\ LastFrom(p) \in From(p) /\ LastFrom(p) \in DataPages /\ LastFrom(p) < numPages
<1> DEFINE p == Start(s)[1]
           k == Start(s)[2]
<1>1. TypeOK /\ FileSound /\ Links(page)
  BY DEF TypeInv, FileSound
<1>2. p \in DataPages /\ p < numPages
  <2>1. s \in Objects
    BY DEF Objects
  <2>2. CASE HoldsPage(s)
    <3>1. p = obj[s].curPage
      BY <2>2 DEF Start
    <3> QED
      BY <2>1, <2>2, <3>1, MemberIs DEF MemberSound
  <2>3. CASE ~HoldsPage(s)
    <3>1. p = header.firstPage
      BY <2>3 DEF Start
    <3> QED
      BY <1>1, <3>1, FileFacts DEF TypeOK
  <2> QED
    BY <2>2, <2>3
<1> HIDE DEF p
<1>3. /\ From(p) \subseteq DataPages /\ p \in From(p)
      /\ \A q \in From(p) : q < numPages /\ SlotsOf(q) \subseteq SlotNos
      /\ LastFrom(p) \in From(p)
  BY <1>1, <1>2, FileFacts
<1>4. \A r : r \in Rest(s) <=> \/ \E t \in SlotsOf(p) : r = <<p, t>> /\ t > k
                               \/ \E q \in Later(p) : \E t \in SlotsOf(q) : r = <<q, t>>
  BY DEF Rest, OnPage, p
<1> HIDE DEF k
<1>5. \A q \in From(p) : q \in Later(p) <=> p < q
  <2>1. From(p) \subseteq {q \in DataPages : p <= q}
    BY <1>1, <1>2, FromIsFromIn, FromLeast
  <2>2. \A q \in From(p) : q \in Later(p) <=> q # p
    BY DEF Later
  <2>3. DataPages \subseteq Nat
    BY <1>1, FileFacts
  <2>4. \A q \in From(p) : q \in Nat /\ p \in Nat /\ p <= q
    BY <1>2, <2>1, <2>3
  <2>5. \A q \in From(p) : q # p <=> p < q
    BY <2>4
  <2> QED
    BY <2>2, <2>5
<1>6. Later(p) \subseteq From(p)
  BY DEF Later
<1>7. Rest(s) = {r \in From(p) \X SlotNos : r[2] \in SlotsOf(r[1]) /\ After(r, p, k)}
  <2> DEFINE R == {r \in From(p) \X SlotNos : r[2] \in SlotsOf(r[1]) /\ After(r, p, k)}
  <2>1. Rest(s) \subseteq R
    <3> SUFFICES ASSUME NEW r \in Rest(s) PROVE r \in R
      OBVIOUS
    <3>1. CASE \E t \in SlotsOf(p) : r = <<p, t>> /\ t > k
      <4>1. PICK t \in SlotsOf(p) : r = <<p, t>> /\ t > k
        BY <3>1
      <4>2. r[1] = p /\ r[2] = t /\ k < t
        BY <4>1
      <4> QED
        BY <1>3, <4>1, <4>2 DEF After
    <3>2. CASE \E q \in Later(p) : \E t \in SlotsOf(q) : r = <<q, t>>
      BY <1>3, <1>5, <1>6, <3>2 DEF After
    <3> QED
      BY <1>4, <3>1, <3>2
  <2>2. R \subseteq Rest(s)
    <3> SUFFICES ASSUME NEW r \in R PROVE r \in Rest(s)
      OBVIOUS
    <3>1. r = <<r[1], r[2]>> /\ r[1] \in From(p) /\ r[2] \in SlotsOf(r[1])
      OBVIOUS
    <3>2. CASE p < r[1]
      BY <1>4, <1>5, <3>1, <3>2
    <3>3. CASE p = r[1] /\ k < r[2]
      <4>1. r = <<p, r[2]>> /\ r[2] > k
        BY <3>1, <3>3
      <4> QED
        BY <1>4, <3>1, <3>3, <4>1
    <3> QED
      BY <3>2, <3>3 DEF After
  <2> QED
    BY <2>1, <2>2
<1>8. Rest(s) \subseteq From(p) \X SlotNos /\ Hits(s) \subseteq Rest(s)
  BY <1>7 DEF Hits
<1>9. Rest(s) \subseteq Rids /\ \A r \in Rest(s) : r[1] < numPages
  BY <1>3, <1>8 DEF Rids
<1>10. /\ Hits(s) # {} => FirstOf(Hits(s)) \in Hits(s)
       /\ Rest(s) # {} => LastOf(Rest(s)) \in Rest(s)
  <2>1. Hits(s) \subseteq From(p) \X SlotNos
    BY <1>8
  <2> QED
    BY <1>1, <1>2, <1>8, <2>1, FirstOfIs, LastOfIs
<1> QED
  BY <1>2, <1>3, <1>7, <1>9, <1>10 DEF p, k

(* What the actions that depend on failures do. *)
LEMMA Failing ==
  /\ \A o, r : GetRecordFails(o, r) =>
       /\ ~ReadsSucceed /\ Usable(o)
       /\ pinCnt' = PinsWithout(o) /\ owed' = OwedWithout(o)
       /\ obj' = [obj EXCEPT ![o].failed = TRUE]
       /\ UNCHANGED <<header, page, numPages, scan, todo, seen>>
  /\ \A s : ScanFails(s) =>
       /\ ~ReadsSucceed /\ Usable(s)
       /\ pinCnt' = PinsWithout(s) /\ owed' = OwedWithout(s)
       /\ \E p \in IF HoldsPage(s) THEN Later(obj[s].curPage) ELSE From(header.firstPage) :
            obj' = [obj EXCEPT ![s].curPage = NoPage, ![s].curPageNo = p, ![s].curDirty = FALSE,
                               ![s].failed = TRUE]
       /\ UNCHANGED <<header, page, numPages, scan, todo, seen>>
  /\ \A s : EndScan(s) =>
       /\ ~ScansOnlyOnce /\ Usable(s)
       /\ pinCnt' = PinsWithout(s) /\ owed' = OwedWithout(s)
       /\ obj' = [obj EXCEPT ![s].curPage = NoPage, ![s].curPageNo = 0, ![s].curDirty = FALSE]
       /\ todo' = [todo EXCEPT ![s] = Records]
       /\ seen' = [seen EXCEPT ![s] = {}]
       /\ UNCHANGED <<header, page, numPages, scan>>
  /\ \A s : ResetFails(s) =>
       /\ ~ReadsSucceed /\ Usable(s)
       /\ scan[s].mark.pageNo # NoPage
       /\ pinCnt' = PinsWithout(s) /\ owed' = OwedWithout(s)
       /\ obj' = [obj EXCEPT ![s].curPageNo = scan[s].mark.pageNo,
                             ![s].curRec = scan[s].mark.rec, ![s].failed = TRUE]
       /\ UNCHANGED <<header, page, numPages, scan, todo, seen>>
  /\ \A s : DeleteAgain(s) =>
       /\ ~DeletesOnlyOnce /\ Usable(s) /\ HoldsPage(s)
       /\ owed' = owed \cup {HeaderPage}
       /\ header' = [header EXCEPT !.recCnt = @ - 1]
       /\ obj' = [obj EXCEPT ![s] = Deleted(s)]
       /\ UNCHANGED <<page, numPages, pinCnt, scan, todo, seen>>
  /\ \A i : OpenInserterFails(i) =>
       /\ ~ReadsSucceed /\ ~obj[i].open
       /\ pinCnt' = Pin(pinCnt, HeaderPage)
       /\ obj' = [obj EXCEPT ![i] = [Opened(header.lastPage) EXCEPT !.curPage = header.firstPage]]
       /\ UNCHANGED <<header, page, numPages, owed, scan, todo, seen>>
  /\ \A i : InsertLong(i) =>
       Usable(i) /\ Append(i, [s \in {} |-> 0], obj[i].curDirty)
  /\ \A i : InsertFails(i) =>
       /\ numPages \in DataPages
       /\ numPages' = numPages + 1
       /\ UNCHANGED <<header, page, pinCnt, owed, obj, scan, todo, seen>>
<1>1. ASSUME NEW s, ResetFails(s) PROVE scan[s].mark.pageNo # NoPage
  BY <1>1, Zenon DEF ResetFails
<1> QED
  BY <1>1, Zenon DEF GetRecordFails, ScanFails, EndScan, ResetFails, DeleteAgain, OpenInserterFails,
     InsertLong, InsertFails, ReadsSucceed, ScansOnlyOnce, DeletesOnlyOnce

(* getRecord, scanNext and resetScan: an object goes to page p. *)
At(o, p, r) == [obj[o] EXCEPT !.curPage = p, !.curPageNo = p, !.curDirty = DirtyAt(o, p),
                              !.curRec = r]

(* An object that has moved to a record.                                 *)
LEMMA AtIs ==
  ASSUME TypeInv, NEW o \in Objects, NEW p, NEW r
  PROVE  /\ At(o, p, r).curPage = p /\ At(o, p, r).curPageNo = p
         /\ At(o, p, r).curDirty = DirtyAt(o, p) /\ At(o, p, r).curRec = r
         /\ At(o, p, r).open = obj[o].open /\ At(o, p, r).hdrDirty = obj[o].hdrDirty
         /\ At(o, p, r).failed = obj[o].failed
         /\ p \in DataPages /\ r \in Rids \cup {NullRid} => At(o, p, r) \in Members
<1>1. obj[o] \in Members
  BY MemberIs
<1>2. DirtyAt(o, p) \in BOOLEAN
  BY MemberIs DEF DirtyAt
<1> HIDE DEF DirtyAt
<1> QED
  BY <1>1, <1>2 DEF At, Members

(* An object unpins its page, if it has another one, and pins page p.    *)
LEMMA Goes ==
  ASSUME TypeInv, NEW o \in Objects \ Inserters, Usable(o),
         NEW p \in DataPages, p < numPages, NEW r \in Rids \cup {NullRid}, MoveTo(o, p),
         obj' = [obj EXCEPT ![o].curPage = p, ![o].curPageNo = p,
                            ![o].curDirty = DirtyAt(o, p), ![o].curRec = r],
         UNCHANGED numPages
  PROVE  obj' = [obj EXCEPT ![o] = At(o, p, r)] /\ Moves(o, At(o, p, r))
<1> DEFINE m == At(o, p, r)
<1>1. obj' = [obj EXCEPT ![o] = m]
  <2>1. obj \in [Objects -> Members]
    BY DEF TypeInv, TypeOK
  <2> HIDE DEF DirtyAt
  <2> QED
    BY <2>1 DEF At
<1>2. /\ m \in Members /\ m.curPage = p /\ m.curPageNo = p /\ m.curDirty = DirtyAt(o, p)
      /\ m.open = obj[o].open /\ m.hdrDirty = obj[o].hdrDirty
  BY AtIs
<1> HIDE DEF m
<1>3. MemberSound(o, m, numPages')
  BY <1>2 DEF MemberSound, Usable
<1> QED
  BY <1>1, <1>2, <1>3, MovesTo DEF m

(* An object gives up its page, as endScan does, or loses it. *)
LEMMA Gone ==
  ASSUME TypeInv, NEW o \in Objects \ Inserters, Usable(o),
         pinCnt' = PinsWithout(o), owed' = OwedWithout(o),
         NEW m \in Members, obj' = [obj EXCEPT ![o] = m],
         m.open = obj[o].open, m.hdrDirty = obj[o].hdrDirty,
         m.curPage = NoPage \/ (~ReadsSucceed /\ m.curPage = obj[o].curPage),
         m.curPageNo < numPages,
         m.curPageNo \in DataPages \/ m.curPage = NoPage,
         UNCHANGED numPages
  PROVE  Moves(o, m)
<1>1. MemberSound(o, m, numPages')
  <2>1. m.curPage < numPages
    BY MemberIs DEF MemberSound, NoPage, TypeInv, TypeOK
  <2> QED
    BY <2>1 DEF MemberSound, Usable
<1> QED
  BY <1>1, LeavesPage

(* Objects have one role.                                                *)
LEMMA ObjectsAre ==
  /\ \A o \in Plain : o \in Objects \ Inserters /\ o \notin Scans
  /\ \A s \in Scans : s \in Objects \ Inserters
  /\ \A i \in Inserters : i \in Objects /\ i \notin Scans
BY ObjectsAssumption DEF Objects

(* HeapFile::getRecord goes to the page of the record.                   *)
LEMMA GetRecordMoves ==
  ASSUME TypeInv, NEW o \in Plain, NEW r \in Records, GetRecord(o, r)
  PROVE  Moves(o, At(o, r[1], r)) /\ obj' = [obj EXCEPT ![o] = At(o, r[1], r)]
<1>1. r \in Rids /\ r[1] \in DataPages /\ r[1] < numPages
  BY RecordFacts DEF TypeInv
<1> HIDE DEF Records
<1>2. /\ Usable(o) /\ MoveTo(o, r[1]) /\ UNCHANGED numPages
      /\ obj' = [obj EXCEPT ![o].curPage = r[1], ![o].curPageNo = r[1],
                            ![o].curDirty = DirtyAt(o, r[1]), ![o].curRec = r]
  BY DEF GetRecord
<1> QED
  BY <1>1, <1>2, Goes, ObjectsAre

(* A read fails in it: the object is left with no page, or with a stale one. *)
LEMMA GetRecordFailsMoves ==
  ASSUME TypeInv, NEW o \in Plain, NEW r \in Records, GetRecordFails(o, r)
  PROVE  \E m : Moves(o, m)
<1> DEFINE m == [obj[o] EXCEPT !.failed = TRUE]
<1>1. /\ ~ReadsSucceed /\ Usable(o) /\ UNCHANGED numPages
      /\ pinCnt' = PinsWithout(o) /\ owed' = OwedWithout(o)
      /\ obj' = [obj EXCEPT ![o].failed = TRUE]
  BY Failing
<1>2. /\ obj[o] \in Members /\ MemberSound(o, obj[o], numPages) /\ o \in Objects \ Inserters
      /\ obj \in [Objects -> Members]
  BY MemberIs, ObjectsAre DEF TypeInv, TypeOK
<1>3. obj' = [obj EXCEPT ![o] = m]
  BY <1>1, <1>2
<1>4. /\ m \in Members /\ m.open = obj[o].open /\ m.hdrDirty = obj[o].hdrDirty
      /\ m.curPage = obj[o].curPage /\ m.curPageNo = obj[o].curPageNo
  BY <1>2 DEF Members
<1> HIDE DEF m
<1>5. m.curPageNo < numPages /\ (m.curPageNo \in DataPages \/ m.curPage = NoPage)
  BY <1>2, <1>4 DEF MemberSound
<1>6. Moves(o, m)
  BY <1>1, <1>2, <1>3, <1>4, <1>5, Gone
<1> QED
  BY <1>6

(* scanNext goes to the next record that passes the filter.              *)
LEMMA ScanFindsMoves ==
  ASSUME TypeInv, NEW s \in Scans, ScanFinds(s)
  PROVE  LET r == FirstOf(Hits(s))
         IN  Moves(s, At(s, r[1], r)) /\ obj' = [obj EXCEPT ![s] = At(s, r[1], r)]
<1> DEFINE r == FirstOf(Hits(s))
<1>1. r \in Rids /\ r[1] \in DataPages /\ r[1] < numPages
  <2>1. r \in Rest(s)
    BY ScanFacts DEF ScanFinds, Hits
  <2>2. r \in Rids /\ r[1] < numPages
    BY <2>1, ScanFacts
  <2> HIDE DEF r
  <2> QED
    BY <2>2 DEF Rids
<1>2. /\ Usable(s) /\ MoveTo(s, r[1]) /\ UNCHANGED numPages
      /\ obj' = [obj EXCEPT ![s].curPage = r[1], ![s].curPageNo = r[1],
                            ![s].curDirty = DirtyAt(s, r[1]), ![s].curRec = r]
  BY DEF ScanFinds
<1> HIDE DEF r
<1>3. Moves(s, At(s, r[1], r)) /\ obj' = [obj EXCEPT ![s] = At(s, r[1], r)]
  BY <1>1, <1>2, Goes, ObjectsAre
<1> QED
  BY <1>3 DEF r

(* The slot and page of the last record that scanNext looked at. *)
EndRec(s) == IF Rest(s) = {} THEN obj[s].curRec ELSE LastOf(Rest(s))

(* scanNext finds none, and stays on the last page.                      *)
LEMMA ScanEndsMoves ==
  ASSUME TypeInv, NEW s \in Scans, ScanEnds(s)
  PROVE  \/ AtEnd(s) /\ UNCHANGED <<pinCnt, owed, obj>>
         \/ /\ ~HoldsPage(s)
            /\ \E m : Moves(s, m) /\ obj' = [obj EXCEPT ![s] = m] /\ m.curPage = NoPage
         \/ LET p == LastFrom(Start(s)[1])
            IN  /\ ~AtEnd(s) /\ ~FirstIsEmpty(s) /\ EndRec(s) \in Rids \cup {NullRid}
                /\ Moves(s, At(s, p, EndRec(s)))
                /\ obj' = [obj EXCEPT ![s] = At(s, p, EndRec(s))]
<1>1. Usable(s) /\ UNCHANGED numPages /\ s \in Objects \ Inserters
  BY ObjectsAre DEF ScanEnds
<1>2. obj[s] \in Members /\ MemberSound(s, obj[s], numPages) /\ obj \in [Objects -> Members]
  BY <1>1, MemberIs DEF TypeInv, TypeOK
<1>3. CASE AtEnd(s)
  BY <1>3 DEF ScanEnds
<1>4. CASE ~AtEnd(s) /\ FirstIsEmpty(s)
  <2> DEFINE m == [obj[s] EXCEPT !.curPageNo = -1, !.curDirty = FALSE, !.curRec = NullRid]
  <2>1. /\ pinCnt' = pinCnt /\ owed' = owed /\ ~HoldsPage(s)
        /\ obj' = [obj EXCEPT ![s].curPageNo = -1, ![s].curDirty = FALSE, ![s].curRec = NullRid]
    BY <1>4 DEF ScanEnds, FirstIsEmpty
  <2>2. obj' = [obj EXCEPT ![s] = m]
    BY <1>1, <1>2, <2>1
  <2>3. /\ m \in Members /\ m.open = obj[s].open /\ m.hdrDirty = obj[s].hdrDirty
        /\ m.curPage = obj[s].curPage /\ m.curPageNo = -1
    BY <1>2 DEF Members, NoPage
  <2> HIDE DEF m
  <2>4. MemberSound(s, m, numPages')
    <3>1. numPages \in Nat
      BY FileFacts DEF TypeInv
    <3> QED
      BY <1>1, <1>2, <2>1, <2>3, <3>1 DEF MemberSound, Usable, HoldsPage
  <2>5. owed' = owed \cup {} /\ {} \in SUBSET PageNos /\ m.curPage = NoPage
    BY <2>1, <2>3 DEF HoldsPage
  <2>6. Moves(s, m)
    <3>1. (obj[s].hdrDirty => m.hdrDirty) /\ pinCnt' = pinCnt /\ s \in Objects
          /\ \A p \in {} : Owes(s, m, p)
      BY <1>1, <2>1, <2>3
    <3> QED
      BY <2>2, <2>3, <2>4, <2>5, <3>1, Stays
  <2> QED
    BY <2>1, <2>2, <2>5, <2>6
<1>5. CASE ~AtEnd(s) /\ ~FirstIsEmpty(s)
  <2> DEFINE p == LastFrom(Start(s)[1])
             r == EndRec(s)
  <2>1. p \in DataPages /\ p < numPages
    BY ScanFacts
  <2>2. r \in Rids \cup {NullRid}
    BY <1>2, ScanFacts DEF EndRec, Members
  <2>3. /\ MoveTo(s, p)
        /\ obj' = [obj EXCEPT ![s].curPage = p, ![s].curPageNo = p,
                              ![s].curDirty = DirtyAt(s, p), ![s].curRec = r]
    BY <1>5 DEF ScanEnds, EndRec
  <2> HIDE DEF p, r
  <2>4. Moves(s, At(s, p, r)) /\ obj' = [obj EXCEPT ![s] = At(s, p, r)]
    BY <1>1, <2>1, <2>2, <2>3, Goes
  <2> QED
    BY <1>5, <2>2, <2>4 DEF p, r
<1> QED
  BY <1>3, <1>4, <1>5

(* A read fails in it.                                                   *)
LEMMA ScanFailsMoves ==
  ASSUME TypeInv, NEW s \in Scans, ScanFails(s)
  PROVE  \E m : Moves(s, m)
<1>1. /\ ~ReadsSucceed /\ Usable(s) /\ UNCHANGED numPages
      /\ pinCnt' = PinsWithout(s) /\ owed' = OwedWithout(s)
  BY Failing
<1>2. /\ obj[s] \in Members /\ MemberSound(s, obj[s], numPages) /\ obj \in [Objects -> Members]
      /\ s \in Objects \ Inserters
  BY MemberIs, ObjectsAre DEF TypeInv, TypeOK
<1>3. \A p \in IF HoldsPage(s) THEN Later(obj[s].curPage) ELSE From(header.firstPage) :
        p \in DataPages /\ p < numPages
  <2>1. CASE HoldsPage(s)
    <3>1. obj[s].curPage \in DataPages /\ obj[s].curPage < numPages
      BY <1>2, <2>1, MemberIs DEF MemberSound
    <3> QED
      BY <2>1, <3>1, FileFacts DEF TypeInv, Later
  <2>2. CASE ~HoldsPage(s)
    <3>1. 2 < numPages
      BY DEF TypeInv, TypeOK
    <3> QED
      BY <2>2, <3>1, FileFacts DEF TypeInv
  <2> QED
    BY <2>1, <2>2
<1>4. PICK p \in DataPages :
        /\ p < numPages
        /\ obj' = [obj EXCEPT ![s].curPage = NoPage, ![s].curPageNo = p, ![s].curDirty = FALSE,
                              ![s].failed = TRUE]
  BY <1>3, Failing, Zenon
<1> DEFINE m == [obj[s] EXCEPT !.curPage = NoPage, !.curPageNo = p, !.curDirty = FALSE,
                               !.failed = TRUE]
<1>5. obj' = [obj EXCEPT ![s] = m]
  BY <1>2, <1>4
<1>6. /\ m \in Members /\ m.open = obj[s].open /\ m.hdrDirty = obj[s].hdrDirty
      /\ m.curPage = NoPage /\ m.curPageNo = p
  BY <1>2, <1>4 DEF Members
<1> HIDE DEF m
<1>7. m.curPageNo < numPages
  BY <1>4, <1>6
<1>8. s \in Objects \ Inserters /\ m \in Members /\ numPages' = numPages
  BY <1>1, <1>2, <1>6
<1>9. Moves(s, m)
  BY <1>1, <1>5, <1>6, <1>7, <1>8, Gone
<1> QED
  BY <1>9

(* endScan lets go of the page.                                          *)
LEMMA EndScanMoves ==
  ASSUME TypeInv, NEW s \in Scans, EndScan(s)
  PROVE  \E m : Moves(s, m)
<1> DEFINE m == [obj[s] EXCEPT !.curPage = NoPage, !.curPageNo = 0, !.curDirty = FALSE]
<1>1. /\ Usable(s) /\ numPages' = numPages
      /\ pinCnt' = PinsWithout(s) /\ owed' = OwedWithout(s)
      /\ obj' = [obj EXCEPT ![s].curPage = NoPage, ![s].curPageNo = 0, ![s].curDirty = FALSE]
  BY Failing
<1>2. /\ obj[s] \in Members /\ obj \in [Objects -> Members] /\ s \in Objects \ Inserters
      /\ 0 < numPages
  BY MemberIs, ObjectsAre DEF TypeInv, TypeOK
<1>3. obj' = [obj EXCEPT ![s] = m]
  BY <1>1, <1>2
<1>4. /\ m \in Members /\ m.open = obj[s].open /\ m.hdrDirty = obj[s].hdrDirty
      /\ m.curPage = NoPage /\ m.curPageNo < numPages
  BY <1>2 DEF Members
<1> HIDE DEF m
<1>5. Moves(s, m)
  BY <1>1, <1>2, <1>3, <1>4, Gone
<1> QED
  BY <1>5

(* resetScan goes back to the page that was marked.                      *)
LEMMA ResetScanMoves ==
  ASSUME TypeInv, NEW s \in Scans, ResetScan(s)
  PROVE  LET k == scan[s].mark
         IN  /\ Moves(s, At(s, k.pageNo, k.rec))
             /\ obj' = [obj EXCEPT ![s] = At(s, k.pageNo, k.rec)]
<1> DEFINE p == scan[s].mark.pageNo
           r == scan[s].mark.rec
<1>1. /\ Usable(s) /\ MoveTo(s, p) /\ UNCHANGED numPages /\ p # NoPage
      /\ obj' = [obj EXCEPT ![s].curPage = p, ![s].curPageNo = p,
                            ![s].curDirty = DirtyAt(s, p), ![s].curRec = r]
  BY DEF ResetScan, ResetRec
<1>2. p \in DataPages /\ p < numPages /\ r \in Rids \cup {NullRid} /\ s \in Objects \ Inserters
  BY <1>1, ObjectsAre DEF TypeInv, TypeOK, ObjectsSound, Marks
<1> HIDE DEF p, r
<1>3. Moves(s, At(s, p, r)) /\ obj' = [obj EXCEPT ![s] = At(s, p, r)]
  BY <1>1, <1>2, Goes
<1> QED
  BY <1>3 DEF p, r

(* A read fails in it.                                                   *)
LEMMA ResetFailsMoves ==
  ASSUME TypeInv, NEW s \in Scans, ResetFails(s)
  PROVE  \E m : Moves(s, m)
<1> DEFINE p == scan[s].mark.pageNo
           r == scan[s].mark.rec
           m == [obj[s] EXCEPT !.curPageNo = p, !.curRec = r, !.failed = TRUE]
<1>1. /\ ~ReadsSucceed /\ Usable(s) /\ numPages' = numPages /\ p # NoPage
      /\ pinCnt' = PinsWithout(s) /\ owed' = OwedWithout(s)
      /\ obj' = [obj EXCEPT ![s].curPageNo = p, ![s].curRec = r, ![s].failed = TRUE]
  BY Failing
<1>2. /\ p \in DataPages /\ p < numPages /\ r \in Rids \cup {NullRid} /\ s \in Objects \ Inserters
      /\ obj[s] \in Members /\ obj \in [Objects -> Members]
  BY <1>1, ObjectsAre DEF TypeInv, TypeOK, ObjectsSound, Marks
<1> HIDE DEF p, r
<1>3. obj' = [obj EXCEPT ![s] = m]
  BY <1>1, <1>2
<1>4. /\ m \in Members /\ m.open = obj[s].open /\ m.hdrDirty = obj[s].hdrDirty
      /\ m.curPage = obj[s].curPage /\ m.curPageNo = p
  BY <1>2 DEF Members
<1> HIDE DEF m
<1>5. Moves(s, m)
  BY <1>1, <1>2, <1>3, <1>4, Gone
<1> QED
  BY <1>5

(* A write to the current page: s is to declare it, and the header page if *)
(* its counts change.                                                      *)
Wrote(o, h) == [obj[o] EXCEPT !.curDirty = TRUE, !.hdrDirty = h]

(* An object writes to the page it is on, and to the header perhaps.     *)
LEMMA Writes ==
  ASSUME TypeInv, NEW o \in Objects, Usable(o), HoldsPage(o), UNCHANGED <<pinCnt, numPages>>,
         NEW h \in BOOLEAN, obj[o].hdrDirty => h, obj' = [obj EXCEPT ![o] = Wrote(o, h)],
         NEW D \in SUBSET PageNos, owed' = owed \cup D,
         \A p \in D : p = obj[o].curPage \/ (h /\ p = HeaderPage)
  PROVE  /\ Moves(o, Wrote(o, h))
         /\ Wrote(o, h).open = obj[o].open /\ Wrote(o, h).curPage = obj[o].curPage
         /\ Wrote(o, h).curRec = obj[o].curRec
<1> DEFINE m == Wrote(o, h)
<1>1. obj[o] \in Members /\ MemberSound(o, obj[o], numPages)
  BY MemberIs
<1>2. /\ m \in Members /\ m.open = obj[o].open /\ m.curPage = obj[o].curPage
      /\ m.curPageNo = obj[o].curPageNo /\ m.curDirty = TRUE /\ m.hdrDirty = h
      /\ m.curRec = obj[o].curRec
  BY <1>1 DEF Members, Wrote
<1> HIDE DEF m
<1>3. MemberSound(o, m, numPages')
  BY <1>1, <1>2 DEF MemberSound, Usable
<1>4. ASSUME PinsAreObjects, NEW p \in D PROVE Owes(o, m, p)
  <2>1. obj[o].curPage = obj[o].curPageNo /\ obj[o].curPageNo \in DataPages
    BY <1>4, PinFacts
  <2>2. HeaderPage \notin DataPages
    BY FileFacts DEF TypeInv
  <2>3. CASE p = HeaderPage
    BY <1>2, <2>1, <2>2, <2>3 DEF Owes, Usable
  <2>4. CASE p # HeaderPage
    BY <1>2, <2>1, <2>4 DEF Owes, Holds, HoldsPage
  <2> QED
    BY <2>3, <2>4
<1>5. obj' = [obj EXCEPT ![o] = m] /\ pinCnt' = pinCnt
  BY DEF m
<1>6. Moves(o, m)
  <2>1. (obj[o].hdrDirty => m.hdrDirty) /\ (m.curPage # NoPage /\ obj[o].curDirty => m.curDirty)
    BY <1>2
  <2>2. PinsAreObjects => \A p \in D : Owes(o, m, p)
    BY <1>4
  <2> QED
    BY <1>2, <1>3, <1>5, <2>1, <2>2, Stays
<1> QED
  BY <1>2, <1>6 DEF m

(* A scan with a current record is on its page.                          *)
LEMMA CurrentIs ==
  ASSUME TypeInv, NEW s \in Scans, Current(s)
  PROVE  LET r == obj[s].curRec
         IN  /\ r \in Rids /\ r[1] \in DataPages /\ r[2] \in SlotsOf(r[1])
             /\ r[1] = obj[s].curPage /\ r = <<r[1], r[2]>>
             /\ Usable(s) /\ HoldsPage(s) /\ s \in Objects
<1>1. s \in Objects /\ obj[s].curPage \in DataPages
  BY MemberIs, ObjectsAre DEF Current
<1>2. PICK t \in SlotsOf(obj[s].curPage) : obj[s].curRec = <<obj[s].curPage, t>>
  BY DEF Current, OnPage
<1>3. t \in SlotNos
  BY <1>1, <1>2, FileFacts DEF TypeInv
<1> QED
  BY <1>1, <1>2, <1>3 DEF Rids, Current

(* deleteRecord writes to the page and to the header.                    *)
LEMMA DeleteRecordMoves ==
  ASSUME TypeInv, NEW s \in Scans, DeleteRecord(s)
  PROVE  Moves(s, Deleted(s)) /\ Deleted(s) = Wrote(s, TRUE) /\ obj' = [obj EXCEPT ![s] = Deleted(s)]
<1>1. Deleted(s) = Wrote(s, TRUE)
  BY DEF Deleted, Wrote
<1>2. /\ Current(s) /\ UNCHANGED <<pinCnt, numPages>>
      /\ owed' = owed \cup {obj[s].curRec[1], HeaderPage}
      /\ obj' = [obj EXCEPT ![s] = Deleted(s)]
  BY DEF DeleteRecord
<1>3. obj[s].curRec[1] = obj[s].curPage /\ obj[s].curPage \in DataPages
      /\ Usable(s) /\ HoldsPage(s) /\ s \in Objects
  BY <1>2, CurrentIs
<1> DEFINE D == {obj[s].curRec[1], HeaderPage}
<1>4. D \in SUBSET PageNos
  BY <1>3, FileFacts DEF TypeInv
<1>5. \A p \in D : p = obj[s].curPage \/ (TRUE /\ p = HeaderPage)
  BY <1>3
<1>6. owed' = owed \cup D
  BY <1>2
<1> HIDE DEF D
<1>7. Moves(s, Wrote(s, TRUE))
  BY <1>1, <1>2, <1>3, <1>4, <1>5, <1>6, Writes
<1> QED
  BY <1>1, <1>2, <1>7

(* So it does when the record has been deleted already.                  *)
LEMMA DeleteAgainMoves ==
  ASSUME TypeInv, NEW s \in Scans, DeleteAgain(s)
  PROVE  Moves(s, Deleted(s)) /\ Deleted(s) = Wrote(s, TRUE) /\ obj' = [obj EXCEPT ![s] = Deleted(s)]
<1>1. Deleted(s) = Wrote(s, TRUE)
  BY DEF Deleted, Wrote
<1> DEFINE D == {HeaderPage}
<1>2. /\ Usable(s) /\ HoldsPage(s) /\ UNCHANGED <<pinCnt, numPages>>
      /\ owed' = owed \cup D
      /\ obj' = [obj EXCEPT ![s] = Deleted(s)]
  BY Failing
<1>3. D \in SUBSET PageNos
  BY FileFacts DEF TypeInv
<1>4. \A p \in D : p = obj[s].curPage \/ (TRUE /\ p = HeaderPage)
  OBVIOUS
<1> HIDE DEF D
<1>5. Moves(s, Wrote(s, TRUE))
  BY <1>1, <1>2, <1>3, <1>4, Writes, ObjectsAre
<1> QED
  BY <1>1, <1>2, <1>5

(* markDirty writes to the page.                                         *)
LEMMA MarkDirtyMoves ==
  ASSUME TypeInv, NEW s \in Scans, NEW v, MarkDirty(s, v)
  PROVE  LET m == Wrote(s, obj[s].hdrDirty)
         IN  Moves(s, m) /\ obj' = [obj EXCEPT ![s] = m]
<1> DEFINE m == Wrote(s, obj[s].hdrDirty)
<1>1. /\ Current(s) /\ UNCHANGED <<pinCnt, numPages>>
      /\ owed' = owed \cup {obj[s].curRec[1]}
      /\ obj' = [obj EXCEPT ![s].curDirty = TRUE]
  BY DEF MarkDirty
<1>2. obj[s].curRec[1] = obj[s].curPage /\ obj[s].curPage \in DataPages
      /\ Usable(s) /\ HoldsPage(s) /\ s \in Objects
  BY <1>1, CurrentIs
<1>3. obj[s] \in Members /\ obj \in [Objects -> Members] /\ obj[s].hdrDirty \in BOOLEAN
  BY <1>2, MemberIs DEF TypeInv, TypeOK
<1>4. obj' = [obj EXCEPT ![s] = m]
  BY <1>1, <1>2, <1>3 DEF Wrote, Members
<1> DEFINE D == {obj[s].curRec[1]}
<1>5. D \in SUBSET PageNos
  BY <1>2, FileFacts DEF TypeInv
<1>6. \A p \in D : p = obj[s].curPage \/ (obj[s].hdrDirty /\ p = HeaderPage)
  BY <1>2
<1>7. owed' = owed \cup D
  BY <1>1
<1> HIDE DEF D
<1>8. Moves(s, m)
  BY <1>1, <1>2, <1>3, <1>4, <1>5, <1>6, <1>7, Writes
<1> QED
  BY <1>4, <1>8

(* The constructor pins the first page,                                  *)
LEMMA OpenHeapFileMoves ==
  ASSUME TypeInv, NEW o \in Objects,
         (o \in Plain /\ OpenHeapFile(o)) \/ (o \in Scans /\ \E f \in Filters : OpenScan(o, f))
  PROVE  /\ Moves(o, Opened(header.firstPage))
         /\ obj' = [obj EXCEPT ![o] = Opened(header.firstPage)]
<1>1. header.firstPage \in DataPages /\ header.firstPage < numPages
  BY FileFacts DEF TypeInv, TypeOK
<1>2. /\ ~obj[o].open /\ pinCnt' = Pin(Pin(pinCnt, HeaderPage), header.firstPage)
      /\ obj' = [obj EXCEPT ![o] = Opened(header.firstPage)] /\ UNCHANGED <<owed, numPages>>
  BY DEF OpenHeapFile, OpenScan
<1> QED
  BY <1>1, <1>2, Opens

(* and that of InsertFileScan the last one.                              *)
LEMMA OpenInserterMoves ==
  ASSUME TypeInv, NEW i \in Inserters, OpenInserter(i)
  PROVE  /\ Moves(i, Opened(header.lastPage))
         /\ obj' = [obj EXCEPT ![i] = Opened(header.lastPage)]
<1>1. header.lastPage \in DataPages /\ header.lastPage < numPages /\ i \in Objects
  BY ObjectsAre DEF TypeInv, TypeOK, FileSound
<1>2. /\ ~obj[i].open /\ pinCnt' = Pin(Pin(pinCnt, HeaderPage), header.lastPage)
      /\ obj' = [obj EXCEPT ![i] = Opened(header.lastPage)] /\ UNCHANGED <<owed, numPages>>
  BY DEF OpenInserter
<1> QED
  BY <1>1, <1>2, Opens

(* A read fails in it: the object has unpinned the first page, and keeps it. *)
LEMMA OpenInserterFailsMoves ==
  ASSUME TypeInv, NEW i \in Inserters, OpenInserterFails(i)
  PROVE  \E m : Moves(i, m)
<1> DEFINE m == [Opened(header.lastPage) EXCEPT !.curPage = header.firstPage]
<1>1. /\ ~ReadsSucceed /\ ~obj[i].open /\ UNCHANGED <<owed, numPages>>
      /\ pinCnt' = Pin(pinCnt, HeaderPage)
      /\ obj' = [obj EXCEPT ![i] = m]
  BY Failing
<1>2. /\ header.lastPage \in DataPages /\ header.lastPage < numPages /\ i \in Objects
      /\ header.firstPage \in DataPages /\ header.firstPage < numPages
      /\ pinCnt \in [PageNos -> Nat] /\ HeaderPage \in PageNos /\ owed \in SUBSET PageNos
  BY ObjectsAre, FileFacts DEF TypeInv, TypeOK, FileSound
<1>3. Opened(header.lastPage) \in Members /\ Opened(header.lastPage).open = TRUE
      /\ Opened(header.lastPage).curPageNo = header.lastPage
  BY <1>2, ClosedIs DEF Opened, Members
<1>4. /\ m \in Members /\ m.open = TRUE /\ m.curPage = header.firstPage
      /\ m.curPageNo = header.lastPage
  BY <1>2, <1>3 DEF Members
<1> HIDE DEF m
<1>5. MemberSound(i, m, numPages')
  <2>1. NoPage \notin DataPages
    BY FileFacts DEF TypeInv
  <2> QED
    BY <1>1, <1>2, <1>4, <2>1 DEF MemberSound
<1>6. Becomes(i, m)
  <2>1. pinCnt' \in [PageNos -> Nat] /\ pinCnt'[HeaderPage] = pinCnt[HeaderPage] + 1
    BY <1>1, <1>2 DEF Pin
  <2>2. pinCnt'[HeaderPage] = pinCnt[HeaderPage] + One(m.open) - One(obj[i].open)
    <3>1. pinCnt[HeaderPage] \in Nat
      BY <1>2
    <3> QED
      BY <1>1, <1>4, <2>1, <3>1 DEF One
  <2> QED
    BY <1>1, <1>2, <1>4, <1>5, <2>1, <2>2 DEF Becomes
<1> QED
  BY <1>1, <1>6 DEF Moves

(* An inserter always has a page. *)
LEMMA InserterIs ==
  ASSUME TypeInv, NEW i \in Inserters, Usable(i)
  PROVE  /\ i \in Objects /\ HoldsPage(i) /\ obj[i] \in Members
         /\ obj[i].curPage \in DataPages /\ obj[i].curPage < numPages
         /\ obj[i].curPageNo \in DataPages /\ obj[i].curPageNo < numPages
<1>1. i \in Objects /\ obj[i] \in Members /\ MemberSound(i, obj[i], numPages)
  BY ObjectsAre, MemberIs
<1>2. HoldsPage(i)
  BY <1>1 DEF MemberSound, HoldsPage, Usable
<1> QED
  BY <1>1, <1>2, MemberIs DEF MemberSound

(* insertRecord writes to the page it is on, and to the header.          *)
LEMMA InsertHereMoves ==
  ASSUME TypeInv, NEW i \in Inserters, NEW v, InsertHere(i, v)
  PROVE  Moves(i, Wrote(i, TRUE)) /\ obj' = [obj EXCEPT ![i] = Wrote(i, TRUE)]
<1> DEFINE D == {obj[i].curPage, HeaderPage}
<1>1. /\ Usable(i) /\ UNCHANGED <<pinCnt, numPages>> /\ owed' = owed \cup D
      /\ obj' = [obj EXCEPT ![i].curDirty = TRUE, ![i].hdrDirty = TRUE]
  BY DEF InsertHere
<1>2. i \in Objects /\ HoldsPage(i) /\ obj[i] \in Members /\ obj[i].curPage \in DataPages
      /\ obj \in [Objects -> Members]
  BY <1>1, InserterIs DEF TypeInv, TypeOK
<1>3. obj' = [obj EXCEPT ![i] = Wrote(i, TRUE)]
  BY <1>1, <1>2 DEF Wrote
<1>4. D \in SUBSET PageNos
  BY <1>2, FileFacts DEF TypeInv
<1>5. \A p \in D : p = obj[i].curPage \/ (TRUE /\ p = HeaderPage)
  OBVIOUS
<1> HIDE DEF D
<1>6. Moves(i, Wrote(i, TRUE))
  BY <1>1, <1>2, <1>3, <1>4, <1>5, Writes
<1> QED
  BY <1>3, <1>6

(* The new page is the one that the inserter goes on with. *)
Appended(i, dirty) == [obj[i] EXCEPT !.curPage = numPages, !.curPageNo = numPages,
                                     !.curDirty = dirty, !.hdrDirty = TRUE]

(* insertRecord goes to a page that it has put behind the last one.      *)
LEMMA AppendMoves ==
  ASSUME TypeInv, NEW i \in Inserters, Usable(i), NEW recs, NEW dirty \in BOOLEAN,
         Append(i, recs, dirty)
  PROVE  /\ Moves(i, Appended(i, dirty)) /\ obj' = [obj EXCEPT ![i] = Appended(i, dirty)]
         /\ Appended(i, dirty).open /\ Appended(i, dirty).curPage = numPages
<1> DEFINE m == Appended(i, dirty)
           c == obj[i].curPageNo
<1>1. /\ numPages \in DataPages /\ numPages' = numPages + 1
      /\ pinCnt' = Pin(UnPin(pinCnt, c), numPages)
      /\ owed' = (owed \ {c}) \cup {numPages, HeaderPage}
      /\ obj' = [obj EXCEPT ![i].curPage = numPages, ![i].curPageNo = numPages,
                            ![i].curDirty = dirty, ![i].hdrDirty = TRUE]
  BY DEF Append
<1>2. /\ i \in Objects /\ HoldsPage(i) /\ obj[i] \in Members /\ obj \in [Objects -> Members]
      /\ c \in DataPages /\ c < numPages
  BY InserterIs DEF TypeInv, TypeOK
<1>3. /\ pinCnt \in [PageNos -> Nat] /\ owed \in SUBSET PageNos /\ HeaderPage \notin DataPages
      /\ HeaderPage \in PageNos /\ DataPages \subseteq PageNos /\ NoPage \notin DataPages
      /\ DataPages \subseteq Nat /\ PageNos \subseteq DataPages \cup {HeaderPage}
  BY FileFacts DEF TypeInv, TypeOK
<1>4. obj' = [obj EXCEPT ![i] = m]
  BY <1>1, <1>2 DEF Appended
<1>5. /\ m \in Members /\ m.open = obj[i].open /\ m.curPage = numPages /\ m.curPageNo = numPages
      /\ m.hdrDirty = TRUE
  BY <1>1, <1>2 DEF Appended, Members
<1>6. obj[i].open
  BY DEF Usable
<1> HIDE DEF m
<1>7. MemberSound(i, m, numPages')
  BY <1>1, <1>3, <1>5, <1>6 DEF MemberSound
<1>8. c # numPages /\ c # HeaderPage /\ numPages # HeaderPage
  BY <1>1, <1>2, <1>3
<1>9. /\ pinCnt' \in [PageNos -> Nat]
      /\ \A q \in PageNos \ {c} : pinCnt'[q] = pinCnt[q] + One(q = numPages)
      /\ pinCnt[c] > 0 => pinCnt'[c] = pinCnt[c] - 1
  BY <1>1, <1>2, <1>3, <1>8 DEF Pin, UnPin, One
<1>10. Becomes(i, m)
  <2>1. pinCnt'[HeaderPage] = pinCnt[HeaderPage] + One(m.open) - One(obj[i].open)
    <3>1. pinCnt'[HeaderPage] = pinCnt[HeaderPage] + One(HeaderPage = numPages)
      BY <1>3, <1>8, <1>9
    <3>2. pinCnt[HeaderPage] \in Nat
      BY <1>3
    <3> QED
      BY <1>5, <1>8, <3>1, <3>2 DEF One
  <2>2. owed' \in SUBSET PageNos
    BY <1>1, <1>3
  <2> QED
    BY <1>4, <1>5, <1>7, <1>9, <2>1, <2>2 DEF Becomes
<1>11. ASSUME PinsAreObjects PROVE PinsFollow(i, m)
  <2>1. \A q : Holds(m, q) <=> q = numPages
    BY <1>1, <1>3, <1>5 DEF Holds
  <2>2. \A q : Holds(obj[i], q) <=> q = c
    BY <1>2 DEF Holds, HoldsPage
  <2>3. pinCnt[c] > 0
    BY <1>2, <1>11, PinFacts
  <2>4. ASSUME NEW q \in DataPages
        PROVE  pinCnt'[q] = pinCnt[q] + One(Holds(m, q)) - One(Holds(obj[i], q))
    <3>1. One(Holds(m, q)) = One(q = numPages) /\ One(Holds(obj[i], q)) = One(q = c)
      BY <2>1, <2>2 DEF One
    <3>2. q \in PageNos /\ pinCnt[q] \in Nat
      BY <1>3
    <3>3. CASE q = c
      BY <1>8, <1>9, <2>3, <3>1, <3>2, <3>3 DEF One
    <3>4. CASE q # c
      BY <1>9, <3>1, <3>2, <3>4 DEF One
    <3> QED
      BY <3>3, <3>4
  <2>5. ASSUME NEW q \in owed' PROVE Owes(i, m, q) \/ (q \in owed /\ ~Owes(i, obj[i], q))
    <3>1. CASE q = HeaderPage
      BY <1>5, <1>6, <3>1 DEF Owes
    <3>2. CASE q = numPages
      BY <1>8, <2>1, <3>2 DEF Owes
    <3>3. CASE q \in owed \ {c} /\ q # HeaderPage
      BY <2>2, <3>3 DEF Owes
    <3> QED
      BY <1>1, <3>1, <3>2, <3>3
  <2> QED
    BY <1>5, <2>4, <2>5 DEF PinsFollow
<1> QED
  BY <1>4, <1>5, <1>6, <1>10, <1>11 DEF Moves, m

-----------------------------------------------------------------------------
(* Changes to pages.                                                       *)

(* A page that has room has a free slot, and the slot array has room for   *)
(* its number.                                                             *)
LEMMA FreeSlotIs ==
  ASSUME TypeOK, FileSound, NEW p \in DataPages, Fits(p)
  PROVE  FreeSlot(p) \in SlotNos \ SlotsOf(p)
<1> DEFINE S == SlotsOf(p)
           n == SlotCnt(p)
<1>1. S \subseteq SlotNos /\ SlotNos \subseteq Nat
  BY FileFacts, SlotNosIs
<1>2. n \in Nat /\ (\A t \in S : t < n) /\ (n > 0 => n - 1 \in S)
  <2>1. CASE S = {}
    BY <2>1 DEF SlotCnt
  <2>2. CASE S # {}
    <3>1. PICK m \in Nat : SlotNos = 0 .. m
      BY SlotNosIs
    <3>2. \E k \in S : \A j \in S : j <= k
      <4> HIDE DEF S
      <4> QED
        BY <1>1, <2>2, <3>1, GreatestElement
    <3> DEFINE k == CHOOSE s \in S : \A t \in S : t <= s
    <3>3. k \in S /\ \A j \in S : j <= k
      BY <3>2
    <3>4. n = 1 + k
      BY <2>2 DEF SlotCnt
    <3> HIDE DEF k, n, S
    <3>5. k \in Nat /\ S \subseteq Nat
      BY <1>1, <3>3
    <3> QED
      BY <3>3, <3>4, <3>5
  <2> QED
    BY <2>1, <2>2
<1> DEFINE Free == {s \in 0 .. n : s \notin S}
<1>3. PICK f \in Free : \A j \in Free : f <= j
  <2> HIDE DEF n, S
  <2>1. Free \subseteq Nat /\ n \in Free
    BY <1>2
  <2> HIDE DEF Free
  <2> QED
    BY <2>1, LeastElement
<1> HIDE DEF n, S
<1>4. f \in 0 .. n /\ f \notin S /\ \A t \in 0 .. f - 1 : t \in S
  <2>1. ASSUME NEW t \in 0 .. f - 1, t \notin S PROVE FALSE
    <3>1. t \in Free /\ t < f
      BY <1>2, <1>3, <2>1
    <3> QED
      BY <1>2, <1>3, <2>1, <3>1
  <2> QED
    BY <1>3, <2>1
<1>5. /\ FreeSlot(p) \in 0 .. n /\ FreeSlot(p) \notin S
      /\ \A t \in 0 .. FreeSlot(p) - 1 : t \in S
  <2>1. \E s \in 0 .. n : s \notin S /\ \A t \in 0 .. s - 1 : t \in S
    BY <1>4
  <2> QED
    BY <2>1 DEF FreeSlot, n, S
<1> DEFINE g == FreeSlot(p)
<1>6. CASE g < n
  <2>1. g <= n - 1 /\ n - 1 \in S
    BY <1>2, <1>5, <1>6
  <2>2. PICK m \in Nat : SlotNos = 0 .. m
    BY SlotNosIs
  <2>3. n - 1 \in 0 .. m
    BY <1>1, <2>1, <2>2
  <2> QED
    BY <1>2, <1>5, <2>1, <2>2, <2>3 DEF S
<1>7. CASE g = n
  <2>1. IsFiniteSet(S) /\ Cardinality(S) \in Nat
    BY <1>1, SlotNosIs, FS_Subset, FS_CardinalityType
  <2>2. n <= Cardinality(S)
    <3>1. 0 .. n - 1 \in SUBSET S
      BY <1>5, <1>7
    <3>2. Cardinality(0 .. n - 1) <= Cardinality(S)
      BY <2>1, <3>1, FS_Subset
    <3>3. Cardinality(0 .. n - 1) = n
      BY <1>2, FS_Interval
    <3> QED
      BY <3>2, <3>3
  <2>3. RecSize + SlotSize <= PageSpace - RecSize * Cardinality(S) - SlotSize * n
    BY DEF Fits, S, n
  <2>4. RecSize * n <= RecSize * Cardinality(S)
    BY <1>2, <2>1, <2>2, SizesAssumption
  <2>5. (RecSize + SlotSize) * (n + 1) = RecSize * n + SlotSize * n + (RecSize + SlotSize)
    BY <1>2, SizesAssumption
  <2>6. RecSize * n \in Nat /\ SlotSize * n \in Nat /\ RecSize * Cardinality(S) \in Nat
    BY <1>2, <2>1, SizesAssumption
  <2>7. (RecSize + SlotSize) * (n + 1) <= PageSpace
    BY <2>3, <2>4, <2>5, <2>6, SizesAssumption
  <2>8. n \in SlotNos
    BY <1>2, <2>7, SlotNosIs
  <2> QED
    BY <1>5, <1>7, <2>8 DEF S
<1> QED
  BY <1>2, <1>5, <1>6, <1>7

(* Other records on a page of the file change no chain.                    *)
LEMMA RecsChange ==
  ASSUME TypeOK, FileSound, NEW p \in DataPages, p < numPages, NEW R \in RecSets,
         page' = [page EXCEPT ![p].recs = R],
         numPages' = numPages, header'.firstPage = header.firstPage,
         header'.lastPage = header.lastPage
  PROVE  /\ page' \in [DataPages -> [recs : RecSets, next : DataPages \cup {NoPage}]]
         /\ FileSound'
         /\ \A q \in DataPages : page'[q].next = page[q].next
         /\ \A q \in DataPages \ {p} : page'[q] = page[q]
         /\ page'[p].recs = R /\ SlotsOf(p)' = DOMAIN R
         /\ \A q \in DataPages \ {p} : SlotsOf(q)' = SlotsOf(q)
         /\ \A q \in DataPages : From(q)' = From(q)
         /\ Chain' = Chain
<1>1. page \in [DataPages -> [recs : RecSets, next : DataPages \cup {NoPage}]]
  BY DEF TypeOK
<1>2. /\ page' \in [DataPages -> [recs : RecSets, next : DataPages \cup {NoPage}]]
      /\ \A q \in DataPages : page'[q].next = page[q].next
      /\ \A q \in DataPages \ {p} : page'[q] = page[q]
      /\ page'[p].recs = R
  BY <1>1
<1>3. SlotsOf(p)' = DOMAIN R /\ \A q \in DataPages \ {p} : SlotsOf(q)' = SlotsOf(q)
  BY <1>2 DEF SlotsOf
<1>4. \A q \in DataPages : Links(page') /\ FromIn(page', q) = FromIn(page, q)
  <2>1. Links(page)
    BY DEF FileSound
  <2>2. \A others : (\A q \in DataPages : others[q].next = page[q].next)
                    => \A q \in DataPages : Links(others) /\ FromIn(others, q) = FromIn(page, q)
    BY <2>1, FromSame
  <2> QED
    BY <1>2, <2>2
<1>5. \A q \in DataPages : From(q)' = From(q)
  BY <1>4 DEF From, FromIn
<1>6. Chain' = Chain
  BY <1>5, FileFacts DEF Chain
<1>7. FileSound'
  <2>1. Links(page)'
    BY <1>4
  <2>2. ~(numPages <= p)
    <3>1. p \in Nat /\ numPages \in Nat
      BY FileFacts
    <3> QED
      BY <3>1
  <2>3. ASSUME NEW q \in DataPages
        PROVE  /\ page'[q].next < numPages'
               /\ numPages' <= q => SlotsOf(q)' = {} /\ page'[q].next = NoPage
    BY <1>2, <1>3, <2>2 DEF FileSound
  <2> QED
    BY <2>1, <2>3 DEF FileSound
<1> QED
  BY <1>2, <1>3, <1>5, <1>6, <1>7

(* A new page comes behind the current one of the inserter. *)
LEMMA AppendIs ==
  ASSUME TypeInv, NEW i \in Inserters, Usable(i), NEW recs \in RecSets, NEW dirty,
         Append(i, recs, dirty)
  PROVE  LET c == obj[i].curPage
         IN  /\ page' \in [DataPages -> [recs : RecSets, next : DataPages \cup {NoPage}]]
             /\ numPages \in DataPages /\ c \in DataPages /\ c < numPages /\ c # numPages
             /\ page'[numPages].recs = recs /\ page'[numPages].next = NoPage
             /\ page'[c].next = numPages
             /\ \A q \in DataPages \ {numPages} : page'[q].recs = page[q].recs
             /\ \A q \in DataPages \ {numPages, c} : page'[q].next = page[q].next
             /\ SlotsOf(numPages) = {}
             /\ \A q \in DataPages \ {numPages} : SlotsOf(q)' = SlotsOf(q)
             /\ header' = [header EXCEPT !.lastPage = numPages, !.pageCnt = @ + 1,
                                         !.recCnt = Counted(recs)]
             /\ numPages' = numPages + 1
             /\ FileSound'
<1> DEFINE c == obj[i].curPage
<1>1. /\ page \in [DataPages -> [recs : RecSets, next : DataPages \cup {NoPage}]]
      /\ DataPages \subseteq Nat /\ NoPage \notin DataPages
  BY FileFacts DEF TypeInv, TypeOK
<1>2. c \in DataPages /\ c < numPages
  BY InserterIs
<1>3. /\ numPages \in DataPages /\ numPages' = numPages + 1
      /\ page' = [page EXCEPT ![numPages] = [recs |-> recs, next |-> NoPage],
                              ![c].next = numPages]
      /\ header' = [header EXCEPT !.lastPage = numPages, !.pageCnt = @ + 1,
                                  !.recCnt = Counted(recs)]
  BY DEF Append, Linked
<1> HIDE DEF c
<1>4. c # numPages
  BY <1>1, <1>2, <1>3
<1>5. /\ page' \in [DataPages -> [recs : RecSets, next : DataPages \cup {NoPage}]]
      /\ page'[numPages].recs = recs /\ page'[numPages].next = NoPage
      /\ page'[c].next = numPages
      /\ \A q \in DataPages \ {numPages} : page'[q].recs = page[q].recs
      /\ \A q \in DataPages \ {numPages, c} : page'[q].next = page[q].next
  BY <1>1, <1>2, <1>3, <1>4
<1>6. \A q \in DataPages \ {numPages} : SlotsOf(q)' = SlotsOf(q)
  BY <1>5 DEF SlotsOf
<1>7. /\ \A q \in DataPages : /\ page[q].next < numPages
                              /\ page[q].next # NoPage => page[q].next \in DataPages /\ page[q].next > q
                              /\ numPages <= q => SlotsOf(q) = {} /\ page[q].next = NoPage
      /\ header.lastPage < numPages
  BY DEF TypeInv, FileSound, Links
<1>8. SlotsOf(numPages) = {}
  BY <1>1, <1>3, <1>7
<1>9. header'.lastPage = numPages
  BY <1>3 DEF TypeInv, TypeOK
<1>10. FileSound'
  <2>1. ASSUME NEW q \in DataPages
        PROVE  /\ page'[q].next < numPages'
               /\ page'[q].next # NoPage => page'[q].next \in DataPages /\ page'[q].next > q
               /\ numPages' <= q => SlotsOf(q)' = {} /\ page'[q].next = NoPage
    <3>1. q \in Nat /\ numPages \in Nat /\ c \in Nat /\ NoPage < numPages
      BY <1>1, <1>2, <1>3 DEF NoPage
    <3>2. CASE q = numPages
      BY <1>3, <1>5, <3>1, <3>2 DEF NoPage
    <3>3. CASE q = c
      BY <1>2, <1>3, <1>5, <3>1, <3>3
    <3>4. CASE q \notin {numPages, c}
      <4>1. page'[q].next = page[q].next /\ SlotsOf(q)' = SlotsOf(q)
        BY <1>5, <1>6, <3>4
      <4>2. page[q].next \in Nat \cup {NoPage}
        BY <1>1
      <4>3. page[q].next < numPages + 1
        BY <1>7, <3>1, <4>2 DEF NoPage
      <4> QED
        BY <1>3, <1>7, <3>1, <4>1, <4>3
    <3> QED
      BY <3>2, <3>3, <3>4
  <2>2. header'.lastPage < numPages'
    BY <1>1, <1>3, <1>9
  <2> QED
    BY <2>1, <2>2 DEF FileSound, Links
<1> QED
  BY <1>2, <1>3, <1>4, <1>5, <1>6, <1>8, <1>10 DEF c

(* What a step does to the file. *)
LEMMA FileActions ==
  ASSUME Next
  PROVE  \/ UNCHANGED <<header, page, numPages>>
         \/ \E s \in Scans : DeleteRecord(s)
         \/ \E s \in Scans : DeleteAgain(s)
         \/ \E s \in Scans, v \in Values : MarkDirty(s, v)
         \/ \E i \in Inserters, v \in Values : InsertHere(i, v)
         \/ \E i \in Inserters, v \in Values : InsertBehind(i, v)
         \/ \E i \in Inserters : InsertLong(i)
         \/ \E i \in Inserters : InsertFails(i)
<1>1. \A o : OpenHeapFile(o) \/ Close(o) \/ OpenInserter(o) \/ ScanFinds(o) \/ ScanEnds(o)
              \/ MarkScan(o) \/ ResetScan(o)
             => UNCHANGED <<header, page, numPages>>
  BY Zenon DEF OpenHeapFile, Close, OpenInserter, ScanFinds, ScanEnds, MarkScan, ResetScan
<1>2. \A o, x : OpenScan(o, x) \/ GetRecord(o, x) => UNCHANGED <<header, page, numPages>>
  BY Zenon DEF OpenScan, GetRecord
<1>3. /\ \A o, r : GetRecordFails(o, r) => UNCHANGED <<header, page, numPages>>
      /\ \A o : ScanFails(o) \/ EndScan(o) \/ ResetFails(o) \/ OpenInserterFails(o)
                => UNCHANGED <<header, page, numPages>>
  BY Failing, Zenon
<1> QED
  BY <1>1, <1>2, <1>3, Zenon DEF Next, ScanNext, InsertRecord

(* What can be done to the records of a page.                            *)
LEMMA RecSetsAre ==
  /\ \A S \in SUBSET SlotNos : \A f \in [S -> Values] : f \in RecSets
  /\ \A R \in RecSets : /\ DOMAIN R \in SUBSET SlotNos /\ R \in [DOMAIN R -> Values]
                        /\ IsFiniteSet(DOMAIN R) /\ Cardinality(DOMAIN R) \in Nat
  /\ \A R \in RecSets : \A s : Without(R, s) \in RecSets
  /\ \A R \in RecSets, s \in SlotNos, v \in Values : With(R, s, v) \in RecSets
  /\ \A R \in RecSets, v \in Values : \A s \in DOMAIN R : [R EXCEPT ![s] = v] \in RecSets
  /\ \A v \in Values : [s \in {0} |-> v] \in RecSets
  /\ [s \in {} |-> 0] \in RecSets
<1>1. \A S \in SUBSET SlotNos : \A f \in [S -> Values] : f \in RecSets
  BY DEF RecSets
<1>2. \A R \in RecSets : DOMAIN R \in SUBSET SlotNos /\ R \in [DOMAIN R -> Values]
  BY DEF RecSets
<1>3. \A S \in SUBSET SlotNos : IsFiniteSet(S) /\ Cardinality(S) \in Nat
  BY SlotNosIs, FS_Subset, FS_CardinalityType
<1>4. ASSUME NEW R \in RecSets, NEW s PROVE Without(R, s) \in RecSets
  <2>1. Without(R, s) \in [DOMAIN R \ {s} -> Values] /\ DOMAIN R \ {s} \in SUBSET SlotNos
    BY <1>2 DEF Without
  <2> QED
    BY <1>1, <2>1
<1>5. ASSUME NEW R \in RecSets, NEW s \in SlotNos, NEW v \in Values PROVE With(R, s, v) \in RecSets
  <2>1. With(R, s, v) \in [DOMAIN R \cup {s} -> Values] /\ DOMAIN R \cup {s} \in SUBSET SlotNos
    BY <1>2 DEF With
  <2> QED
    BY <1>1, <2>1
<1>6. ASSUME NEW R \in RecSets, NEW v \in Values, NEW s \in DOMAIN R
      PROVE  [R EXCEPT ![s] = v] \in RecSets
  <2>1. [R EXCEPT ![s] = v] \in [DOMAIN R -> Values] /\ DOMAIN R \in SUBSET SlotNos
    BY <1>2
  <2> QED
    BY <1>1, <2>1
<1>7. ASSUME NEW v \in Values PROVE [s \in {0} |-> v] \in RecSets
  <2>1. [s \in {0} |-> v] \in [{0} -> Values] /\ {0} \in SUBSET SlotNos
    BY SlotNosIs
  <2> QED
    BY <1>1, <2>1
<1>8. [s \in {} |-> 0] \in RecSets
  <2>1. [s \in {} |-> 0] \in [{} -> Values] /\ {} \in SUBSET SlotNos
    OBVIOUS
  <2> QED
    BY <1>1, <2>1
<1> QED
  BY <1>1, <1>2, <1>3, <1>4, <1>5, <1>6, <1>7, <1>8

(* The writes of records, each with the page and the records it leaves.    *)
LEMMA DeleteRecordFile ==
  ASSUME TypeInv, NEW s \in Scans, DeleteRecord(s)
  PROVE  LET r == obj[s].curRec
         IN  /\ r \in Rids /\ r[1] \in DataPages /\ r[1] < numPages
             /\ r[2] \in DOMAIN page[r[1]].recs
             /\ Without(page[r[1]].recs, r[2]) \in RecSets
             /\ page' = [page EXCEPT ![r[1]].recs = Without(page[r[1]].recs, r[2])]
             /\ header' = [header EXCEPT !.recCnt = @ - 1]
             /\ numPages' = numPages
<1>1. /\ Current(s) /\ UNCHANGED numPages /\ header' = [header EXCEPT !.recCnt = @ - 1]
      /\ page' = [page EXCEPT ![obj[s].curRec[1]].recs = Without(@, obj[s].curRec[2])]
  BY DEF DeleteRecord
<1> DEFINE r == obj[s].curRec
<1>2. r \in Rids /\ r[1] \in DataPages /\ r[1] < numPages /\ r[2] \in SlotsOf(r[1])
  BY <1>1, CurrentIs, MemberIs DEF MemberSound
<1>3. page[r[1]].recs \in RecSets
  BY <1>2 DEF TypeInv, TypeOK
<1>4. page' = [page EXCEPT ![r[1]].recs = Without(page[r[1]].recs, r[2])]
  BY <1>1, <1>2
<1> HIDE DEF r
<1> QED
  BY <1>1, <1>2, <1>3, <1>4, RecSetsAre DEF r, SlotsOf

(* What markDirty changes in the file.                                   *)
LEMMA MarkDirtyFile ==
  ASSUME TypeInv, NEW s \in Scans, NEW v \in Values, MarkDirty(s, v)
  PROVE  LET r == obj[s].curRec
         IN  /\ r \in Rids /\ r[1] \in DataPages /\ r[1] < numPages
             /\ r[2] \in DOMAIN page[r[1]].recs
             /\ [page[r[1]].recs EXCEPT ![r[2]] = v] \in RecSets
             /\ page' = [page EXCEPT ![r[1]].recs = [page[r[1]].recs EXCEPT ![r[2]] = v]]
             /\ header' = header /\ numPages' = numPages
<1>1. /\ Current(s) /\ UNCHANGED <<header, numPages>>
      /\ page' = [page EXCEPT ![obj[s].curRec[1]].recs[obj[s].curRec[2]] = v]
  BY DEF MarkDirty
<1> DEFINE r == obj[s].curRec
<1>2. r \in Rids /\ r[1] \in DataPages /\ r[1] < numPages /\ r[2] \in SlotsOf(r[1])
  BY <1>1, CurrentIs, MemberIs DEF MemberSound
<1>3. page[r[1]].recs \in RecSets
  BY <1>2 DEF TypeInv, TypeOK
<1>4. page' = [page EXCEPT ![r[1]].recs = [page[r[1]].recs EXCEPT ![r[2]] = v]]
  BY <1>1, <1>2
<1> HIDE DEF r
<1> QED
  BY <1>1, <1>2, <1>3, <1>4, RecSetsAre DEF r, SlotsOf

(* What insertRecord does when there is room.                            *)
LEMMA InsertHereFile ==
  ASSUME TypeInv, NEW i \in Inserters, NEW v \in Values, InsertHere(i, v)
  PROVE  LET p == obj[i].curPage
             t == FreeSlot(p)
         IN  /\ p \in DataPages /\ p < numPages
             /\ t \in SlotNos /\ t \notin DOMAIN page[p].recs
             /\ With(page[p].recs, t, v) \in RecSets
             /\ page' = [page EXCEPT ![p].recs = With(page[p].recs, t, v)]
             /\ header' = [header EXCEPT !.recCnt = @ + 1]
             /\ numPages' = numPages
<1> DEFINE p == obj[i].curPage
           t == FreeSlot(p)
<1>1. /\ Usable(i) /\ UNCHANGED numPages /\ header' = [header EXCEPT !.recCnt = @ + 1]
      /\ Fits(p) /\ page' = [page EXCEPT ![p].recs = With(@, t, v)]
  BY DEF InsertHere
<1>2. p \in DataPages /\ p < numPages
  BY <1>1, InserterIs
<1> HIDE DEF p
<1>3. page[p].recs \in RecSets
  BY <1>2 DEF TypeInv, TypeOK
<1>4. t \in SlotNos \ SlotsOf(p)
  BY <1>1, <1>2, FreeSlotIs DEF TypeInv
<1> HIDE DEF t
<1>5. page' = [page EXCEPT ![p].recs = With(page[p].recs, t, v)]
  BY <1>1, <1>2
<1>6. With(page[p].recs, t, v) \in RecSets
  BY <1>3, <1>4, RecSetsAre
<1> QED
  BY <1>1, <1>2, <1>4, <1>5, <1>6 DEF p, t, SlotsOf

(* Every step leaves header and pages as they should be.                 *)
LEMMA FileStep ==
  ASSUME TypeInv, Next
  PROVE  /\ header' \in [firstPage : {2}, lastPage : DataPages, pageCnt : Nat, recCnt : Int]
         /\ page' \in [DataPages -> [recs : RecSets, next : DataPages \cup {NoPage}]]
         /\ numPages' \in 3 .. MaxPages + 1 /\ numPages <= numPages'
         /\ FileSound'
<1> DEFINE Headers == [firstPage : {2}, lastPage : DataPages, pageCnt : Nat, recCnt : Int]
           Pages   == [DataPages -> [recs : RecSets, next : DataPages \cup {NoPage}]]
           Goal    == /\ header' \in Headers /\ page' \in Pages
                      /\ numPages' \in 3 .. MaxPages + 1 /\ numPages <= numPages'
                      /\ FileSound'
<1>1. /\ header \in Headers /\ page \in Pages /\ FileSound
      /\ numPages \in 3 .. MaxPages + 1 /\ MaxPages \in Nat
      /\ header.recCnt \in Int /\ header.pageCnt \in Nat /\ header.lastPage \in Nat
      /\ \A q \in DataPages : page[q].next \in Nat \cup {NoPage} /\ q \in Nat
  BY MaxPagesAssumption DEF TypeInv, TypeOK, DataPages
<1>2. \A n \in Int : /\ [header EXCEPT !.recCnt = n] \in Headers
                     /\ [header EXCEPT !.recCnt = n].firstPage = header.firstPage
                     /\ [header EXCEPT !.recCnt = n].lastPage = header.lastPage
  BY <1>1
<1>3. ASSUME UNCHANGED <<header, page, numPages>> PROVE Goal
  <2>1. FileSound'
    BY <1>1, <1>3 DEF FileSound, Links, SlotsOf
  <2> QED
    BY <1>1, <1>3, <2>1
<1>4. ASSUME NEW p \in DataPages, p < numPages, NEW R \in RecSets,
             page' = [page EXCEPT ![p].recs = R], numPages' = numPages,
             NEW n \in Int, header' = [header EXCEPT !.recCnt = n]
      PROVE  Goal
  <2>1. header'.firstPage = header.firstPage /\ header'.lastPage = header.lastPage
        /\ header' \in Headers
    BY <1>2, <1>4
  <2>2. page' \in Pages /\ FileSound'
    BY <1>4, <2>1, RecsChange DEF TypeInv
  <2> QED
    BY <1>1, <1>4, <2>1, <2>2
<1>5. ASSUME NEW s \in Scans, DeleteRecord(s) PROVE Goal
  <2>1. header.recCnt - 1 \in Int
    BY <1>1
  <2> QED
    BY <1>4, <1>5, <2>1, DeleteRecordFile
<1>6. ASSUME NEW s \in Scans, DeleteAgain(s) PROVE Goal
  <2>1. UNCHANGED <<page, numPages>> /\ header' = [header EXCEPT !.recCnt = @ - 1]
    BY <1>6, Failing, Zenon
  <2>2. header.recCnt - 1 \in Int /\ UNCHANGED <<page, numPages>>
        /\ header' = [header EXCEPT !.recCnt = @ - 1]
    BY <1>1, <2>1
  <2>3. header' \in Headers /\ header'.firstPage = header.firstPage
        /\ header'.lastPage = header.lastPage
    BY <1>2, <2>2
  <2>4. FileSound'
    BY <1>1, <2>2, <2>3 DEF FileSound, Links, SlotsOf
  <2> QED
    BY <1>1, <2>2, <2>3, <2>4
<1>7. ASSUME NEW s \in Scans, NEW v \in Values, MarkDirty(s, v) PROVE Goal
  <2>1. header = [header EXCEPT !.recCnt = header.recCnt] /\ header.recCnt \in Int
    BY <1>1
  <2> QED
    BY <1>4, <1>7, <2>1, MarkDirtyFile
<1>8. ASSUME NEW i \in Inserters, NEW v \in Values, InsertHere(i, v) PROVE Goal
  <2>1. header.recCnt + 1 \in Int
    BY <1>1
  <2> QED
    BY <1>4, <1>8, <2>1, InsertHereFile
<1>9. ASSUME NEW i \in Inserters, Usable(i), NEW recs \in RecSets, NEW dirty,
             Append(i, recs, dirty)
      PROVE  Goal
  <2>1. /\ page' \in Pages /\ FileSound' /\ numPages \in DataPages /\ numPages' = numPages + 1
        /\ header' = [header EXCEPT !.lastPage = numPages, !.pageCnt = @ + 1,
                                    !.recCnt = Counted(recs)]
    BY <1>9, AppendIs
  <2>2. Counted(recs) \in Int
    BY <1>1, RecSetsAre DEF Counted
  <2>3. header' \in Headers
    <3> HIDE DEF Headers
    <3>1. header.pageCnt + 1 \in Nat
      BY <1>1
    <3> QED
      BY <1>1, <2>1, <2>2, <3>1 DEF Headers
  <2>4. numPages' \in 3 .. MaxPages + 1 /\ numPages <= numPages'
    BY <1>1, <2>1 DEF DataPages
  <2> QED
    BY <2>1, <2>3, <2>4
<1>10. ASSUME NEW i \in Inserters, NEW v \in Values, InsertBehind(i, v) PROVE Goal
  BY <1>9, <1>10, RecSetsAre DEF InsertBehind
<1>11. ASSUME NEW i \in Inserters, InsertLong(i) PROVE Goal
  BY <1>9, <1>11, RecSetsAre, Failing
<1>12. ASSUME NEW i \in Inserters, InsertFails(i) PROVE Goal
  <2>1. numPages' = numPages + 1 /\ numPages \in DataPages /\ UNCHANGED <<header, page>>
    BY <1>12, Failing
  <2>2. numPages' \in 3 .. MaxPages + 1 /\ numPages <= numPages'
    BY <1>1, <2>1 DEF DataPages
  <2>3. FileSound'
    <3>1. numPages \in Nat
      BY <1>1
    <3>2. \A q \in DataPages : /\ page'[q].next < numPages'
                               /\ numPages' <= q => SlotsOf(q)' = {} /\ page'[q].next = NoPage
      BY <1>1, <2>1, <3>1 DEF FileSound, SlotsOf, NoPage
    <3> QED
      BY <1>1, <2>1, <3>1, <3>2 DEF FileSound, Links
  <2> QED
    BY <1>1, <2>1, <2>2, <2>3
<1>13. Goal
  <2> HIDE DEF Goal, Headers, Pages
  <2> QED
    BY <1>3, <1>5, <1>6, <1>7, <1>8, <1>10, <1>11, <1>12, FileActions
<1> QED
  BY <1>13

-----------------------------------------------------------------------------
(* Types and the header page.                                              *)

(* Every step is one of one object.                                        *)
LEMMA ObjectsStep ==
  ASSUME TypeInv, Next
  PROVE  UNCHANGED <<obj, pinCnt, owed>> \/ \E o \in Objects : \E m : Moves(o, m)
<1> DEFINE Some == \E o \in Objects : \E m : Moves(o, m)
           Goal == UNCHANGED <<obj, pinCnt, owed>> \/ Some
<1> HIDE DEF Some
<1>1. ASSUME NEW o \in Plain, OpenHeapFile(o) PROVE Some
  BY <1>1, OpenHeapFileMoves, ObjectsAre DEF Some
<1>2. ASSUME NEW o \in Plain, NEW r \in Records, GetRecord(o, r) PROVE Some
  BY <1>2, GetRecordMoves, ObjectsAre DEF Some
<1>3. ASSUME NEW o \in Plain, NEW r \in Records, GetRecordFails(o, r) PROVE Some
  BY <1>3, GetRecordFailsMoves, ObjectsAre DEF Some
<1>4. ASSUME NEW o \in Objects, Close(o) PROVE Some
  BY <1>4, Closes DEF Some
<1>5. ASSUME NEW s \in Scans, NEW f \in Filters, OpenScan(s, f) PROVE Some
  BY <1>5, OpenHeapFileMoves, ObjectsAre DEF Some
<1>6. ASSUME NEW s \in Scans, ScanFinds(s) PROVE Some
  BY <1>6, ScanFindsMoves, ObjectsAre DEF Some
<1>7. ASSUME NEW s \in Scans, ScanEnds(s) PROVE Goal
  <2>1. UNCHANGED <<pinCnt, owed, obj>> \/ \E m : Moves(s, m)
    BY <1>7, ScanEndsMoves
  <2> QED
    BY <2>1, ObjectsAre DEF Some
<1>8. ASSUME NEW s \in Scans, ScanFails(s) PROVE Some
  BY <1>8, ScanFailsMoves, ObjectsAre DEF Some
<1>9. ASSUME NEW s \in Scans, EndScan(s) PROVE Some
  BY <1>9, EndScanMoves, ObjectsAre DEF Some
<1>10. ASSUME NEW s \in Scans, MarkScan(s) PROVE Goal
  BY <1>10 DEF MarkScan
<1>11. ASSUME NEW s \in Scans, ResetScan(s) PROVE Some
  BY <1>11, ResetScanMoves, ObjectsAre DEF Some
<1>12. ASSUME NEW s \in Scans, ResetFails(s) PROVE Some
  BY <1>12, ResetFailsMoves, ObjectsAre DEF Some
<1>13. ASSUME NEW s \in Scans, DeleteRecord(s) PROVE Some
  BY <1>13, DeleteRecordMoves, ObjectsAre DEF Some
<1>14. ASSUME NEW s \in Scans, DeleteAgain(s) PROVE Some
  BY <1>14, DeleteAgainMoves, ObjectsAre DEF Some
<1>15. ASSUME NEW s \in Scans, NEW v \in Values, MarkDirty(s, v) PROVE Some
  BY <1>15, MarkDirtyMoves, ObjectsAre DEF Some
<1>16. ASSUME NEW i \in Inserters, OpenInserter(i) PROVE Some
  BY <1>16, OpenInserterMoves, ObjectsAre DEF Some
<1>17. ASSUME NEW i \in Inserters, OpenInserterFails(i) PROVE Some
  BY <1>17, OpenInserterFailsMoves, ObjectsAre DEF Some
<1>18. ASSUME NEW i \in Inserters, NEW v \in Values, InsertHere(i, v) PROVE Some
  BY <1>18, InsertHereMoves, ObjectsAre DEF Some
<1>19. ASSUME NEW i \in Inserters, NEW v \in Values, InsertBehind(i, v) PROVE Some
  BY <1>19, AppendMoves, ObjectsAre DEF InsertBehind, Some
<1>20. ASSUME NEW i \in Inserters, InsertLong(i) PROVE Some
  <2>1. Usable(i) /\ Append(i, [s \in {} |-> 0], obj[i].curDirty) /\ obj[i].curDirty \in BOOLEAN
    BY <1>20, Failing, ObjectsAre, MemberIs
  <2> QED
    BY <2>1, AppendMoves, ObjectsAre DEF Some
<1>21. ASSUME NEW i \in Inserters, InsertFails(i) PROVE Goal
  BY <1>21, Failing
<1> QED
  BY <1>1, <1>2, <1>3, <1>4, <1>5, <1>6, <1>7, <1>8, <1>9, <1>10, <1>11, <1>12, <1>13, <1>14,
     <1>15, <1>16, <1>17, <1>18, <1>19, <1>20, <1>21, Zenon
     DEF Next, ScanNext, InsertRecord, Some

(* Counting the objects with a property: one of them changes.              *)
LEMMA HoldersMoved ==
  ASSUME NEW S \in SUBSET Objects, NEW T \in SUBSET Objects, NEW o \in Objects,
         \A x \in Objects \ {o} : x \in T <=> x \in S
  PROVE  Cardinality(T) = Cardinality(S) + One(o \in T) - One(o \in S)
<1>1. IsFiniteSet(S) /\ IsFiniteSet(S \ {o}) /\ Cardinality(S \ {o}) \in Nat /\ Cardinality(S) \in Nat
  BY ObjectsAssumption, FS_Subset, FS_CardinalityType
<1>2. Cardinality(S \ {o}) = Cardinality(S) - One(o \in S)
  BY <1>1, FS_RemoveElement DEF One
<1>3. CASE o \in T
  <2>1. T = (S \ {o}) \cup {o}
    BY <1>3
  <2>2. Cardinality(T) = Cardinality(S \ {o}) + 1
    BY <1>1, <2>1, FS_AddElement
  <2> QED
    BY <1>1, <1>2, <1>3, <2>2 DEF One
<1>4. CASE o \notin T
  <2>1. T = S \ {o}
    BY <1>4
  <2> QED
    BY <1>1, <1>2, <1>4, <2>1 DEF One
<1> QED
  BY <1>3, <1>4

(* A step of one object leaves the other ones as they are.               *)
LEMMA MembersStep ==
  ASSUME TypeInv, NEW o \in Objects, NEW m, Becomes(o, m), numPages' \in Nat, numPages <= numPages'
  PROVE  /\ obj' \in [Objects -> Members] /\ pinCnt' \in [PageNos -> Nat]
         /\ owed' \in SUBSET PageNos
         /\ obj'[o] = m /\ \A x \in Objects \ {o} : obj'[x] = obj[x]
         /\ \A x \in Objects : MemberSound(x, obj'[x], numPages')
         /\ HeaderHeld'
<1>1. /\ obj' = [obj EXCEPT ![o] = m] /\ m \in Members /\ obj \in [Objects -> Members]
      /\ numPages \in Nat
  BY FileFacts DEF Becomes, TypeInv, TypeOK
<1>2. /\ obj' \in [Objects -> Members] /\ obj'[o] = m
      /\ \A x \in Objects \ {o} : obj'[x] = obj[x]
  BY <1>1
<1>3. ASSUME NEW x \in Objects PROVE MemberSound(x, obj'[x], numPages')
  <2>1. CASE x = o
    BY <1>2, <2>1 DEF Becomes
  <2>2. CASE x # o
    <3>1. MemberSound(x, obj[x], numPages) /\ obj'[x] = obj[x]
      BY <1>2, <2>2, MemberIs
    <3>2. obj[x].curPage \in Int /\ obj[x].curPageNo \in Int
      BY <1>1, FileFacts DEF Members, NoPage, TypeInv
    <3> QED
      BY <1>1, <3>1, <3>2 DEF MemberSound
  <2> QED
    BY <2>1, <2>2
<1>4. HeaderHeld'
  <2> DEFINE S == {x \in Objects : obj[x].open}
             T == {x \in Objects : obj'[x].open}
  <2>1. S \in SUBSET Objects /\ T \in SUBSET Objects /\ \A x \in Objects \ {o} : x \in T <=> x \in S
    BY <1>2
  <2>2. (o \in S <=> obj[o].open) /\ (o \in T <=> m.open)
    BY <1>2
  <2>3. pinCnt[HeaderPage] = Cardinality(S)
    BY DEF TypeInv, HeaderHeld
  <2>4. HeaderHeld' <=> pinCnt'[HeaderPage] = Cardinality(T)
    BY DEF HeaderHeld, HeaderPage
  <2> HIDE DEF S, T
  <2>5. Cardinality(T) = Cardinality(S) + One(o \in T) - One(o \in S)
    BY <2>1, HoldersMoved
  <2>6. One(o \in S) = One(obj[o].open) /\ One(o \in T) = One(m.open)
    BY <2>2 DEF One
  <2> QED
    BY <2>3, <2>4, <2>5, <2>6 DEF Becomes
<1> QED
  BY <1>2, <1>3, <1>4 DEF Becomes

(* What a step does to the scans' filters, marks and histories.            *)
LEMMA ScanActions ==
  ASSUME Next
  PROVE  \/ UNCHANGED <<scan, todo, seen>>
         \/ \E s \in Scans, f \in Filters : OpenScan(s, f)
         \/ \E o \in Objects : Close(o)
         \/ \E s \in Scans : ScanFinds(s)
         \/ \E s \in Scans : EndScan(s)
         \/ \E s \in Scans : MarkScan(s)
         \/ \E s \in Scans : ResetScan(s)
         \/ \E s \in Scans : DeleteRecord(s)
         \/ \E s \in Scans, v \in Values : MarkDirty(s, v)
<1>1. \A o : OpenHeapFile(o) \/ OpenInserter(o) \/ ScanEnds(o)
             => UNCHANGED <<scan, todo, seen>>
  BY Zenon DEF OpenHeapFile, OpenInserter, ScanEnds
<1>2. \A o, x : GetRecord(o, x) => UNCHANGED <<scan, todo, seen>>
  BY Zenon DEF GetRecord
<1>3. \A i, v : InsertHere(i, v) => UNCHANGED <<scan, todo, seen>>
  BY Zenon DEF InsertHere
<1>4. \A i, recs, dirty : Append(i, recs, dirty) => UNCHANGED <<scan, todo, seen>>
  BY Zenon DEF Append
<1>5. \A i, v : InsertBehind(i, v) => UNCHANGED <<scan, todo, seen>>
  BY <1>4, Zenon DEF InsertBehind
<1>6. /\ \A o, r : GetRecordFails(o, r) => UNCHANGED <<scan, todo, seen>>
      /\ \A o : ScanFails(o) \/ ResetFails(o) \/ OpenInserterFails(o) \/ DeleteAgain(o)
                \/ InsertFails(o) => UNCHANGED <<scan, todo, seen>>
      /\ \A i : InsertLong(i) => UNCHANGED <<scan, todo, seen>>
  BY <1>4, Failing, Zenon
<1> QED
  BY <1>1, <1>2, <1>3, <1>5, <1>6, Zenon DEF Next, ScanNext, InsertRecord

(* Every step leaves what is kept of scans as it should be.              *)
LEMMA ScansStep ==
  ASSUME TypeInv, Next
  PROVE  /\ scan' \in [Scans -> [filter : SUBSET Values, mark : Marks]]
         /\ todo' \in [Scans -> SUBSET Rids]
         /\ seen' \in [Scans -> SUBSET Rids]
         /\ \A s \in Scans : scan'[s].mark.pageNo < numPages'
<1> DEFINE ScanSets == [Scans -> [filter : SUBSET Values, mark : Marks]]
           Sets     == [Scans -> SUBSET Rids]
           Goal     == /\ scan' \in ScanSets /\ todo' \in Sets /\ seen' \in Sets
                       /\ \A s \in Scans : scan'[s].mark.pageNo < numPages
<1>1. /\ scan \in ScanSets /\ todo \in Sets /\ seen \in Sets
      /\ \A s \in Scans : scan[s].mark.pageNo < numPages
  BY DEF TypeInv, TypeOK, ObjectsSound
<1>2. NoMark \in Marks /\ NoMark.pageNo = NoPage /\ NoPage < numPages
  BY DEF NoMark, Marks, NoPage, TypeInv, TypeOK
<1>3. ASSUME UNCHANGED <<scan, todo, seen>> PROVE Goal
  BY <1>1, <1>3
<1>4. ASSUME NEW s \in Scans, NEW f \in Filters, OpenScan(s, f) PROVE Goal
  <2>1. /\ scan' = [scan EXCEPT ![s] = [filter |-> f, mark |-> NoMark]]
        /\ todo' = [todo EXCEPT ![s] = Records] /\ seen' = [seen EXCEPT ![s] = {}]
    BY <1>4 DEF OpenScan
  <2>2. Records \subseteq Rids /\ f \subseteq Values
    BY RecordFacts, FiltersAssumption DEF TypeInv
  <2> QED
    BY <1>1, <1>2, <2>1, <2>2
<1>5. ASSUME NEW o \in Objects, Close(o) PROVE Goal
  <2>1. /\ todo' = [s \in Scans |-> IF s = o THEN {} ELSE todo[s]]
        /\ seen' = [s \in Scans |-> IF s = o THEN {} ELSE seen[s]]
        /\ scan' = [s \in Scans |-> IF s = o THEN [filter |-> Values, mark |-> NoMark] ELSE scan[s]]
    BY <1>5 DEF Close
  <2> QED
    BY <1>1, <1>2, <2>1
<1>6. ASSUME NEW s \in Scans, ScanFinds(s) PROVE Goal
  <2>1. /\ todo' = [todo EXCEPT ![s] = @ \ {FirstOf(Hits(s))}]
        /\ seen' = [seen EXCEPT ![s] = @ \cup {FirstOf(Hits(s))}] /\ scan' = scan
    BY <1>6 DEF ScanFinds
  <2>2. FirstOf(Hits(s)) \in Rids
    BY <1>6, ScanFacts DEF ScanFinds, Hits
  <2> QED
    BY <1>1, <2>1, <2>2
<1>7. ASSUME NEW s \in Scans, EndScan(s) PROVE Goal
  <2>1. /\ todo' = [todo EXCEPT ![s] = Records] /\ seen' = [seen EXCEPT ![s] = {}] /\ scan' = scan
    BY <1>7, Failing, Zenon
  <2>2. Records \subseteq Rids
    BY RecordFacts DEF TypeInv
  <2> QED
    BY <1>1, <2>1, <2>2
<1>8. ASSUME NEW s \in Scans, MarkScan(s) PROVE Goal
  <2> DEFINE k == [pageNo |-> obj[s].curPageNo, rec |-> obj[s].curRec,
                   todo |-> todo[s], seen |-> seen[s]]
  <2>1. HoldsPage(s) /\ scan' = [scan EXCEPT ![s].mark = k] /\ todo' = todo /\ seen' = seen
    BY <1>8 DEF MarkScan
  <2>2. obj[s].curPageNo \in DataPages /\ obj[s].curPageNo < numPages
        /\ obj[s].curRec \in Rids \cup {NullRid}
    BY <2>1, MemberIs, ObjectsAre DEF Members, MemberSound
  <2>3. k \in Marks /\ k.pageNo < numPages
    BY <1>1, <2>2 DEF Marks
  <2> HIDE DEF k
  <2> QED
    BY <1>1, <2>1, <2>3
<1>9. ASSUME NEW s \in Scans, ResetScan(s) PROVE Goal
  <2>1. /\ todo' = [todo EXCEPT ![s] = scan[s].mark.todo]
        /\ seen' = [seen EXCEPT ![s] = scan[s].mark.seen] /\ scan' = scan
    BY <1>9 DEF ResetScan
  <2>2. scan[s].mark.todo \in SUBSET Rids /\ scan[s].mark.seen \in SUBSET Rids
    BY <1>1 DEF Marks
  <2> QED
    BY <1>1, <2>1, <2>2
<1>10. ASSUME NEW r, Forget(r) PROVE Goal
  <2>1. /\ todo' = [s \in Scans |-> todo[s] \ {r}]
        /\ seen' = [s \in Scans |-> seen[s] \ {r}]
        /\ scan' = [s \in Scans |-> [scan[s] EXCEPT !.mark.todo = @ \ {r}, !.mark.seen = @ \ {r}]]
    BY <1>10 DEF Forget
  <2>2. ASSUME NEW s \in Scans
        PROVE  /\ scan'[s] \in [filter : SUBSET Values, mark : Marks]
               /\ scan'[s].mark.pageNo < numPages
    <3> DEFINE m == scan[s].mark
               k == [m EXCEPT !.todo = @ \ {r}, !.seen = @ \ {r}]
    <3>1. /\ scan[s] \in [filter : SUBSET Values, mark : Marks]
          /\ m \in Marks /\ m.pageNo < numPages
      BY <1>1
    <3>2. k \in Marks /\ k.pageNo = m.pageNo
      BY <3>1 DEF Marks
    <3>3. scan'[s] = [scan[s] EXCEPT !.mark = k]
      <4>1. scan'[s] = [scan[s] EXCEPT !.mark.todo = @ \ {r}, !.mark.seen = @ \ {r}]
        BY <2>1
      <4> HIDE DEF Marks
      <4>2. scan[s] = [filter |-> scan[s].filter, mark |-> scan[s].mark]
        BY <3>1
      <4>3. m = [pageNo |-> m.pageNo, rec |-> m.rec, todo |-> m.todo, seen |-> m.seen]
        BY <3>1 DEF Marks
      <4> QED
        BY <4>1, <4>2, <4>3
    <3> HIDE DEF k, m
    <3> QED
      BY <3>1, <3>2, <3>3
  <2>3. scan' \in ScanSets
    BY <2>1, <2>2
  <2> QED
    BY <1>1, <2>1, <2>2, <2>3
<1>11. ASSUME NEW s \in Scans, DeleteRecord(s) PROVE Goal
  <2>1. Forget(obj[s].curRec)
    BY <1>11 DEF DeleteRecord
  <2> QED
    BY <1>10, <2>1
<1>12. ASSUME NEW s \in Scans, NEW v \in Values, MarkDirty(s, v) PROVE Goal
  <2>1. Forget(obj[s].curRec)
    BY <1>12 DEF MarkDirty
  <2> QED
    BY <1>10, <2>1
<1>13. Goal
  <2> HIDE DEF Goal
  <2> QED
    BY <1>3, <1>4, <1>5, <1>6, <1>7, <1>8, <1>9, <1>11, <1>12, ScanActions
<1> QED
  <2>1. numPages \in Int /\ numPages' \in Int /\ numPages <= numPages'
    BY FileStep DEF TypeInv, TypeOK
  <2>2. \A s \in Scans : scan'[s].mark.pageNo \in Int
    BY <1>13, FileFacts DEF Marks, NoPage, TypeInv
  <2> QED
    BY <1>13, <2>1, <2>2

(* Initially the invariant holds.                                        *)
LEMMA TypeInit == Init => TypeInv
<1> SUFFICES ASSUME Init PROVE TypeInv
  OBVIOUS
<1>1. /\ header = [firstPage |-> 2, lastPage |-> 2, pageCnt |-> 1, recCnt |-> 0]
      /\ page = [p \in DataPages |-> [recs |-> [s \in {} |-> 0], next |-> NoPage]]
      /\ numPages = 3
      /\ pinCnt = [p \in PageNos |-> 0]
      /\ owed = {}
      /\ obj = [o \in Objects |-> Closed]
      /\ scan = [s \in Scans |-> [filter |-> Values, mark |-> NoMark]]
      /\ todo = [s \in Scans |-> {}]
      /\ seen = [s \in Scans |-> {}]
  BY DEF Init
<1>2. NoMark \in Marks /\ NoMark.pageNo = -1
  BY DEF NoMark, Marks, NoPage
<1>3. TypeOK
  BY <1>1, <1>2, ClosedIs, RecSetsAre, MaxPagesAssumption DEF TypeOK, DataPages, PageNos
<1>4. FileSound
  BY <1>1 DEF FileSound, Links, SlotsOf, NoPage
<1>5. ObjectsSound
  BY <1>1, <1>2, ClosedIs DEF ObjectsSound, MemberSound, NoPage
<1>6. HeaderHeld
  <2>1. {o \in Objects : obj[o].open} = {}
    BY <1>1, ClosedIs
  <2>2. pinCnt[HeaderPage] = 0
    BY <1>1, MaxPagesAssumption DEF HeaderPage, PageNos
  <2> QED
    BY <2>1, <2>2, FS_EmptySet DEF HeaderHeld
<1> QED
  BY <1>3, <1>4, <1>5, <1>6 DEF TypeInv

(* Every step keeps it.                                                  *)
LEMMA TypeStep == TypeInv /\ [Next]_vars => TypeInv'
<1> SUFFICES ASSUME TypeInv, [Next]_vars PROVE TypeInv'
  OBVIOUS
<1>1. CASE UNCHANGED vars
  BY <1>1 DEF vars, TypeInv, TypeOK, FileSound, Links, SlotsOf, ObjectsSound, MemberSound,
     HeaderHeld
<1>2. CASE Next
  <2>1. /\ header' \in [firstPage : {2}, lastPage : DataPages, pageCnt : Nat, recCnt : Int]
        /\ page' \in [DataPages -> [recs : RecSets, next : DataPages \cup {NoPage}]]
        /\ numPages' \in 3 .. MaxPages + 1 /\ numPages <= numPages'
        /\ numPages \in Nat /\ numPages' \in Nat
        /\ FileSound'
    BY <1>2, FileStep, FileFacts DEF TypeInv
  <2>2. /\ scan' \in [Scans -> [filter : SUBSET Values, mark : Marks]]
        /\ todo' \in [Scans -> SUBSET Rids]
        /\ seen' \in [Scans -> SUBSET Rids]
        /\ \A s \in Scans : scan'[s].mark.pageNo < numPages'
    BY <1>2, ScansStep
  <2>3. /\ obj' \in [Objects -> Members] /\ pinCnt' \in [PageNos -> Nat]
        /\ owed' \in SUBSET PageNos
        /\ \A x \in Objects : MemberSound(x, obj'[x], numPages')
        /\ HeaderHeld'
    <3>1. CASE UNCHANGED <<obj, pinCnt, owed>>
      <4>1. HeaderHeld'
        BY <3>1 DEF HeaderHeld, TypeInv
      <4>2. \A x \in Objects : MemberSound(x, obj[x], numPages')
        <5>1. \A x \in Objects : MemberSound(x, obj[x], numPages)
          BY DEF TypeInv, ObjectsSound
        <5>2. \A x \in Objects : obj[x].curPage \in Int /\ obj[x].curPageNo \in Int
          BY FileFacts DEF Members, NoPage, TypeInv, TypeOK
        <5> QED
          BY <2>1, <5>1, <5>2 DEF MemberSound
      <4> QED
        BY <3>1, <4>1, <4>2 DEF TypeInv, TypeOK
    <3>2. CASE \E o \in Objects : \E m : Moves(o, m)
      <4>1. PICK o \in Objects : \E m : Moves(o, m)
        BY <3>2
      <4>2. PICK m : Moves(o, m)
        BY <4>1
      <4>3. Becomes(o, m)
        BY <4>2 DEF Moves
      <4> QED
        BY <2>1, <4>3, MembersStep
    <3> QED
      BY <1>2, <3>1, <3>2, ObjectsStep
  <2>4. TypeOK'
    BY <2>1, <2>2, <2>3 DEF TypeOK
  <2>5. ObjectsSound'
    BY <2>2, <2>3 DEF ObjectsSound
  <2> QED
    BY <2>1, <2>3, <2>4, <2>5 DEF TypeInv
<1> QED
  BY <1>1, <1>2

(* Whatever fails, every variable has its type, only allocated pages are   *)
(* linked and worked on, an object that is not open has given up           *)
(* everything, and an inserter always has a page.                          *)
THEOREM HeapFileTypes == Spec => []TypeInv
BY TypeInit, TypeStep, PTL DEF Spec

(* Whatever fails, the header page is pinned once for every open object.   *)
THEOREM HeaderIsHeld == Spec => []HeaderHeld
<1>1. TypeInv => HeaderHeld
  BY DEF TypeInv
<1> QED
  BY <1>1, HeapFileTypes, PTL

-----------------------------------------------------------------------------
(* Pins and writes.                                                        *)

(* What one object does to the pins, and to what is owed, keeps both in    *)
(* step with all objects.                                                  *)
LEMMA PinsStep ==
  ASSUME ReadsSucceed, TypeInv, PinsAreObjects, OwedSound, [Next]_vars
  PROVE  PinsAreObjects' /\ OwedSound'
<1>1. CASE UNCHANGED <<obj, pinCnt, owed>>
  BY <1>1 DEF PinsAreObjects, HoldsPage, OwedSound
<1>2. ASSUME NEW o \in Objects, NEW m, Moves(o, m), Next PROVE PinsAreObjects' /\ OwedSound'
  <2>1. Becomes(o, m) /\ PinsFollow(o, m)
    BY <1>2 DEF Moves
  <2>2. obj'[o] = m /\ \A x \in Objects \ {o} : obj'[x] = obj[x]
    BY <2>1, FileStep, FileFacts, <1>2, MembersStep DEF TypeInv, TypeOK
  <2>3. \A x \in Objects : obj'[x].curPage # NoPage => obj'[x].curPage = obj'[x].curPageNo
    BY <2>1, <2>2 DEF PinsFollow, PinsAreObjects, HoldsPage
  <2>4. ASSUME NEW p \in DataPages
        PROVE  pinCnt'[p] = Cardinality({x \in Objects : obj'[x].curPage # NoPage /\ obj'[x].curPageNo = p})
    <3> DEFINE S == {x \in Objects : HoldsPage(x) /\ obj[x].curPageNo = p}
               T == {x \in Objects : obj'[x].curPage # NoPage /\ obj'[x].curPageNo = p}
    <3>1. pinCnt[p] = Cardinality(S)
      BY DEF PinsAreObjects
    <3>2. \A x \in Objects \ {o} : x \in T <=> x \in S
      BY <2>2 DEF HoldsPage
    <3>3. (o \in T <=> Holds(m, p)) /\ (o \in S <=> Holds(obj[o], p))
      BY <2>2 DEF Holds, HoldsPage
    <3>4. S \in SUBSET Objects /\ T \in SUBSET Objects
      OBVIOUS
    <3> HIDE DEF S, T
    <3>5. Cardinality(T) = Cardinality(S) + One(o \in T) - One(o \in S)
      BY <3>2, <3>4, HoldersMoved
    <3>6. One(o \in T) = One(Holds(m, p)) /\ One(o \in S) = One(Holds(obj[o], p))
      BY <3>3 DEF One
    <3>7. pinCnt'[p] = Cardinality(T)
      BY <2>1, <3>1, <3>5, <3>6 DEF PinsFollow
    <3> QED
      BY <3>7 DEF T
  <2>5. PinsAreObjects'
    BY <2>3, <2>4 DEF PinsAreObjects, HoldsPage
  <2>6. ASSUME NEW p \in owed' PROVE \E x \in Objects : Owes(x, obj'[x], p)
    <3>1. CASE Owes(o, m, p)
      BY <2>2, <3>1
    <3>2. CASE p \in owed /\ ~Owes(o, obj[o], p)
      <4>1. PICK x \in Objects : Owes(x, obj[x], p)
        BY <3>2 DEF OwedSound
      <4>2. obj'[x] = obj[x]
        BY <2>2, <3>2, <4>1
      <4> QED
        BY <4>1, <4>2
    <3> QED
      BY <2>1, <3>1, <3>2 DEF PinsFollow
  <2>7. OwedSound'
    BY <2>6 DEF OwedSound
  <2> QED
    BY <2>5, <2>7
<1>3. CASE UNCHANGED vars
  BY <1>1, <1>3 DEF vars
<1> QED
  BY <1>1, <1>2, <1>3, ObjectsStep

(* Initially nothing is pinned.                                          *)
LEMMA PinsInit == Init => PinsAreObjects /\ OwedSound
<1> SUFFICES ASSUME Init PROVE PinsAreObjects /\ OwedSound
  OBVIOUS
<1>1. /\ pinCnt = [p \in PageNos |-> 0] /\ owed = {} /\ obj = [o \in Objects |-> Closed]
  BY DEF Init
<1>2. \A o \in Objects : ~HoldsPage(o)
  BY <1>1, ClosedIs DEF HoldsPage
<1>3. ASSUME NEW p \in DataPages
      PROVE  pinCnt[p] = Cardinality({o \in Objects : HoldsPage(o) /\ obj[o].curPageNo = p})
  <2>1. {o \in Objects : HoldsPage(o) /\ obj[o].curPageNo = p} = {}
    BY <1>2
  <2>2. pinCnt[p] = 0
    BY <1>1 DEF DataPages, PageNos
  <2> QED
    BY <2>1, <2>2, FS_EmptySet
<1> QED
  BY <1>1, <1>2, <1>3 DEF PinsAreObjects, OwedSound

(* As long as reads succeed, a page is pinned once for every object that   *)
(* works on it, and every object's page is the one that it says it is: a   *)
(* page that one scan deletes from, and another reads, stays in the pool   *)
(* for both, and none is pinned when all are closed.                       *)
THEOREM PinsAreThoseOfObjects ==
  ASSUME ReadsSucceed
  PROVE  Spec => []PinsAreObjects
<1> DEFINE Inv == TypeInv /\ PinsAreObjects /\ OwedSound
<1>1. Init => Inv
  BY TypeInit, PinsInit
<1>2. Inv /\ [Next]_vars => Inv'
  BY TypeStep, PinsStep
<1>3. Inv => PinsAreObjects
  OBVIOUS
<1> QED
  BY <1>1, <1>2, <1>3, PTL DEF Spec

(* A page that is owed is pinned: somebody is still to unpin it as dirty.  *)
LEMMA OwedArePinned ==
  ASSUME TypeInv, PinsAreObjects, OwedSound
  PROVE  WritesDeclared
<1> SUFFICES ASSUME NEW p \in owed PROVE pinCnt[p] > 0
  BY DEF WritesDeclared
<1>1. PICK o \in Objects : Owes(o, obj[o], p)
  BY DEF OwedSound
<1>2. CASE p = HeaderPage
  BY <1>1, <1>2, PinFacts DEF Owes
<1>3. CASE p # HeaderPage
  BY <1>1, <1>3, PinFacts DEF Owes, Holds, HoldsPage
<1> QED
  BY <1>2, <1>3

(* As long as reads succeed no write is lost: each page that was written   *)
(* to is pinned by an object that will unpin it as dirty, also when        *)
(* another object has closed, or has gone on to another page.              *)
THEOREM WritesAreDeclared ==
  ASSUME ReadsSucceed
  PROVE  Spec => []WritesDeclared
<1> DEFINE Inv == TypeInv /\ PinsAreObjects /\ OwedSound
<1>1. Init => Inv
  BY TypeInit, PinsInit
<1>2. Inv /\ [Next]_vars => Inv'
  BY TypeStep, PinsStep
<1>3. Inv => WritesDeclared
  BY OwedArePinned
<1> QED
  BY <1>1, <1>2, <1>3, PTL DEF Spec
-----------------------------------------------------------------------------
(* Records, chain and calls.                                               *)

RecordsAre == \A r : r \in Records <=> /\ r \in Rids /\ r[1] \in Chain
                                       /\ r[2] \in DOMAIN page[r[1]].recs

(* What a step does to the records. *)
Kept         == /\ Records' = Records
                /\ \A q \in Records : ValueOf(q)' = ValueOf(q)
Lost(r)      == /\ r \in Records /\ Records' = Records \ {r}
                /\ \A q \in Records \ {r} : ValueOf(q)' = ValueOf(q)
Gained(r, v) == /\ r \in Rids \ Records /\ Records' = Records \cup {r}
                /\ page'[r[1]].recs[r[2]] = v
                /\ \A q \in Records : ValueOf(q)' = ValueOf(q)
Changed(r, v) == /\ r \in Records /\ Records' = Records
                 /\ page'[r[1]].recs[r[2]] = v
                 /\ \A q \in Records \ {r} : ValueOf(q)' = ValueOf(q)

(* The records of the file are those in the slots of its chain. *)
LEMMA RecordsNow == TypeInv => RecordsAre
<1> SUFFICES ASSUME TypeInv PROVE RecordsAre
  OBVIOUS
<1>1. TypeOK /\ FileSound
  BY DEF TypeInv
<1> QED
  BY <1>1, RecordFacts DEF RecordsAre, SlotsOf

(* The records are those that the invariant speaks of, after a step too. *)
LEMMA RecordsNext == TypeInv' => RecordsAre'
BY RecordsNow, PTL

(* One page of the chain has other records than before. *)
LEMMA RecordsChange ==
  ASSUME TypeInv, TypeInv', NEW p \in Chain, p < numPages, NEW R \in RecSets,
         page' = [page EXCEPT ![p].recs = R],
         numPages' = numPages, header'.firstPage = header.firstPage,
         header'.lastPage = header.lastPage
  PROVE  /\ Chain' = Chain
         /\ \A q \in DataPages : page'[q].next = page[q].next
         /\ \A q \in DataPages \ {p} : SlotsOf(q)' = SlotsOf(q)
         /\ \A r \in Rids : r \in Records' <=> IF r[1] = p THEN r[2] \in DOMAIN R
                                               ELSE r \in Records
         /\ \A r \in Rids : ValueOf(r)' = IF r[1] = p THEN R[r[2]] ELSE ValueOf(r)
<1>1. p \in DataPages /\ TypeOK /\ FileSound
  BY FileFacts DEF TypeInv, Chain
<1>2. /\ \A q \in DataPages : page'[q].next = page[q].next
      /\ \A q \in DataPages \ {p} : page'[q] = page[q]
      /\ page'[p].recs = R /\ Chain' = Chain
      /\ \A q \in DataPages \ {p} : SlotsOf(q)' = SlotsOf(q)
  BY <1>1, RecsChange
<1>3. \A r \in Rids : r[1] \in DataPages
  BY DEF Rids
<1>4. \A r \in Rids : ValueOf(r)' = IF r[1] = p THEN R[r[2]] ELSE ValueOf(r)
  BY <1>2, <1>3 DEF ValueOf
<1>5. \A r \in Rids : r \in Records' <=> IF r[1] = p THEN r[2] \in DOMAIN R ELSE r \in Records
  <2>1. RecordsAre /\ RecordsAre'
    BY RecordsNow, RecordsNext
  <2> QED
    BY <1>2, <1>3, <2>1 DEF RecordsAre
<1> QED
  BY <1>2, <1>4, <1>5

(* deleteRecord removes one record, and counts it.                       *)
LEMMA DeleteRecordRecords ==
  ASSUME TypeInv, TypeInv', PlacesSound, NEW s \in Scans, DeleteRecord(s)
  PROVE  /\ Lost(obj[s].curRec) /\ Chain' = Chain
         /\ \A q \in DataPages : page'[q].next = page[q].next
         /\ \A q \in DataPages \ Chain : SlotsOf(q)' = SlotsOf(q)
         /\ header' = [header EXCEPT !.recCnt = @ - 1]
<1> DEFINE r == obj[s].curRec
           R == Without(page[r[1]].recs, r[2])
<1>1. /\ r \in Rids /\ r[1] \in DataPages /\ r[1] < numPages
      /\ r[2] \in DOMAIN page[r[1]].recs /\ R \in RecSets
      /\ page' = [page EXCEPT ![r[1]].recs = R]
      /\ header' = [header EXCEPT !.recCnt = @ - 1]
      /\ numPages' = numPages
  BY DeleteRecordFile
<1>2. r[1] \in Chain
  BY CurrentIs DEF DeleteRecord, PlacesSound
<1>3. header'.firstPage = header.firstPage /\ header'.lastPage = header.lastPage
  BY <1>1 DEF TypeInv, TypeOK
<1>4. /\ DOMAIN R = DOMAIN page[r[1]].recs \ {r[2]}
      /\ \A t \in DOMAIN R : R[t] = page[r[1]].recs[t]
  BY DEF Without
<1> HIDE DEF r, R
<1>5. /\ Chain' = Chain
      /\ \A q \in DataPages : page'[q].next = page[q].next
      /\ \A q \in DataPages \ {r[1]} : SlotsOf(q)' = SlotsOf(q)
      /\ \A x \in Rids : x \in Records' <=> IF x[1] = r[1] THEN x[2] \in DOMAIN R
                                            ELSE x \in Records
      /\ \A x \in Rids : ValueOf(x)' = IF x[1] = r[1] THEN R[x[2]] ELSE ValueOf(x)
  BY <1>1, <1>2, <1>3, RecordsChange
<1>6. RecordsAre /\ RecordsAre'
  BY RecordsNow, RecordsNext
<1>7. \A x \in Rids : x = r <=> x[1] = r[1] /\ x[2] = r[2]
  BY <1>1 DEF Rids
<1>8. r \in Records
  BY <1>1, <1>2, <1>6 DEF RecordsAre
<1>9. \A x \in Rids : x \in Records' <=> x \in Records /\ x # r
  BY <1>2, <1>4, <1>5, <1>6, <1>7 DEF RecordsAre
<1>10. Records' = Records \ {r}
  BY <1>6, <1>9 DEF RecordsAre
<1>11. \A q \in Records \ {r} : ValueOf(q)' = ValueOf(q)
  BY <1>4, <1>5, <1>6, <1>7 DEF RecordsAre, ValueOf
<1> QED
  BY <1>1, <1>2, <1>5, <1>8, <1>10, <1>11 DEF Lost, r

(* markDirty changes the value of one.                                   *)
LEMMA MarkDirtyRecords ==
  ASSUME TypeInv, TypeInv', PlacesSound, NEW s \in Scans, NEW v \in Values, MarkDirty(s, v)
  PROVE  /\ Changed(obj[s].curRec, v) /\ Chain' = Chain
         /\ \A q \in DataPages : page'[q].next = page[q].next
         /\ \A q \in DataPages \ Chain : SlotsOf(q)' = SlotsOf(q)
         /\ header' = header
<1> DEFINE r == obj[s].curRec
           R == [page[r[1]].recs EXCEPT ![r[2]] = v]
<1>1. /\ r \in Rids /\ r[1] \in DataPages /\ r[1] < numPages
      /\ r[2] \in DOMAIN page[r[1]].recs /\ R \in RecSets
      /\ page' = [page EXCEPT ![r[1]].recs = R]
      /\ header' = header
      /\ numPages' = numPages
  BY MarkDirtyFile
<1>2. r[1] \in Chain
  BY CurrentIs DEF MarkDirty, PlacesSound
<1>3. page[r[1]].recs \in RecSets
  BY <1>1 DEF TypeInv, TypeOK
<1>4. /\ DOMAIN R = DOMAIN page[r[1]].recs
      /\ R[r[2]] = v
      /\ \A t \in DOMAIN R \ {r[2]} : R[t] = page[r[1]].recs[t]
  <2> DEFINE Q == page[r[1]].recs
  <2>1. Q = [t \in DOMAIN Q |-> Q[t]]
    BY <1>3, RecSetsAre
  <2> HIDE DEF Q
  <2> QED
    BY <1>1, <2>1 DEF Q
<1> HIDE DEF r, R
<1>5. /\ Chain' = Chain
      /\ \A q \in DataPages : page'[q].next = page[q].next
      /\ \A q \in DataPages \ {r[1]} : SlotsOf(q)' = SlotsOf(q)
      /\ \A x \in Rids : x \in Records' <=> IF x[1] = r[1] THEN x[2] \in DOMAIN R
                                            ELSE x \in Records
      /\ \A x \in Rids : ValueOf(x)' = IF x[1] = r[1] THEN R[x[2]] ELSE ValueOf(x)
  BY <1>1, <1>2, RecordsChange
<1>6. RecordsAre /\ RecordsAre'
  BY RecordsNow, RecordsNext
<1>7. \A x \in Rids : x = r <=> x[1] = r[1] /\ x[2] = r[2]
  BY <1>1 DEF Rids
<1>8. r \in Records
  BY <1>1, <1>2, <1>6 DEF RecordsAre
<1>9. \A x \in Rids : x \in Records' <=> x \in Records
  BY <1>2, <1>4, <1>5, <1>6 DEF RecordsAre
<1>10. Records' = Records
  BY <1>6, <1>9 DEF RecordsAre
<1>11. \A q \in Records \ {r} : ValueOf(q)' = ValueOf(q)
  <2> SUFFICES ASSUME NEW q \in Records \ {r} PROVE ValueOf(q)' = ValueOf(q)
    OBVIOUS
  <2>1. q \in Rids /\ (q[1] = r[1] => q[2] # r[2] /\ q[2] \in DOMAIN R)
    BY <1>4, <1>6, <1>7 DEF RecordsAre
  <2> QED
    BY <1>4, <1>5, <2>1 DEF ValueOf
<1>12. page'[r[1]].recs[r[2]] = v
  BY <1>1, <1>4, <1>5 DEF ValueOf
<1> QED
  BY <1>1, <1>2, <1>5, <1>8, <1>10, <1>11, <1>12 DEF Changed, r

(* insertRecord adds one where there is room, and counts it.             *)
LEMMA InsertHereRecords ==
  ASSUME TypeInv, TypeInv', PlacesSound, NEW i \in Inserters, NEW v \in Values, InsertHere(i, v)
  PROVE  /\ \E r : Gained(r, v)
         /\ Chain' = Chain
         /\ \A q \in DataPages : page'[q].next = page[q].next
         /\ \A q \in DataPages \ Chain : SlotsOf(q)' = SlotsOf(q)
         /\ header' = [header EXCEPT !.recCnt = @ + 1]
<1> DEFINE p == obj[i].curPage
           t == FreeSlot(p)
           R == With(page[p].recs, t, v)
           r == <<p, t>>
<1>1. /\ p \in DataPages /\ p < numPages
      /\ t \in SlotNos /\ t \notin DOMAIN page[p].recs /\ R \in RecSets
      /\ page' = [page EXCEPT ![p].recs = R]
      /\ header' = [header EXCEPT !.recCnt = @ + 1]
      /\ numPages' = numPages
  BY InsertHereFile
<1>2. p \in Chain
  BY InserterIs DEF InsertHere, PlacesSound
<1>3. header'.firstPage = header.firstPage /\ header'.lastPage = header.lastPage
  BY <1>1 DEF TypeInv, TypeOK
<1>4. /\ DOMAIN R = DOMAIN page[p].recs \cup {t}
      /\ R[t] = v
      /\ \A x \in DOMAIN page[p].recs : R[x] = page[p].recs[x]
  BY <1>1 DEF With
<1> HIDE DEF p, t, R
<1>5. /\ Chain' = Chain
      /\ \A q \in DataPages : page'[q].next = page[q].next
      /\ \A q \in DataPages \ {p} : SlotsOf(q)' = SlotsOf(q)
      /\ \A x \in Rids : x \in Records' <=> IF x[1] = p THEN x[2] \in DOMAIN R
                                            ELSE x \in Records
      /\ \A x \in Rids : ValueOf(x)' = IF x[1] = p THEN R[x[2]] ELSE ValueOf(x)
  BY <1>1, <1>2, <1>3, RecordsChange
<1>6. RecordsAre /\ RecordsAre'
  BY RecordsNow, RecordsNext
<1>7. /\ r \in Rids /\ r[1] = p /\ r[2] = t
      /\ \A x \in Rids : x = r <=> x[1] = p /\ x[2] = t
  BY <1>1 DEF Rids
<1> HIDE DEF r
<1>8. r \in Rids \ Records
  BY <1>1, <1>6, <1>7 DEF RecordsAre
<1>9. \A x \in Rids : x \in Records' <=> x \in Records \/ x = r
  BY <1>2, <1>4, <1>5, <1>6, <1>7 DEF RecordsAre
<1>10. Records' = Records \cup {r}
  BY <1>6, <1>8, <1>9 DEF RecordsAre
<1>11. \A q \in Records : ValueOf(q)' = ValueOf(q)
  BY <1>4, <1>5, <1>6 DEF RecordsAre, ValueOf
<1>12. page'[r[1]].recs[r[2]] = v
  BY <1>4, <1>5, <1>7 DEF ValueOf
<1>13. Gained(r, v)
  BY <1>8, <1>10, <1>11, <1>12 DEF Gained
<1> QED
  BY <1>1, <1>2, <1>5, <1>13

(* A new page becomes the last of the chain, with its records. *)
LEMMA AppendRecords ==
  ASSUME TypeInv, TypeInv', PlacesSound, ChainSound, NEW i \in Inserters, Usable(i),
         NEW recs \in RecSets, NEW dirty, Append(i, recs, dirty)
  PROVE  /\ obj[i].curPage = header.lastPage
         /\ numPages \in DataPages \ Chain /\ Chain' = Chain \cup {numPages}
         /\ page'[numPages].next = NoPage
         /\ \A q \in DataPages \ {numPages} : SlotsOf(q)' = SlotsOf(q)
         /\ \A r \in Rids : r \in Records' <=> \/ r[1] = numPages /\ r[2] \in DOMAIN recs
                                               \/ r \in Records
         /\ \A r \in Records : r[1] # numPages /\ ValueOf(r)' = ValueOf(r)
         /\ \A r \in Rids : r[1] = numPages => ValueOf(r)' = recs[r[2]]
         /\ header' = [header EXCEPT !.lastPage = numPages, !.pageCnt = @ + 1,
                                     !.recCnt = Counted(recs)]
<1> DEFINE c == obj[i].curPage
<1>1. /\ numPages \in DataPages /\ c \in DataPages /\ c < numPages /\ c # numPages
      /\ page'[numPages].recs = recs /\ page'[numPages].next = NoPage
      /\ page'[c].next = numPages
      /\ \A q \in DataPages \ {numPages} : page'[q].recs = page[q].recs
      /\ \A q \in DataPages \ {numPages, c} : page'[q].next = page[q].next
      /\ \A q \in DataPages \ {numPages} : SlotsOf(q)' = SlotsOf(q)
      /\ header' = [header EXCEPT !.lastPage = numPages, !.pageCnt = @ + 1,
                                  !.recCnt = Counted(recs)]
  BY AppendIs
<1>2. c = header.lastPage
  BY InserterIs DEF PlacesSound, Usable
<1> HIDE DEF c
<1>3. c \in Chain /\ page[c].next = NoPage
  BY <1>2 DEF ChainSound, Chain
<1>4. header.firstPage \in DataPages /\ header'.firstPage = header.firstPage /\ Links(page)
      /\ DataPages \subseteq Nat
  BY <1>1, FileFacts DEF TypeInv, FileSound, TypeOK
<1>5. FromIn(page', header.firstPage) = FromIn(page, header.firstPage) \cup {numPages}
      /\ numPages \notin FromIn(page, header.firstPage)
  <2>1. \A others :
          (\A q \in DataPages : others[q].next = IF q = numPages THEN NoPage
                                                 ELSE IF q = c THEN numPages ELSE page[q].next)
          => \A p \in DataPages : c \in FromIn(page, p) =>
               /\ FromIn(others, p) = FromIn(page, p) \cup {numPages}
               /\ numPages \notin FromIn(page, p)
    <3>1. numPages > c
      BY <1>1, <1>4
    <3> QED
      BY <1>1, <1>3, <1>4, <3>1, FromAppended
  <2>2. \A q \in DataPages : page'[q].next = IF q = numPages THEN NoPage
                                             ELSE IF q = c THEN numPages ELSE page[q].next
    BY <1>1
  <2>3. c \in FromIn(page, header.firstPage)
    BY <1>3, FromIsFromIn DEF Chain
  <2> QED
    BY <1>4, <2>1, <2>2, <2>3
<1>6. Chain' = Chain \cup {numPages} /\ numPages \notin Chain
  <2>1. Chain = FromIn(page, header.firstPage)
    BY FromIsFromIn DEF Chain
  <2>2. Chain' = FromIn(page', header'.firstPage)
    BY DEF Chain, From, FromIn
  <2> QED
    BY <1>4, <1>5, <2>1, <2>2
<1>7. RecordsAre /\ RecordsAre'
  BY RecordsNow, RecordsNext
<1>8. \A r \in Rids : r[1] \in DataPages
  BY DEF Rids
<1>9. \A r \in Rids : r \in Records' <=> \/ r[1] = numPages /\ r[2] \in DOMAIN recs
                                         \/ r \in Records
  BY <1>1, <1>6, <1>7, <1>8 DEF RecordsAre
<1>10. \A r \in Records : r[1] # numPages /\ ValueOf(r)' = ValueOf(r)
  BY <1>1, <1>6, <1>7, <1>8 DEF RecordsAre, ValueOf
<1>11. \A r \in Rids : r[1] = numPages => ValueOf(r)' = recs[r[2]]
  BY <1>1 DEF ValueOf
<1> QED
  BY <1>1, <1>2, <1>6, <1>9, <1>10, <1>11 DEF c

(* insertRecord adds one on a new page, and counts it.                   *)
LEMMA InsertBehindRecords ==
  ASSUME TypeInv, TypeInv', PlacesSound, ChainSound, NEW i \in Inserters, NEW v \in Values,
         InsertBehind(i, v)
  PROVE  /\ Gained(<<numPages, 0>>, v)
         /\ header'.recCnt = header.recCnt + 1
<1> DEFINE recs == [s \in {0} |-> v]
           r == <<numPages, 0>>
<1>1. Usable(i) /\ Append(i, recs, TRUE) /\ recs \in RecSets
  BY RecSetsAre DEF InsertBehind
<1>2. DOMAIN recs = {0} /\ recs[0] = v
  OBVIOUS
<1> HIDE DEF recs
<1>3. /\ numPages \in DataPages
      /\ \A x \in Rids : x \in Records' <=> \/ x[1] = numPages /\ x[2] \in DOMAIN recs
                                            \/ x \in Records
      /\ \A x \in Records : x[1] # numPages /\ ValueOf(x)' = ValueOf(x)
      /\ \A x \in Rids : x[1] = numPages => ValueOf(x)' = recs[x[2]]
      /\ header' = [header EXCEPT !.lastPage = numPages, !.pageCnt = @ + 1,
                                  !.recCnt = Counted(recs)]
  BY <1>1, AppendRecords
<1>4. /\ r \in Rids /\ r[1] = numPages /\ r[2] = 0
      /\ \A x \in Rids : x = r <=> x[1] = numPages /\ x[2] = 0
  BY <1>3, SlotNosIs DEF Rids
<1> HIDE DEF r
<1>5. RecordsAre /\ RecordsAre'
  BY RecordsNow, RecordsNext
<1>6. r \in Rids \ Records
  BY <1>3, <1>4
<1>7. \A x \in Rids : x \in Records' <=> x \in Records \/ x = r
  BY <1>2, <1>3, <1>4
<1>8. Records' = Records \cup {r}
  BY <1>5, <1>6, <1>7 DEF RecordsAre
<1>9. page'[r[1]].recs[r[2]] = v
  BY <1>2, <1>3, <1>4 DEF ValueOf
<1>10. Gained(r, v)
  BY <1>3, <1>6, <1>8, <1>9 DEF Gained
<1>11. header'.recCnt = header.recCnt + 1
  <2>1. Cardinality(DOMAIN recs) = 1
    BY <1>2, FS_Singleton
  <2>2. header'.recCnt = header.recCnt + Cardinality(DOMAIN recs)
    BY <1>3 DEF Counted, TypeInv, TypeOK
  <2> QED
    BY <2>1, <2>2
<1> QED
  BY <1>10, <1>11 DEF r

(* A record that fits on no page adds an empty page, and no record.      *)
LEMMA InsertLongRecords ==
  ASSUME TypeInv, TypeInv', PlacesSound, ChainSound, NEW i \in Inserters, InsertLong(i)
  PROVE  Kept /\ header'.recCnt = header.recCnt
<1> DEFINE recs == [s \in {} |-> 0]
<1>1. Usable(i) /\ Append(i, recs, obj[i].curDirty) /\ recs \in RecSets
  BY Failing, RecSetsAre
<1>2. DOMAIN recs = {}
  OBVIOUS
<1> HIDE DEF recs
<1>3. /\ \A x \in Rids : x \in Records' <=> \/ x[1] = numPages /\ x[2] \in DOMAIN recs
                                            \/ x \in Records
      /\ \A x \in Records : x[1] # numPages /\ ValueOf(x)' = ValueOf(x)
      /\ header' = [header EXCEPT !.lastPage = numPages, !.pageCnt = @ + 1,
                                  !.recCnt = Counted(recs)]
  BY <1>1, AppendRecords
<1>4. Records' = Records
  BY <1>2, <1>3, RecordsNow, RecordsNext DEF RecordsAre
<1>5. header'.recCnt = header.recCnt
  <2>1. Cardinality(DOMAIN recs) = 0
    BY <1>2, FS_EmptySet
  <2>2. header'.recCnt = header.recCnt + Cardinality(DOMAIN recs) /\ header.recCnt \in Int
    BY <1>3 DEF Counted, TypeInv, TypeOK
  <2> QED
    BY <2>1, <2>2
<1> QED
  BY <1>3, <1>4, <1>5 DEF Kept

(* What a call does to the records and to their number.                    *)
LEMMA RecordsStep ==
  ASSUME TypeInv, TypeInv', PlacesSound, ChainSound, Next
  PROVE  \/ Kept /\ header'.recCnt = header.recCnt
         \/ \E s \in Scans : /\ DeleteRecord(s) /\ Lost(obj[s].curRec)
                            /\ header'.recCnt = header.recCnt - 1
         \/ \E s \in Scans, v \in Values : /\ MarkDirty(s, v) /\ Changed(obj[s].curRec, v)
                                          /\ header'.recCnt = header.recCnt
         \/ \E r : \E v \in Values : Gained(r, v) /\ header'.recCnt = header.recCnt + 1
         \/ ~DeletesOnlyOnce /\ Kept
<1> DEFINE Goal == \/ Kept /\ header'.recCnt = header.recCnt
                   \/ \E s \in Scans : /\ DeleteRecord(s) /\ Lost(obj[s].curRec)
                                      /\ header'.recCnt = header.recCnt - 1
                   \/ \E s \in Scans, v \in Values : /\ MarkDirty(s, v) /\ Changed(obj[s].curRec, v)
                                                    /\ header'.recCnt = header.recCnt
                   \/ \E r : \E v \in Values : Gained(r, v) /\ header'.recCnt = header.recCnt + 1
                   \/ ~DeletesOnlyOnce /\ Kept
<1>1. ASSUME UNCHANGED <<header.firstPage, page>> PROVE Kept
  <2>1. /\ \A q : SlotsOf(q)' = SlotsOf(q) /\ OnPage(q)' = OnPage(q)
        /\ From(header.firstPage)' = From(header.firstPage)
    BY <1>1 DEF SlotsOf, OnPage, From
  <2>2. Records' = Records
    BY <2>1 DEF Records
  <2>3. \A q : ValueOf(q)' = ValueOf(q)
    BY <1>1 DEF ValueOf
  <2> QED
    BY <2>2, <2>3 DEF Kept
<1>2. \A n : /\ [header EXCEPT !.recCnt = n].recCnt = n
             /\ [header EXCEPT !.recCnt = n].firstPage = header.firstPage
  BY DEF TypeInv, TypeOK
<1> HIDE DEF Goal
<1>3. ASSUME UNCHANGED <<header, page>> PROVE Goal
  BY <1>1, <1>3 DEF Goal
<1>4. ASSUME NEW s \in Scans, DeleteRecord(s) PROVE Goal
  BY <1>2, <1>4, DeleteRecordRecords DEF Goal
<1>5. ASSUME NEW s \in Scans, DeleteAgain(s) PROVE Goal
  <2>1. header' = [header EXCEPT !.recCnt = @ - 1] /\ page' = page /\ ~DeletesOnlyOnce
    BY <1>5, Failing
  <2> QED
    BY <1>1, <1>2, <2>1 DEF Goal
<1>6. ASSUME NEW s \in Scans, NEW v \in Values, MarkDirty(s, v) PROVE Goal
  BY <1>6, MarkDirtyRecords DEF Goal
<1>7. ASSUME NEW i \in Inserters, NEW v \in Values, InsertHere(i, v) PROVE Goal
  BY <1>2, <1>7, InsertHereRecords DEF Goal
<1>8. ASSUME NEW i \in Inserters, NEW v \in Values, InsertBehind(i, v) PROVE Goal
  BY <1>8, InsertBehindRecords DEF Goal
<1>9. ASSUME NEW i \in Inserters, InsertLong(i) PROVE Goal
  BY <1>9, InsertLongRecords DEF Goal
<1>10. ASSUME NEW i \in Inserters, InsertFails(i) PROVE Goal
  BY <1>3, <1>10, Failing
<1>11. Goal
  BY <1>3, <1>4, <1>5, <1>6, <1>7, <1>8, <1>9, <1>10, FileActions
<1> QED
  BY <1>11 DEF Goal

-----------------------------------------------------------------------------
(* The chain, and the places in it where objects are.                      *)

(* A call leaves the chain as it is, or an inserter appends a page to it.  *)
LEMMA ChainStep ==
  ASSUME TypeInv, TypeInv', PlacesSound, ChainSound, Next
  PROVE  /\ ChainSound'
         /\ \/ Chain' = Chain /\ header'.lastPage = header.lastPage
            \/ \E i \in Inserters : \E dirty \in BOOLEAN :
                 /\ Usable(i) /\ obj' = [obj EXCEPT ![i] = Appended(i, dirty)]
                 /\ UNCHANGED scan
                 /\ header'.lastPage = numPages
                 /\ Chain' = Chain \cup {numPages}
<1> DEFINE Longer == \E i \in Inserters : \E dirty \in BOOLEAN :
                       /\ Usable(i) /\ obj' = [obj EXCEPT ![i] = Appended(i, dirty)]
                       /\ UNCHANGED scan
                       /\ header'.lastPage = numPages
                       /\ Chain' = Chain \cup {numPages}
           Goal == /\ ChainSound'
                   /\ (Chain' = Chain /\ header'.lastPage = header.lastPage) \/ Longer
<1>1. /\ header.lastPage \in Chain /\ page[header.lastPage].next = NoPage
      /\ Cardinality(Chain) = header.pageCnt
      /\ \A p \in DataPages : SlotsOf(p) # {} => p \in Chain
  BY DEF ChainSound, Chain
<1>2. Chain \subseteq DataPages /\ IsFiniteSet(Chain)
  <2>1. Chain \subseteq DataPages
    BY FileFacts DEF TypeInv, Chain
  <2> QED
    BY <2>1, SlotNosIs, FS_Subset
<1>3. /\ header'.lastPage \in Chain' /\ page'[header'.lastPage].next = NoPage
      /\ Cardinality(Chain') = header'.pageCnt
      /\ \A p \in DataPages : SlotsOf(p)' # {} => p \in Chain'
      => ChainSound'
  BY DEF ChainSound, Chain
<1>4. \A n : LET h == [header EXCEPT !.recCnt = n]
             IN  /\ h.pageCnt = header.pageCnt /\ h.lastPage = header.lastPage
                 /\ h.firstPage = header.firstPage
  BY DEF TypeInv, TypeOK
<1>5. ASSUME Chain' = Chain, UNCHANGED <<header.lastPage, header.pageCnt>>,
             \A q \in DataPages : page'[q].next = page[q].next,
             \A q \in DataPages \ Chain : SlotsOf(q)' = SlotsOf(q)
      PROVE  Goal
  BY <1>1, <1>2, <1>3, <1>5
<1>6. ASSUME UNCHANGED <<header.firstPage, header.lastPage, header.pageCnt, page>> PROVE Goal
  <2>1. Chain' = Chain /\ \A q : SlotsOf(q)' = SlotsOf(q)
    BY <1>6 DEF Chain, From, SlotsOf
  <2> QED
    BY <1>5, <1>6, <2>1
<1>7. ASSUME NEW i \in Inserters, Usable(i), NEW recs \in RecSets, NEW dirty \in BOOLEAN,
             Append(i, recs, dirty)
      PROVE  Goal
  <2>1. /\ numPages \in DataPages \ Chain /\ Chain' = Chain \cup {numPages}
        /\ page'[numPages].next = NoPage
        /\ \A q \in DataPages \ {numPages} : SlotsOf(q)' = SlotsOf(q)
        /\ header' = [header EXCEPT !.lastPage = numPages, !.pageCnt = @ + 1,
                                    !.recCnt = Counted(recs)]
    BY <1>7, AppendRecords
  <2>2. header'.lastPage = numPages /\ header'.pageCnt = header.pageCnt + 1
    BY <2>1 DEF TypeInv, TypeOK
  <2>3. Cardinality(Chain') = Cardinality(Chain) + 1
    BY <1>2, <2>1, FS_AddElement
  <2>4. ChainSound'
    BY <1>1, <1>3, <2>1, <2>2, <2>3
  <2>5. obj' = [obj EXCEPT ![i] = Appended(i, dirty)] /\ UNCHANGED scan
    BY <1>7, AppendMoves DEF Append
  <2> QED
    BY <1>7, <2>1, <2>2, <2>4, <2>5
<1> HIDE DEF Goal
<1>8. ASSUME UNCHANGED <<header, page, numPages>> PROVE Goal
  BY <1>6, <1>8
<1>9. ASSUME NEW s \in Scans, DeleteRecord(s) PROVE Goal
  BY <1>4, <1>5, <1>9, DeleteRecordRecords
<1>10. ASSUME NEW s \in Scans, DeleteAgain(s) PROVE Goal
  <2>1. header' = [header EXCEPT !.recCnt = @ - 1] /\ page' = page
    BY <1>10, Failing
  <2> QED
    BY <1>4, <1>6, <2>1
<1>11. ASSUME NEW s \in Scans, NEW v \in Values, MarkDirty(s, v) PROVE Goal
  BY <1>5, <1>11, MarkDirtyRecords
<1>12. ASSUME NEW i \in Inserters, NEW v \in Values, InsertHere(i, v) PROVE Goal
  BY <1>4, <1>5, <1>12, InsertHereRecords
<1>13. ASSUME NEW i \in Inserters, NEW v \in Values, InsertBehind(i, v) PROVE Goal
  <2>1. Usable(i) /\ Append(i, [s \in {0} |-> v], TRUE) /\ [s \in {0} |-> v] \in RecSets
    BY <1>13, RecSetsAre DEF InsertBehind
  <2> QED
    BY <1>7, <2>1
<1>14. ASSUME NEW i \in Inserters, InsertLong(i) PROVE Goal
  <2>1. /\ Usable(i) /\ Append(i, [s \in {} |-> 0], obj[i].curDirty)
        /\ [s \in {} |-> 0] \in RecSets /\ obj[i].curDirty \in BOOLEAN
    BY <1>14, Failing, RecSetsAre, MemberIs, ObjectsAre
  <2> QED
    BY <1>7, <2>1
<1>15. ASSUME NEW i \in Inserters, InsertFails(i) PROVE Goal
  BY <1>6, <1>15, Failing
<1>16. Goal
  BY <1>8, <1>9, <1>10, <1>11, <1>12, <1>13, <1>14, <1>15, FileActions
<1> QED
  BY <1>16 DEF Goal

(* A scan starts to look for records on a page of the chain, and the       *)
(* records it has yet to look at are on pages of the chain.                *)
LEMMA StartInChain ==
  ASSUME TypeInv, PlacesSound, NEW s \in Scans
  PROVE  /\ Start(s)[1] \in Chain
         /\ From(Start(s)[1]) = {x \in Chain : Start(s)[1] <= x}
         /\ LastFrom(Start(s)[1]) \in Chain
         /\ \A r \in Rest(s) : r[1] \in Chain
<1> DEFINE p == Start(s)[1]
<1>1. p \in Chain
  <2>1. header.firstPage \in Chain
    BY FileFacts DEF TypeInv, Chain
  <2> QED
    BY <2>1, ObjectsAre DEF Start, PlacesSound
<1>2. From(p) = {x \in Chain : p <= x}
  <2>1. header.firstPage \in DataPages /\ Links(page)
    BY FileFacts DEF TypeInv, FileSound
  <2>2. p \in FromIn(page, header.firstPage)
    BY <1>1, FromIsFromIn DEF Chain
  <2> HIDE DEF p
  <2> QED
    BY <2>1, <2>2, FromIsFromIn, FromTail DEF Chain
<1> HIDE DEF p
<1>3. LastFrom(p) \in From(p) /\ Rest(s) \subseteq From(p) \X SlotNos
  BY ScanFacts DEF p
<1> QED
  BY <1>1, <1>2, <1>3 DEF p

(* Objects stay on the chain, and the inserter at its end.                 *)
LEMMA PlacesStep ==
  ASSUME ReadsSucceed, TypeInv, TypeInv', PinsAreObjects, PlacesSound, ChainSound, Next
  PROVE  PlacesSound'
<1> DEFINE Good(o, m) == /\ m.curPage # NoPage => m.curPage \in Chain'
                         /\ o \in Inserters /\ m.open => m.curPage = header'.lastPage
           Goal == \A o \in Objects : Good(o, obj'[o])
           MarksGood == \A s \in Scans : scan'[s].mark.pageNo \in Chain' \cup {NoPage}
<1>1. Goal /\ MarksGood => PlacesSound'
  BY ObjectsAre DEF PlacesSound, HoldsPage
<1>2. /\ \A o \in Objects : obj[o].curPage # NoPage => obj[o].curPage \in Chain
      /\ \A i \in Inserters : obj[i].open => obj[i].curPage = header.lastPage
      /\ \A s \in Scans : scan[s].mark.pageNo \in Chain \cup {NoPage}
      /\ obj \in [Objects -> Members]
      /\ scan \in [Scans -> [filter : SUBSET Values, mark : Marks]]
  BY DEF PlacesSound, HoldsPage, TypeInv, TypeOK
<1>3. ASSUME NEW i \in Inserters, NEW dirty \in BOOLEAN, Usable(i),
             obj' = [obj EXCEPT ![i] = Appended(i, dirty)], UNCHANGED scan,
             header'.lastPage = numPages, Chain' = Chain \cup {numPages}
      PROVE  Goal /\ MarksGood
  <2>1. Appended(i, dirty).curPage = numPages
    <3>1. obj[i] \in Members
      BY InserterIs, <1>3
    <3> QED
      BY <3>1 DEF Appended, Members
  <2>2. Good(i, Appended(i, dirty))
    BY <1>3, <2>1
  <2>3. \A o \in Objects \ {i} : o \notin Inserters
    BY <1>3, InsertersAssumption
  <2>4. obj'[i] = Appended(i, dirty) /\ \A o \in Objects \ {i} : obj'[o] = obj[o]
    BY <1>2, <1>3, ObjectsAre
  <2> QED
    BY <1>2, <1>3, <2>2, <2>3, <2>4
<1>4. ASSUME Chain' = Chain, header'.lastPage = header.lastPage PROVE Goal /\ MarksGood
  <2>1. \A o \in Objects : Good(o, obj[o])
    BY <1>2, <1>4
  <2>2. ASSUME NEW o \in Objects, NEW m, obj' = [obj EXCEPT ![o] = m], Good(o, m) PROVE Goal
    BY <1>2, <2>1, <2>2
  <2>3. ASSUME NEW o \in Objects \ Inserters, NEW p \in Chain, NEW r,
               obj' = [obj EXCEPT ![o] = At(o, p, r)]
        PROVE  Goal
    <3>1. Good(o, At(o, p, r))
      BY <1>4, <2>3, AtIs
    <3> QED
      BY <2>2, <2>3, <3>1
  <2>4. \A p : Opened(p).curPage = p
    BY DEF Opened, Closed
  <2>5. header.firstPage \in Chain /\ header.lastPage \in Chain
    BY FileFacts DEF TypeInv, Chain, ChainSound
  <2> HIDE DEF Goal
  <2>6. ASSUME UNCHANGED obj PROVE Goal
    BY <2>1, <2>6 DEF Goal
  <2>7. ASSUME NEW o \in Plain, OpenHeapFile(o) PROVE Goal
    <3>1. Good(o, Opened(header.firstPage))
      BY <1>4, <2>4, <2>5, ObjectsAre
    <3> QED
      BY <2>2, <2>7, <3>1, OpenHeapFileMoves, ObjectsAre
  <2>8. ASSUME NEW s \in Scans, NEW f \in Filters, OpenScan(s, f) PROVE Goal
    <3>1. Good(s, Opened(header.firstPage))
      BY <1>4, <2>4, <2>5, ObjectsAre
    <3> QED
      BY <2>2, <2>8, <3>1, OpenHeapFileMoves, ObjectsAre
  <2>9. ASSUME NEW i \in Inserters, OpenInserter(i) PROVE Goal
    <3>1. Good(i, Opened(header.lastPage))
      BY <1>4, <2>4, <2>5
    <3> QED
      BY <2>2, <2>9, <3>1, OpenInserterMoves, ObjectsAre
  <2>10. ASSUME NEW o \in Objects, Close(o) PROVE Goal
    <3>1. obj' = [obj EXCEPT ![o] = Closed]
      BY <2>10 DEF Close
    <3>2. Good(o, Closed)
      BY ClosedIs
    <3> QED
      BY <2>2, <3>1, <3>2
  <2>11. ASSUME NEW o \in Plain, NEW r \in Records, GetRecord(o, r) PROVE Goal
    <3>1. r[1] \in Chain
      BY RecordsNow DEF RecordsAre
    <3>2. obj' = [obj EXCEPT ![o] = At(o, r[1], r)]
      BY <2>11, GetRecordMoves
    <3> QED
      BY <2>3, <3>1, <3>2, ObjectsAre
  <2>12. ASSUME NEW s \in Scans, ScanFinds(s) PROVE Goal
    <3> DEFINE r == FirstOf(Hits(s))
    <3>1. obj' = [obj EXCEPT ![s] = At(s, r[1], r)]
      BY <2>12, ScanFindsMoves
    <3>2. r \in Rest(s)
      BY <2>12, ScanFacts DEF ScanFinds, Hits
    <3> HIDE DEF r
    <3>3. r[1] \in Chain
      BY <3>2, StartInChain
    <3> QED
      BY <2>3, <3>1, <3>3, ObjectsAre
  <2>13. ASSUME NEW s \in Scans, ScanEnds(s) PROVE Goal
    <3>1. ASSUME NEW m, obj' = [obj EXCEPT ![s] = m], m.curPage = NoPage PROVE Goal
      <4>1. Good(s, m)
        BY <3>1, ObjectsAre
      <4> QED
        BY <2>2, <3>1, <4>1, ObjectsAre
    <3>2. ASSUME obj' = [obj EXCEPT ![s] = At(s, LastFrom(Start(s)[1]), EndRec(s))] PROVE Goal
      <4> DEFINE p == LastFrom(Start(s)[1])
      <4>1. p \in Chain
        BY StartInChain
      <4> HIDE DEF p
      <4> QED
        BY <2>3, <3>2, <4>1, ObjectsAre DEF p
    <3> QED
      BY <2>6, <2>13, <3>1, <3>2, ScanEndsMoves
  <2>14. ASSUME NEW s \in Scans, EndScan(s) PROVE Goal
    <3> DEFINE m == [obj[s] EXCEPT !.curPage = NoPage, !.curPageNo = 0, !.curDirty = FALSE]
    <3>1. obj' = [obj EXCEPT ![s].curPage = NoPage, ![s].curPageNo = 0, ![s].curDirty = FALSE]
      BY <2>14, Failing
    <3>2. s \in Objects /\ obj[s] \in Members /\ s \notin Inserters
      BY ObjectsAre, <1>2
    <3>3. obj' = [obj EXCEPT ![s] = m] /\ m.curPage = NoPage
      BY <1>2, <3>1, <3>2 DEF Members
    <3> HIDE DEF m
    <3> QED
      BY <2>2, <3>2, <3>3
  <2>15. ASSUME NEW s \in Scans, ResetScan(s) PROVE Goal
    <3> DEFINE k == scan[s].mark
    <3>1. obj' = [obj EXCEPT ![s] = At(s, k.pageNo, k.rec)]
      BY <2>15, ResetScanMoves
    <3>2. k.pageNo \in Chain
      BY <1>2, <2>15 DEF ResetScan
    <3> HIDE DEF k
    <3> QED
      BY <2>3, <3>1, <3>2, ObjectsAre
  <2>16. ASSUME NEW o \in Objects, NEW h \in BOOLEAN, obj' = [obj EXCEPT ![o] = Wrote(o, h)] PROVE Goal
    <3>1. Wrote(o, h).curPage = obj[o].curPage /\ Wrote(o, h).open = obj[o].open
      BY <1>2 DEF Wrote, Members
    <3> QED
      BY <2>1, <2>2, <2>16, <3>1
  <2>17. ASSUME NEW s \in Scans, DeleteRecord(s) \/ DeleteAgain(s) PROVE Goal
    <3>1. obj' = [obj EXCEPT ![s] = Wrote(s, TRUE)]
      BY <2>17, DeleteRecordMoves, DeleteAgainMoves
    <3> QED
      BY <2>16, <3>1, ObjectsAre
  <2>18. ASSUME NEW s \in Scans, NEW v \in Values, MarkDirty(s, v) PROVE Goal
    <3>1. obj' = [obj EXCEPT ![s] = Wrote(s, obj[s].hdrDirty)]
      BY <2>18, MarkDirtyMoves
    <3> QED
      BY <2>16, <3>1, ObjectsAre, MemberIs
  <2>19. ASSUME NEW i \in Inserters, NEW v \in Values, InsertHere(i, v) PROVE Goal
    BY <2>16, <2>19, InsertHereMoves, ObjectsAre
  <2>20. ASSUME NEW i \in Inserters, Usable(i), NEW recs \in RecSets, NEW dirty,
                Append(i, recs, dirty)
         PROVE  Goal
    BY <1>4, <2>20, AppendRecords
  <2>21. ASSUME NEW i \in Inserters, NEW v \in Values, InsertBehind(i, v) PROVE Goal
    BY <2>20, <2>21, RecSetsAre DEF InsertBehind
  <2>22. ASSUME NEW i \in Inserters, InsertLong(i) PROVE Goal
    BY <2>20, <2>22, RecSetsAre, Failing
  <2>23. ASSUME NEW i \in Inserters, InsertFails(i) PROVE Goal
    BY <2>6, <2>23, Failing
  <2>24. ASSUME NEW s \in Scans, MarkScan(s) PROVE Goal
    BY <2>6, <2>24 DEF MarkScan
  <2>25. Goal
    <3>1. /\ \A o, r : ~GetRecordFails(o, r)
          /\ \A s : ~ScanFails(s) /\ ~ResetFails(s) /\ ~OpenInserterFails(s)
      BY Failing
    <3> QED
      BY <2>7, <2>8, <2>9, <2>10, <2>11, <2>12, <2>13, <2>14, <2>15, <2>17, <2>18, <2>19, <2>21,
         <2>22, <2>23, <2>24, <3>1, Zenon DEF Next, ScanNext, InsertRecord
  <2>26. MarksGood
    <3>1. \A s \in Scans : scan[s].mark.pageNo \in Chain' \cup {NoPage}
      BY <1>2, <1>4
    <3> DEFINE Same(s) == scan'[s].mark.pageNo \in {scan[s].mark.pageNo, NoPage}
    <3>2. ASSUME \A s \in Scans : Same(s) PROVE MarksGood
      BY <3>1, <3>2
    <3> HIDE DEF MarksGood
    <3>3. ASSUME UNCHANGED scan PROVE MarksGood
      BY <3>2, <3>3
    <3>4. ASSUME NEW s \in Scans, NEW f \in Filters, OpenScan(s, f) PROVE MarksGood
      BY <1>2, <3>2, <3>4 DEF OpenScan, NoMark
    <3>5. ASSUME NEW o \in Objects, Close(o) PROVE MarksGood
      BY <1>2, <3>2, <3>5 DEF Close, NoMark
    <3>6. ASSUME NEW s \in Scans, MarkScan(s) PROVE MarksGood
      <4>1. scan' = [scan EXCEPT ![s].mark = [pageNo |-> obj[s].curPageNo, rec |-> obj[s].curRec,
                                              todo |-> todo[s], seen |-> seen[s]]]
        BY <3>6 DEF MarkScan
      <4>2. scan'[s].mark.pageNo = obj[s].curPageNo /\ \A t \in Scans \ {s} : scan'[t] = scan[t]
        BY <1>2, <4>1
      <4>3. obj[s].curPageNo \in Chain
        BY <1>2, <3>6, ObjectsAre DEF MarkScan, HoldsPage, PinsAreObjects
      <4> QED
        BY <1>4, <3>1, <4>2, <4>3 DEF MarksGood
    <3>7. ASSUME NEW r, Forget(r) PROVE MarksGood
      <4>1. ASSUME NEW s \in Scans PROVE scan'[s].mark.pageNo = scan[s].mark.pageNo
        <5>1. scan'[s] = [scan[s] EXCEPT !.mark.todo = @ \ {r}, !.mark.seen = @ \ {r}]
          BY <3>7 DEF Forget
        <5>2. scan[s] \in [filter : SUBSET Values, mark : Marks]
          BY <1>2
        <5> QED
          BY <5>1, <5>2 DEF Marks
      <4> QED
        BY <3>2, <4>1
    <3> QED
      BY <3>3, <3>4, <3>5, <3>6, <3>7, ScanActions
         DEF ScanFinds, EndScan, ResetScan, DeleteRecord, MarkDirty
  <2> QED
    BY <2>25, <2>26
<1> QED
  BY <1>1, <1>3, <1>4, ChainStep

(* An empty file has a chain of one page, and no records.                *)
LEMMA ChainInit == Init => PlacesSound /\ ChainSound /\ CountSound
<1> SUFFICES ASSUME Init PROVE PlacesSound /\ ChainSound /\ CountSound
  OBVIOUS
<1>1. /\ header = [firstPage |-> 2, lastPage |-> 2, pageCnt |-> 1, recCnt |-> 0]
      /\ page = [p \in DataPages |-> [recs |-> [s \in {} |-> 0], next |-> NoPage]]
      /\ obj = [o \in Objects |-> Closed]
      /\ scan = [s \in Scans |-> [filter |-> Values, mark |-> NoMark]]
  BY DEF Init
<1>2. TypeOK /\ FileSound
  BY TypeInit DEF TypeInv
<1>3. 2 \in DataPages /\ page[2].next = NoPage /\ \A p \in DataPages : SlotsOf(p) = {}
  BY <1>1, <1>2, FileFacts DEF SlotsOf
<1>4. Chain = {2}
  <2>1. FromIn(page, 2) = {2}
    BY <1>2, <1>3, FromNext DEF FileSound
  <2> QED
    BY <1>1, <2>1, FromIsFromIn DEF Chain
<1>5. PlacesSound
  BY <1>1, ClosedIs, ObjectsAre DEF PlacesSound, HoldsPage, NoMark
<1>6. ChainSound
  BY <1>1, <1>3, <1>4, FS_Singleton DEF ChainSound, Chain
<1>7. CountSound
  <2>1. Records = {}
    BY <1>2, <1>3, RecordFacts
  <2> QED
    BY <1>1, <2>1, FS_EmptySet DEF CountSound
<1> QED
  BY <1>5, <1>6, <1>7

(* What holds as long as reads succeed. *)
GoodInv == TypeInv /\ PinsAreObjects /\ OwedSound /\ PlacesSound /\ ChainSound

(* Initially the invariant holds.                                        *)
LEMMA GoodInit == Init => GoodInv
BY TypeInit, PinsInit, ChainInit DEF GoodInv

(* Every step keeps it.                                                  *)
LEMMA GoodStep == ASSUME ReadsSucceed PROVE GoodInv /\ [Next]_vars => GoodInv'
<1> SUFFICES ASSUME GoodInv, [Next]_vars PROVE GoodInv'
  OBVIOUS
<1>1. TypeInv /\ PinsAreObjects /\ OwedSound /\ PlacesSound /\ ChainSound
  BY DEF GoodInv
<1>2. TypeInv' /\ PinsAreObjects' /\ OwedSound'
  BY <1>1, TypeStep, PinsStep
<1>3. CASE UNCHANGED vars
  <2>1. PlacesSound'
    BY <1>1, <1>3 DEF vars, PlacesSound, HoldsPage, Chain, From
  <2>2. ChainSound'
    BY <1>1, <1>3 DEF vars, ChainSound, From, SlotsOf
  <2> QED
    BY <1>2, <2>1, <2>2 DEF GoodInv
<1>4. CASE Next
  BY <1>1, <1>2, <1>4, PlacesStep, ChainStep DEF GoodInv
<1> QED
  BY <1>3, <1>4

(* As long as reads succeed, the chain leads to the last page of the       *)
(* header, has as many pages as it says, and every record is in it, even   *)
(* when pages are lost that could not be allocated, or a long record is    *)
(* tried.                                                                  *)
THEOREM ChainIsSound ==
  ASSUME ReadsSucceed
  PROVE  Spec => []ChainSound
<1>1. GoodInv => ChainSound
  BY DEF GoodInv
<1> QED
  BY <1>1, GoodInit, GoodStep, PTL DEF Spec

-----------------------------------------------------------------------------
(* The count of the records, and the file as a RecordFile.                 *)

(* Every step counts the records that it adds or removes.                *)
LEMMA CountStep ==
  ASSUME DeletesOnlyOnce, TypeInv, TypeInv', PlacesSound, ChainSound, CountSound, Next
  PROVE  CountSound'
<1>1. header.recCnt = Cardinality(Records) /\ IsFiniteSet(Records) /\ Cardinality(Records) \in Nat
  BY RecordFacts, FS_CardinalityType DEF CountSound, TypeInv
<1>2. CASE Kept /\ header'.recCnt = header.recCnt
  BY <1>1, <1>2 DEF Kept, CountSound
<1>3. ASSUME NEW r, Lost(r), header'.recCnt = header.recCnt - 1 PROVE CountSound'
  <2>1. Cardinality(Records') = Cardinality(Records) - 1
    BY <1>1, <1>3, FS_RemoveElement DEF Lost
  <2> QED
    BY <1>1, <1>3, <2>1 DEF CountSound
<1>4. ASSUME NEW r, NEW v, Changed(r, v), header'.recCnt = header.recCnt PROVE CountSound'
  BY <1>1, <1>4 DEF Changed, CountSound
<1>5. ASSUME NEW r, NEW v, Gained(r, v), header'.recCnt = header.recCnt + 1 PROVE CountSound'
  <2>1. Cardinality(Records') = Cardinality(Records) + 1
    BY <1>1, <1>5, FS_AddElement DEF Gained
  <2> QED
    BY <1>1, <1>5, <2>1 DEF CountSound
<1> QED
  BY <1>2, <1>3, <1>4, <1>5, RecordsStep

(* As long as reads succeed, and no scan deletes a record that is no       *)
(* longer there, the header counts the records.                            *)
THEOREM CountIsSound ==
  ASSUME ReadsSucceed, DeletesOnlyOnce
  PROVE  Spec => []CountSound
<1> DEFINE Inv == GoodInv /\ CountSound
<1>1. Init => Inv
  BY GoodInit, ChainInit
<1>2. Inv /\ [Next]_vars => Inv'
  <2> SUFFICES ASSUME Inv, [Next]_vars PROVE CountSound'
    BY GoodStep
  <2>1. TypeInv /\ TypeInv' /\ PlacesSound /\ ChainSound
    BY GoodStep DEF GoodInv
  <2>2. CASE UNCHANGED vars
    <3>1. Records' = Records
      BY <2>2 DEF vars, Records, From, OnPage, SlotsOf
    <3> QED
      BY <2>2, <3>1 DEF vars, CountSound
  <2> QED
    BY <2>1, <2>2, CountStep
<1>3. Inv => CountSound
  OBVIOUS
<1> QED
  BY <1>1, <1>2, <1>3, PTL DEF Spec

(* The records of the file as a function, which RecordFile changes. *)
Contents == [r \in Records |-> ValueOf(r)]

(* An empty heap file is an empty record file.                           *)
LEMMA FileInit == Init => RF!Init
<1> SUFFICES ASSUME Init PROVE RF!Init
  OBVIOUS
<1>1. header.recCnt = 0 /\ TypeInv
  BY TypeInit DEF Init
<1>2. Records = {}
  <2>1. IsFiniteSet(Records) /\ Cardinality(Records) = 0
    BY <1>1, ChainInit, RecordFacts DEF CountSound, TypeInv
  <2> QED
    BY <2>1, FS_EmptySet
<1>3. [r \in Records |-> ValueOf(r)] = [r \in {} |-> 0]
  BY <1>2
<1> QED
  BY <1>1, <1>3 DEF RF!Init

(* Every step is one of the record file, or changes nothing in it.       *)
LEMMA FileNext ==
  ASSUME DeletesOnlyOnce, TypeInv, TypeInv', PlacesSound, ChainSound, Next
  PROVE  RF!Next \/ UNCHANGED <<Contents, header.recCnt>>
<1>1. Records \subseteq Rids
  BY RecordFacts DEF TypeInv
<1>2. Contents' = [r \in Records' |-> ValueOf(r)'] /\ DOMAIN Contents = Records
  BY DEF Contents
<1>3. CASE Kept /\ header'.recCnt = header.recCnt
  BY <1>2, <1>3 DEF Kept, Contents
<1>4. ASSUME NEW r, Lost(r), header'.recCnt = header.recCnt - 1 PROVE RF!Next
  <2>1. Contents' = [q \in DOMAIN Contents \ {r} |-> Contents[q]] /\ r \in DOMAIN Contents /\ r \in Rids
    BY <1>1, <1>2, <1>4 DEF Lost, Contents
  <2> QED
    BY <1>4, <2>1 DEF RF!Next, RF!Delete, Contents
<1>5. ASSUME NEW r, NEW v \in Values, Changed(r, v), header'.recCnt = header.recCnt PROVE RF!Next
  <2>1. r \in Records /\ Records' = Records /\ ValueOf(r)' = v
    BY <1>5 DEF Changed, ValueOf
  <2>2. \A q \in Records : ValueOf(q)' = IF q = r THEN v ELSE ValueOf(q)
    BY <1>5, <2>1 DEF Changed
  <2>3. Contents' = [Contents EXCEPT ![r] = v] /\ r \in DOMAIN Contents /\ r \in Rids
    BY <1>1, <1>2, <2>1, <2>2 DEF Contents
  <2> QED
    BY <1>5, <2>3 DEF RF!Next, RF!Change, Contents
<1>6. ASSUME NEW r, NEW v \in Values, Gained(r, v), header'.recCnt = header.recCnt + 1 PROVE RF!Next
  <2>1. r \in Rids \ Records /\ Records' = Records \cup {r} /\ ValueOf(r)' = v
        /\ \A q \in Records : ValueOf(q)' = ValueOf(q)
    BY <1>6 DEF Gained, ValueOf
  <2>2. /\ Contents' = [q \in DOMAIN Contents \cup {r} |-> IF q = r THEN v ELSE Contents[q]]
        /\ r \notin DOMAIN Contents /\ r \in Rids
    BY <1>2, <2>1 DEF Contents
  <2> QED
    BY <1>6, <2>2 DEF RF!Next, RF!Insert, Contents
<1> QED
  BY <1>3, <1>4, <1>5, <1>6, RecordsStep

(* As long as reads succeed, and no scan deletes a record that is no       *)
(* longer there, a heap file is a RecordFile: each call inserts, changes   *)
(* or deletes one record and counts that, or leaves all records as they    *)
(* are, whatever it does to pages and to other scans.                      *)
THEOREM HeapFileIsRecordFile ==
  ASSUME ReadsSucceed, DeletesOnlyOnce
  PROVE  Spec => FileSpec
<1>1. Init => RF!Init
  BY FileInit
<1>2. GoodInv /\ [Next]_vars => [RF!Next]_<<[r \in Records |-> ValueOf(r)], header.recCnt>>
  <2> SUFFICES ASSUME GoodInv, [Next]_vars
               PROVE  RF!Next \/ UNCHANGED <<Contents, header.recCnt>>
    BY DEF Contents
  <2>1. TypeInv /\ TypeInv' /\ PlacesSound /\ ChainSound
    BY GoodStep DEF GoodInv
  <2>2. CASE UNCHANGED vars
    <3>1. Records' = Records /\ \A q : ValueOf(q)' = ValueOf(q)
      BY <2>2 DEF vars, Records, From, OnPage, SlotsOf, ValueOf
    <3> QED
      BY <2>2, <3>1 DEF vars, Contents
  <2> QED
    BY <2>1, <2>2, FileNext
<1> QED
  BY <1>1, <1>2, GoodInit, GoodStep, PTL DEF Spec, FileSpec, RF!Spec

-----------------------------------------------------------------------------
(* Scans.                                                                  *)

(* A scan of a file with contents c and with filter f, at slot k of page   *)
(* p, that has returned the records sn, and has to return those of td that *)
(* match.                                                                  *)
ScanAt(c, f, p, k, td, sn) ==
  /\ td \subseteq DOMAIN c /\ sn \subseteq DOMAIN c
  /\ \A r \in td : c[r] \in f => After(r, p, k)
  /\ \A r \in sn : ~After(r, p, k)

(* A scan with members m, filter and mark sc, where it is and where it was *)
(* marked.                                                                 *)
ScanGood(c, m, sc, td, sn) ==
  m.open => /\ m.curPage # NoPage
            /\ ScanAt(c, sc.filter, m.curPage, m.curRec[2], td, sn)
            /\ sc.mark.pageNo # NoPage =>
                 ScanAt(c, sc.filter, sc.mark.pageNo, sc.mark.rec[2], sc.mark.todo, sc.mark.seen)

ScansSound == \A s \in Scans : ScanGood(Contents, obj[s], scan[s], todo[s], seen[s])

(* Records that neither are lost nor change do not disturb a scan.         *)
LEMMA ScanAtKept ==
  ASSUME NEW c, NEW d, NEW X, \A q \in DOMAIN c \ X : q \in DOMAIN d /\ d[q] = c[q],
         NEW f, NEW p, NEW k, NEW td, NEW sn, ScanAt(c, f, p, k, td, sn)
  PROVE  ScanAt(d, f, p, k, td \ X, sn \ X)
BY DEF ScanAt

(* A scan that is open has a page, is not at its end, and has left to look *)
(* at exactly the records that come after the one it is at.                *)
LEMMA ScanIsAt ==
  ASSUME GoodInv, ScansSound, NEW s \in Scans, Usable(s)
  PROVE  LET p == obj[s].curPage
             k == obj[s].curRec[2]
         IN  /\ HoldsPage(s) /\ ~AtEnd(s) /\ ~FirstIsEmpty(s) /\ obj[s].curPageNo = p
             /\ Start(s) = <<p, k>> /\ p \in DataPages
             /\ ScanAt(Contents, scan[s].filter, p, k, todo[s], seen[s])
             /\ Rest(s) = {r \in Records : After(r, p, k)}
             /\ Hits(s) = {r \in Records : After(r, p, k) /\ ValueOf(r) \in scan[s].filter}
<1> DEFINE p == obj[s].curPage
           k == obj[s].curRec[2]
<1>1. s \in Objects /\ TypeInv /\ PinsAreObjects /\ PlacesSound
  BY ObjectsAre DEF GoodInv
<1>2. HoldsPage(s) /\ ScanAt(Contents, scan[s].filter, p, k, todo[s], seen[s])
  BY DEF ScansSound, ScanGood, HoldsPage, Usable
<1>3. p \in DataPages /\ obj[s].curPageNo = p
  BY <1>1, <1>2, MemberIs DEF PinsAreObjects
<1>4. p \in Nat
  BY <1>1, <1>3, FileFacts DEF TypeInv
<1>5. ~AtEnd(s) /\ ~FirstIsEmpty(s)
  BY <1>2, <1>3, <1>4 DEF AtEnd, FirstIsEmpty
<1>6. Start(s) = <<p, k>>
  BY <1>2 DEF Start
<1>7. Rest(s) = {r \in From(p) \X SlotNos : r[2] \in SlotsOf(r[1]) /\ After(r, p, k)}
  BY <1>1, <1>6, ScanFacts
<1>8. From(p) = {x \in Chain : p <= x}
  BY <1>1, <1>6, StartInChain
<1> HIDE DEF p, k
<1>9. RecordsAre
  BY <1>1, RecordsNow
<1>10. Rest(s) = {r \in Records : After(r, p, k)}
  <2>1. ASSUME NEW r \in Rest(s) PROVE r \in Records /\ After(r, p, k)
    <3>1. r \in From(p) \X SlotNos /\ r[2] \in SlotsOf(r[1]) /\ After(r, p, k)
      BY <1>7, <2>1
    <3>2. r[1] \in Chain /\ r \in Rids
      BY <1>1, <1>8, <3>1, FileFacts DEF Rids, Chain, TypeInv
    <3> QED
      BY <1>9, <3>1, <3>2 DEF RecordsAre, SlotsOf
  <2>2. ASSUME NEW r \in Records, After(r, p, k) PROVE r \in Rest(s)
    <3>1. r \in Rids /\ r[1] \in Chain /\ r[2] \in SlotsOf(r[1])
      BY <1>9 DEF RecordsAre, SlotsOf
    <3>2. p <= r[1]
      <4>1. r[1] \in Nat
        BY <1>1, <3>1, FileFacts DEF TypeInv, Rids
      <4> QED
        BY <1>4, <2>2, <4>1 DEF After, p
    <3>3. r \in From(p) \X SlotNos
      BY <1>8, <3>1, <3>2 DEF Rids
    <3> QED
      BY <1>7, <2>2, <3>1, <3>3
  <2> QED
    BY <2>1, <2>2
<1> QED
  BY <1>2, <1>3, <1>5, <1>6, <1>10 DEF Hits, p, k

(* The order of a scan is that of After, and linear.                       *)
LEMMA AfterIs ==
  ASSUME NEW r \in Rids, NEW q \in Rids, NEW p \in Int, NEW k \in Int
  PROVE  /\ After(q, p, k) /\ ~After(r, p, k) => After(q, r[1], r[2])
         /\ After(r, p, k) /\ ~After(q, p, k) => ~After(q, r[1], r[2])
         /\ ~After(r, r[1], r[2])
<1>1. r[1] \in Int /\ r[2] \in Int /\ q[1] \in Int /\ q[2] \in Int
  BY SlotNosIs, MaxPagesAssumption DEF Rids, DataPages
<1> QED
  BY <1>1 DEF After

(* The record that scanNext returns comes after the one that the scan was  *)
(* at, and before all others that match.                                   *)
LEMMA ScanFindsGood ==
  ASSUME GoodInv, ScansSound, NEW s \in Scans, ScanFinds(s)
  PROVE  LET r == FirstOf(Hits(s))
         IN  /\ r \notin seen[s] /\ obj'[s].curRec = r
             /\ ScanGood(Contents, obj'[s], scan[s], todo'[s], seen'[s])
<1> DEFINE r == FirstOf(Hits(s))
           p == obj[s].curPage
           k == obj[s].curRec[2]
           f == scan[s].filter
<1>1. /\ TypeInv /\ s \in Objects /\ Usable(s) /\ Hits(s) # {}
      /\ todo' = [todo EXCEPT ![s] = @ \ {r}] /\ seen' = [seen EXCEPT ![s] = @ \cup {r}]
  BY ObjectsAre DEF GoodInv, ScanFinds
<1>2. /\ Start(s) = <<p, k>> /\ p \in DataPages
      /\ ScanAt(Contents, f, p, k, todo[s], seen[s])
      /\ Rest(s) = {q \in Records : After(q, p, k)}
      /\ Hits(s) = {q \in Records : After(q, p, k) /\ ValueOf(q) \in f}
  BY <1>1, ScanIsAt
<1>3. Hits(s) \subseteq From(p) \X SlotNos /\ Links(page)
  <2>1. Hits(s) \subseteq Rest(s) /\ Links(page) /\ Start(s)[1] = p
    BY <1>1, <1>2 DEF Hits, TypeInv, FileSound
  <2>2. Rest(s) \subseteq From(Start(s)[1]) \X SlotNos
    BY <1>1, ScanFacts
  <2> HIDE DEF p
  <2> QED
    BY <2>1, <2>2
<1>4. r \in Hits(s) /\ \A q \in Hits(s) : q = r \/ Before(r, q)
  <2> HIDE DEF p
  <2> QED
    BY <1>1, <1>2, <1>3, FirstOfIs
<1>5. \A q \in Hits(s) : q = r \/ After(q, r[1], r[2])
  <2> SUFFICES ASSUME NEW q \in Hits(s), Before(r, q) PROVE After(q, r[1], r[2])
    BY <1>4
  <2> HIDE DEF p, r
  <2>1. r \in From(p) \X SlotNos /\ q \in From(p) \X SlotNos /\ Links(page)
    BY <1>3, <1>4
  <2>2. \/ r[1] = q[1] /\ r[2] < q[2]
        \/ r[1] < q[1]
    BY <1>2, <2>1, BeforeIs
  <2> QED
    BY <2>2 DEF After
<1>6. obj'[s] = At(s, r[1], r) /\ At(s, r[1], r).open = TRUE
      /\ At(s, r[1], r).curPage = r[1] /\ At(s, r[1], r).curRec = r
  <2>1. obj' = [obj EXCEPT ![s] = At(s, r[1], r)] /\ obj[s].open = TRUE
    BY <1>1, ScanFindsMoves, MemberIs DEF Usable
  <2> HIDE DEF r
  <2> QED
    BY <1>1, <2>1, AtIs DEF TypeInv, TypeOK
<1>7. todo'[s] = todo[s] \ {r} /\ seen'[s] = seen[s] \cup {r}
  BY <1>1 DEF TypeInv, TypeOK
<1> HIDE DEF r
<1>8. /\ Records \subseteq Rids /\ p \in Int /\ k \in Int /\ r \in Rids
      /\ DOMAIN Contents = Records /\ \A q \in Records : Contents[q] = ValueOf(q)
  <2>1. Records \subseteq Rids
    BY <1>1, RecordFacts DEF TypeInv
  <2>2. obj[s].curRec \in Rids \cup {NullRid}
    BY <1>1, MemberIs DEF Members
  <2>3. k \in Int
    BY <2>2, SlotNosIs DEF Rids, NullRid
  <2> QED
    BY <1>2, <1>4, <2>1, <2>3, MaxPagesAssumption DEF DataPages, Contents
<1> HIDE DEF p, k, f
<1>9. r \notin seen[s]
  BY <1>2, <1>4 DEF ScanAt
<1>10. ScanAt(Contents, f, r[1], r[2], todo'[s], seen'[s])
  <2>1. todo'[s] \subseteq Records /\ seen'[s] \subseteq Records
    BY <1>2, <1>4, <1>7, <1>8 DEF ScanAt
  <2>2. ASSUME NEW q \in todo'[s], Contents[q] \in f PROVE After(q, r[1], r[2])
    <3>1. q \in Records /\ q # r /\ ValueOf(q) \in f /\ After(q, p, k)
      BY <1>2, <1>7, <1>8, <2>1, <2>2 DEF ScanAt
    <3> QED
      BY <1>2, <1>5, <3>1
  <2>3. ASSUME NEW q \in seen'[s] PROVE ~After(q, r[1], r[2])
    <3>1. CASE q = r
      BY <1>8, <3>1, AfterIs
    <3>2. CASE q \in seen[s]
      <4>1. ~After(q, p, k) /\ After(r, p, k) /\ q \in Rids
        BY <1>2, <1>4, <1>8, <3>2 DEF ScanAt
      <4> QED
        BY <1>8, <4>1, AfterIs
    <3> QED
      BY <1>7, <3>1, <3>2
  <2> QED
    BY <1>8, <2>1, <2>2, <2>3 DEF ScanAt
<1>11. r[1] # NoPage
  BY <1>8, SlotNosIs, MaxPagesAssumption DEF Rids, DataPages, NoPage
<1>12. scan[s].mark.pageNo # NoPage =>
         ScanAt(Contents, f, scan[s].mark.pageNo, scan[s].mark.rec[2], scan[s].mark.todo,
                scan[s].mark.seen)
  BY <1>1 DEF ScansSound, ScanGood, Usable, f
<1>13. ScanGood(Contents, obj'[s], scan[s], todo'[s], seen'[s])
  BY <1>6, <1>10, <1>11, <1>12 DEF ScanGood, f
<1> QED
  BY <1>6, <1>9, <1>13 DEF r

(* At the end of a scan no record is left that it had to return.           *)
LEMMA ScanEndsGood ==
  ASSUME GoodInv, ScansSound, NEW s \in Scans, ScanEnds(s)
  PROVE  /\ {r \in todo[s] : ValueOf(r) \in scan[s].filter} = {}
         /\ ScanGood(Contents, obj'[s], scan[s], todo[s], seen[s])
<1> DEFINE p == obj[s].curPage
           k == obj[s].curRec[2]
           f == scan[s].filter
           l == LastFrom(p)
           e == EndRec(s)
<1>1. TypeInv /\ s \in Objects /\ Usable(s)
  BY ObjectsAre DEF GoodInv, ScanEnds
<1>2. /\ HoldsPage(s) /\ ~AtEnd(s) /\ ~FirstIsEmpty(s)
      /\ Start(s) = <<p, k>> /\ Start(s)[1] = p /\ p \in DataPages
      /\ ScanAt(Contents, f, p, k, todo[s], seen[s])
      /\ Rest(s) = {q \in Records : After(q, p, k)}
      /\ Hits(s) = {q \in Records : After(q, p, k) /\ ValueOf(q) \in f}
  BY <1>1, ScanIsAt
<1>3. Hits(s) = {}
  BY <1>2 DEF ScanEnds
<1>4. /\ Records \subseteq Rids /\ p \in Int /\ k \in Int
      /\ DOMAIN Contents = Records /\ \A q \in Records : Contents[q] = ValueOf(q)
      /\ seen[s] \subseteq Records /\ todo[s] \subseteq Records
  <2>1. Records \subseteq Rids
    BY <1>1, RecordFacts DEF TypeInv
  <2>2. obj[s].curRec \in Rids \cup {NullRid}
    BY <1>1, MemberIs DEF Members
  <2>3. k \in Int
    BY <2>2, SlotNosIs DEF Rids, NullRid
  <2> QED
    BY <1>2, <2>1, <2>3, MaxPagesAssumption DEF DataPages, Contents, ScanAt
<1>5. \A q \in todo[s] : ValueOf(q) \notin f
  BY <1>2, <1>3, <1>4 DEF ScanAt
<1>6. obj'[s] = At(s, l, e) /\ At(s, l, e).open = TRUE
      /\ At(s, l, e).curPage = l /\ At(s, l, e).curRec = e
  <2>1. obj' = [obj EXCEPT ![s] = At(s, l, e)]
    <3>1. obj' = [obj EXCEPT ![s] = At(s, LastFrom(Start(s)[1]), EndRec(s))]
      BY <1>1, <1>2, ScanEndsMoves
    <3>2. Start(s)[1] = p
      BY <1>2
    <3> HIDE DEF p
    <3> QED
      BY <3>1, <3>2
  <2>2. obj[s].open = TRUE /\ obj \in [Objects -> Members]
    BY <1>1, MemberIs DEF Usable, TypeInv, TypeOK
  <2> HIDE DEF l, e
  <2> QED
    BY <1>1, <2>1, <2>2, AtIs
<1>7. /\ l \in DataPages /\ l \in Int /\ p <= l
      /\ Hits(s) = {} /\ \A q \in Rest(s) : q[1] <= l
  <2>1. Links(page)
    BY <1>1 DEF TypeInv, FileSound
  <2>2. l \in From(p) /\ \A x \in From(p) : x <= l
    BY <1>2, <2>1, LastFromIs
  <2>3. p \in From(p) /\ From(p) \subseteq DataPages
    BY <1>2, <2>1, FromIsFromIn, FromLeast
  <2>4. \A q \in Rest(s) : q[1] \in From(p)
    BY <1>1, <1>2, ScanFacts
  <2> QED
    BY <1>3, <2>2, <2>3, <2>4, MaxPagesAssumption DEF DataPages
<1>8. /\ Rest(s) = {} => e = obj[s].curRec
      /\ Rest(s) # {} => e \in Rest(s)
  BY <1>1, ScanFacts DEF EndRec
<1> HIDE DEF p, l, f, e
<1>9. ASSUME NEW x \in seen[s] PROVE ~After(x, l, e[2])
  <2>1. x \in Rids /\ ~After(x, p, k) /\ x[1] \in Int /\ x[2] \in Int
    BY <1>2, <1>4, SlotNosIs, MaxPagesAssumption DEF ScanAt, Rids, DataPages
  <2>2. CASE Rest(s) = {}
    <3>1. e[2] = k
      BY <1>8, <2>2 DEF k
    <3> QED
      BY <1>4, <1>7, <2>1, <3>1 DEF After
  <2>3. CASE Rest(s) # {}
    <3>1. e \in Rids /\ After(e, p, k) /\ e[1] <= l
      BY <1>2, <1>4, <1>7, <1>8, <2>3
    <3>2. e[1] \in Int /\ e[2] \in Int
      BY <3>1, SlotNosIs, MaxPagesAssumption DEF Rids, DataPages
    <3> QED
      BY <1>4, <1>7, <2>1, <3>1, <3>2 DEF After
  <2> QED
    BY <2>2, <2>3
<1>10. ScanAt(Contents, f, l, e[2], todo[s], seen[s])
  BY <1>4, <1>5, <1>9 DEF ScanAt
<1>11. scan[s].mark.pageNo # NoPage =>
         ScanAt(Contents, f, scan[s].mark.pageNo, scan[s].mark.rec[2], scan[s].mark.todo,
                scan[s].mark.seen)
  BY <1>1 DEF ScansSound, ScanGood, Usable, f
<1>12. ScanGood(Contents, obj'[s], scan[s], todo[s], seen[s])
  <2>1. l # NoPage
    BY <1>7 DEF DataPages, NoPage
  <2> QED
    BY <1>6, <1>10, <1>11, <2>1 DEF ScanGood, f
<1> QED
  BY <1>5, <1>12 DEF f

(* A scan that starts has every record still to come. *)
LEMMA OpenScanGood ==
  ASSUME GoodInv, NEW s \in Scans, NEW f \in Filters, OpenScan(s, f)
  PROVE  ScanGood(Contents, obj'[s], scan'[s], todo'[s], seen'[s])
<1> DEFINE m == Opened(header.firstPage)
<1>1. /\ s \in Objects /\ TypeInv /\ header.firstPage = 2 /\ 2 \in DataPages
      /\ Records \subseteq Rids
  BY ObjectsAre, FileFacts, RecordFacts DEF GoodInv, TypeInv
<1>2. /\ obj'[s] = m /\ scan'[s] = [filter |-> f, mark |-> NoMark]
      /\ todo'[s] = Records /\ seen'[s] = {}
  BY <1>1 DEF OpenScan, TypeInv, TypeOK
<1>3. m.open /\ m.curPage = 2 /\ m.curRec = <<-1, -1>>
  BY <1>1 DEF Opened, Closed, NullRid
<1>4. \A r \in Records : After(r, 2, -1)
  <2>1. \A r \in Rids : r[1] \in 2 .. MaxPages /\ r[2] \in Nat
    BY SlotNosIs DEF Rids, DataPages
  <2>2. \A r \in Rids : After(r, 2, -1)
    BY <2>1, MaxPagesAssumption DEF After
  <2> QED
    BY <1>1, <2>2
<1>5. ScanAt(Contents, f, 2, -1, Records, {})
  BY <1>4 DEF ScanAt, Contents
<1> HIDE DEF m
<1>6. 2 # NoPage /\ NoMark.pageNo = NoPage
  BY DEF NoPage, NoMark
<1> QED
  BY <1>2, <1>3, <1>5, <1>6 DEF ScanGood

(* Scans stay where they are, or go on, and the records that they have     *)
(* returned and have to return stay on their sides.                        *)
LEMMA ScansSoundStep ==
  ASSUME ReadsSucceed, ScansOnlyOnce, GoodInv, TypeInv', ScansSound, Next
  PROVE  ScansSound'
<1> DEFINE Fine(s) == ScanGood(Contents', obj'[s], scan'[s], todo'[s], seen'[s])
           Goal == \A s \in Scans : Fine(s)
<1>1. /\ TypeInv /\ PinsAreObjects /\ PlacesSound /\ ChainSound
      /\ obj \in [Objects -> Members] /\ Scans \subseteq Objects
      /\ scan \in [Scans -> [filter : SUBSET Values, mark : Marks]]
      /\ todo \in [Scans -> SUBSET Rids] /\ seen \in [Scans -> SUBSET Rids]
      /\ \A s \in Scans : ScanGood(Contents, obj[s], scan[s], todo[s], seen[s])
  BY ObjectsAre DEF GoodInv, TypeInv, TypeOK, ScansSound
<1>2. /\ DOMAIN Contents = Records /\ \A q \in Records : Contents[q] = ValueOf(q)
      /\ Contents' = [q \in Records' |-> ValueOf(q)']
  BY DEF Contents
<1>3. ASSUME NEW s \in Scans, NEW r, Forget(r), NEW h \in BOOLEAN,
             obj' = [obj EXCEPT ![s] = Wrote(s, h)],
             \A q \in Records \ {r} : q \in Records' /\ ValueOf(q)' = ValueOf(q)
      PROVE  Goal
  <2> SUFFICES ASSUME NEW t \in Scans PROVE Fine(t)
    OBVIOUS
  <2>1. /\ obj'[t].open = obj[t].open /\ obj'[t].curPage = obj[t].curPage
        /\ obj'[t].curRec = obj[t].curRec
    BY <1>1, <1>3 DEF Wrote, Members
  <2>2. /\ todo'[t] = todo[t] \ {r} /\ seen'[t] = seen[t] \ {r}
        /\ scan'[t] = [scan[t] EXCEPT !.mark.todo = @ \ {r}, !.mark.seen = @ \ {r}]
    BY <1>3 DEF Forget
  <2>3. /\ scan'[t].filter = scan[t].filter
        /\ scan'[t].mark.pageNo = scan[t].mark.pageNo
        /\ scan'[t].mark.rec = scan[t].mark.rec
        /\ scan'[t].mark.todo = scan[t].mark.todo \ {r}
        /\ scan'[t].mark.seen = scan[t].mark.seen \ {r}
    <3> DEFINE x == scan[t]
    <3>1. x \in [filter : SUBSET Values, mark : Marks] /\ x.mark \in Marks
      BY <1>1
    <3>2. scan'[t] = [x EXCEPT !.mark = [x.mark EXCEPT !.todo = @ \ {r}, !.seen = @ \ {r}]]
      BY <2>2, <3>1 DEF Marks
    <3> HIDE DEF x
    <3>3. LET k == [x.mark EXCEPT !.todo = @ \ {r}, !.seen = @ \ {r}]
          IN  /\ k.pageNo = x.mark.pageNo /\ k.rec = x.mark.rec
              /\ k.todo = x.mark.todo \ {r} /\ k.seen = x.mark.seen \ {r}
      BY <3>1 DEF Marks
    <3> QED
      BY <3>1, <3>2, <3>3 DEF x
  <2>4. \A q \in DOMAIN Contents \ {r} : q \in DOMAIN Contents' /\ Contents'[q] = Contents[q]
    BY <1>2, <1>3
  <2>5. \A f, p, k, td, sn : ScanAt(Contents, f, p, k, td, sn)
                             => ScanAt(Contents', f, p, k, td \ {r}, sn \ {r})
    BY <2>4, ScanAtKept
  <2>6. ScanGood(Contents, obj[t], scan[t], todo[t], seen[t])
    BY <1>1
  <2> QED
    BY <2>1, <2>2, <2>3, <2>5, <2>6 DEF ScanGood
<1>4. ASSUME NEW s \in Scans, DeleteRecord(s) PROVE Goal
  <2>1. Lost(obj[s].curRec)
    BY <1>1, <1>4, DeleteRecordRecords
  <2>2. /\ Forget(obj[s].curRec) /\ obj' = [obj EXCEPT ![s] = Wrote(s, TRUE)]
    BY <1>1, <1>4, DeleteRecordMoves DEF DeleteRecord
  <2> HIDE DEF Goal
  <2> QED
    BY <1>3, <2>1, <2>2 DEF Lost
<1>5. ASSUME NEW s \in Scans, NEW v \in Values, MarkDirty(s, v) PROVE Goal
  <2>1. Changed(obj[s].curRec, v)
    BY <1>1, <1>5, MarkDirtyRecords
  <2>2. /\ Forget(obj[s].curRec) /\ obj' = [obj EXCEPT ![s] = Wrote(s, obj[s].hdrDirty)]
        /\ obj[s].hdrDirty \in BOOLEAN
    BY <1>1, <1>5, MarkDirtyMoves, MemberIs DEF MarkDirty
  <2> HIDE DEF Goal
  <2> QED
    BY <1>3, <2>1, <2>2 DEF Changed
<1>6. ASSUME \A q \in Records : q \in Records' /\ ValueOf(q)' = ValueOf(q),
             NEW s \in Scans, UNCHANGED <<scan[s], todo[s], seen[s]>>,
             obj'[s].open = obj[s].open, obj'[s].curPage = obj[s].curPage,
             obj'[s].curRec = obj[s].curRec
      PROVE  Fine(s)
  <2>1. \A q \in DOMAIN Contents \ {} : q \in DOMAIN Contents' /\ Contents'[q] = Contents[q]
    BY <1>2, <1>6
  <2>2. \A f, p, k, td, sn : ScanAt(Contents, f, p, k, td, sn) => ScanAt(Contents', f, p, k, td, sn)
    <3>1. \A f, p, k, td, sn : ScanAt(Contents, f, p, k, td, sn)
                               => ScanAt(Contents', f, p, k, td \ {}, sn \ {})
      BY <2>1, ScanAtKept
    <3>2. \A td : td \ {} = td
      OBVIOUS
    <3> QED
      BY <3>1, <3>2
  <2>3. ScanGood(Contents, obj[s], scan[s], todo[s], seen[s])
    BY <1>1
  <2> QED
    BY <1>6, <2>2, <2>3 DEF ScanGood
<1>7. ASSUME \A q \in Records : q \in Records' /\ ValueOf(q)' = ValueOf(q),
             UNCHANGED <<scan, todo, seen>>,
             \A s \in Scans : /\ obj'[s].open = obj[s].open /\ obj'[s].curPage = obj[s].curPage
                              /\ obj'[s].curRec = obj[s].curRec
      PROVE  Goal
  BY <1>6, <1>7
<1>8. ASSUME UNCHANGED <<header, page>>, NEW o \in Objects, NEW m, obj' = [obj EXCEPT ![o] = m],
             \A s \in Scans \ {o} : UNCHANGED <<scan[s], todo[s], seen[s]>>,
             o \in Scans => ScanGood(Contents, m, scan'[o], todo'[o], seen'[o])
      PROVE  Goal
  <2>1. Records' = Records /\ \A q : ValueOf(q)' = ValueOf(q)
    BY <1>8 DEF Records, From, OnPage, SlotsOf, ValueOf
  <2>2. Contents' = Contents
    BY <2>1 DEF Contents
  <2>3. \A s \in Scans \ {o} : Fine(s)
    BY <1>1, <1>6, <1>8, <2>1
  <2>4. o \in Scans => Fine(o)
    BY <1>1, <1>8, <2>2
  <2> QED
    BY <2>3, <2>4
<1> HIDE DEF Goal
<1>9. ASSUME NEW o \in Objects \ Scans, NEW m, obj' = [obj EXCEPT ![o] = m],
             UNCHANGED <<header, page, scan, todo, seen>>
      PROVE  Goal
  BY <1>8, <1>9
<1>10. ASSUME NEW o \in Plain, OpenHeapFile(o) PROVE Goal
  BY <1>9, <1>10, ObjectsAre DEF OpenHeapFile
<1>11. ASSUME NEW o \in Plain, NEW r \in Records, GetRecord(o, r) PROVE Goal
  <2>1. obj' = [obj EXCEPT ![o] = At(o, r[1], r)]
    BY <1>1, <1>11, GetRecordMoves
  <2> QED
    BY <1>9, <1>11, <2>1, ObjectsAre DEF GetRecord
<1>12. ASSUME NEW i \in Inserters, OpenInserter(i) PROVE Goal
  BY <1>9, <1>12, ObjectsAre DEF OpenInserter
<1>13. ASSUME NEW o \in Objects, Close(o) PROVE Goal
  <2>1. /\ obj' = [obj EXCEPT ![o] = Closed] /\ UNCHANGED <<header, page>>
        /\ \A s \in Scans : todo'[s] = IF s = o THEN {} ELSE todo[s]
        /\ \A s \in Scans : seen'[s] = IF s = o THEN {} ELSE seen[s]
        /\ \A s \in Scans : scan'[s] = IF s = o THEN [filter |-> Values, mark |-> NoMark] ELSE scan[s]
    BY <1>13 DEF Close
  <2>2. o \in Scans => ScanGood(Contents, Closed, scan'[o], todo'[o], seen'[o])
    BY <2>1, ClosedIs DEF ScanGood
  <2> QED
    BY <1>8, <2>1, <2>2
<1>14. ASSUME NEW s \in Scans, NEW f \in Filters, OpenScan(s, f) PROVE Goal
  <2>1. /\ obj' = [obj EXCEPT ![s] = Opened(header.firstPage)] /\ UNCHANGED <<header, page>>
        /\ \A t \in Scans \ {s} : UNCHANGED <<scan[t], todo[t], seen[t]>>
    BY <1>1, <1>14 DEF OpenScan
  <2>2. ScanGood(Contents, obj'[s], scan'[s], todo'[s], seen'[s])
    BY <1>14, OpenScanGood
  <2>3. obj'[s] = Opened(header.firstPage)
    BY <1>1, <2>1
  <2> QED
    BY <1>1, <1>8, <2>1, <2>2, <2>3
<1>15. ASSUME NEW s \in Scans, ScanFinds(s) PROVE Goal
  <2> DEFINE r == FirstOf(Hits(s))
             m == At(s, r[1], r)
  <2>1. /\ obj' = [obj EXCEPT ![s] = m] /\ UNCHANGED <<header, page, scan>>
        /\ todo' = [todo EXCEPT ![s] = @ \ {r}] /\ seen' = [seen EXCEPT ![s] = @ \cup {r}]
    BY <1>1, <1>15, ScanFindsMoves DEF ScanFinds
  <2>2. ScanGood(Contents, obj'[s], scan[s], todo'[s], seen'[s])
    BY <1>15, ScanFindsGood
  <2> HIDE DEF m, r
  <2>3. obj'[s] = m /\ \A t \in Scans \ {s} : UNCHANGED <<scan[t], todo[t], seen[t]>>
    BY <1>1, <2>1
  <2> QED
    BY <1>1, <1>8, <2>1, <2>2, <2>3
<1>16. ASSUME NEW s \in Scans, ScanEnds(s) PROVE Goal
  <2> DEFINE m == At(s, LastFrom(Start(s)[1]), EndRec(s))
  <2>1. UNCHANGED <<header, page, scan, todo, seen>> /\ Usable(s)
    BY <1>16 DEF ScanEnds
  <2>2. obj' = [obj EXCEPT ![s] = m]
    BY <1>1, <1>16, <2>1, ScanIsAt, ScanEndsMoves
  <2>3. ScanGood(Contents, obj'[s], scan[s], todo[s], seen[s])
    BY <1>16, ScanEndsGood
  <2> HIDE DEF m
  <2>4. obj'[s] = m
    BY <1>1, <2>2
  <2> QED
    BY <1>1, <1>8, <2>1, <2>2, <2>3, <2>4
<1>17. ASSUME NEW s \in Scans, MarkScan(s) PROVE Goal
  <2>1. /\ Usable(s) /\ HoldsPage(s) /\ UNCHANGED <<header, page, obj, todo, seen>>
        /\ scan' = [scan EXCEPT ![s].mark = [pageNo |-> obj[s].curPageNo, rec |-> obj[s].curRec,
                                             todo |-> todo[s], seen |-> seen[s]]]
    BY <1>17 DEF MarkScan
  <2>2. /\ scan'[s].filter = scan[s].filter
        /\ scan'[s].mark.pageNo = obj[s].curPageNo /\ scan'[s].mark.rec = obj[s].curRec
        /\ scan'[s].mark.todo = todo[s] /\ scan'[s].mark.seen = seen[s]
        /\ \A t \in Scans \ {s} : scan'[t] = scan[t]
    BY <1>1, <2>1
  <2>3. obj[s].curPage = obj[s].curPageNo
    BY <1>1, <2>1 DEF PinsAreObjects
  <2>4. ScanGood(Contents, obj[s], scan'[s], todo[s], seen[s])
    BY <1>1, <2>1, <2>2, <2>3 DEF ScanGood, Usable
  <2>5. obj' = [obj EXCEPT ![s] = obj[s]]
    BY <1>1, <2>1
  <2> QED
    BY <1>1, <1>8, <2>1, <2>2, <2>4, <2>5
<1>18. ASSUME NEW s \in Scans, ResetScan(s) PROVE Goal
  <2> DEFINE k == scan[s].mark
             m == At(s, k.pageNo, k.rec)
  <2>1. /\ Usable(s) /\ k.pageNo # NoPage /\ UNCHANGED <<header, page, scan>>
        /\ todo' = [todo EXCEPT ![s] = k.todo] /\ seen' = [seen EXCEPT ![s] = k.seen]
    BY <1>18 DEF ResetScan
  <2>2. obj' = [obj EXCEPT ![s] = m]
    BY <1>1, <1>18, ResetScanMoves
  <2>3. m.open = obj[s].open /\ m.curPage = k.pageNo /\ m.curRec = k.rec
    <3> HIDE DEF k
    <3> QED
      BY <1>1, AtIs
  <2> HIDE DEF m
  <2>4. /\ todo'[s] = k.todo /\ seen'[s] = k.seen
        /\ \A t \in Scans \ {s} : UNCHANGED <<scan[t], todo[t], seen[t]>>
    BY <1>1, <2>1
  <2>5. ScanGood(Contents, m, scan[s], todo'[s], seen'[s])
    BY <1>1, <2>1, <2>3, <2>4 DEF ScanGood, Usable
  <2> QED
    BY <1>1, <1>8, <2>1, <2>2, <2>4, <2>5
<1>19. ASSUME NEW s \in Scans, DeleteAgain(s) PROVE Goal
  <2>1. /\ UNCHANGED <<page, scan, todo, seen>> /\ header' = [header EXCEPT !.recCnt = @ - 1]
        /\ obj' = [obj EXCEPT ![s] = Wrote(s, TRUE)]
    BY <1>1, <1>19, Failing, DeleteAgainMoves
  <2>2. header'.firstPage = header.firstPage
    BY <1>1, <2>1 DEF TypeInv, TypeOK
  <2>3. Records' = Records /\ \A q : ValueOf(q)' = ValueOf(q)
    BY <2>1, <2>2 DEF Records, From, OnPage, SlotsOf, ValueOf
  <2>4. \A t \in Scans : /\ obj'[t].open = obj[t].open /\ obj'[t].curPage = obj[t].curPage
                         /\ obj'[t].curRec = obj[t].curRec
    BY <1>1, <2>1 DEF Wrote, Members
  <2> QED
    BY <1>7, <2>1, <2>3, <2>4
<1>20. ASSUME NEW i \in Inserters, NEW m, obj' = [obj EXCEPT ![i] = m],
              UNCHANGED <<scan, todo, seen>>, Kept \/ \E r, v : Gained(r, v)
       PROVE  Goal
  <2>1. \A q \in Records : q \in Records' /\ ValueOf(q)' = ValueOf(q)
    BY <1>20 DEF Kept, Gained
  <2>2. \A t \in Scans : obj'[t] = obj[t]
    BY <1>1, <1>20, ObjectsAre
  <2> QED
    BY <1>7, <1>20, <2>1, <2>2
<1>21. ASSUME NEW i \in Inserters, NEW v \in Values, InsertHere(i, v) PROVE Goal
  <2>1. obj' = [obj EXCEPT ![i] = Wrote(i, TRUE)] /\ UNCHANGED <<scan, todo, seen>>
    BY <1>1, <1>21, InsertHereMoves DEF InsertHere
  <2>2. \E r : Gained(r, v)
    BY <1>1, <1>21, InsertHereRecords
  <2> QED
    BY <1>20, <2>1, <2>2
<1>22. ASSUME NEW i \in Inserters, NEW v \in Values, InsertBehind(i, v) PROVE Goal
  <2>1. Usable(i) /\ Append(i, [s \in {0} |-> v], TRUE)
    BY <1>22 DEF InsertBehind
  <2>2. obj' = [obj EXCEPT ![i] = Appended(i, TRUE)] /\ UNCHANGED <<scan, todo, seen>>
    BY <1>1, <2>1, AppendMoves DEF Append
  <2>3. Gained(<<numPages, 0>>, v)
    BY <1>1, <1>22, InsertBehindRecords
  <2> QED
    BY <1>20, <2>2, <2>3
<1>23. ASSUME NEW i \in Inserters, InsertLong(i) PROVE Goal
  <2>1. Usable(i) /\ Append(i, [s \in {} |-> 0], obj[i].curDirty) /\ obj[i].curDirty \in BOOLEAN
    BY <1>1, <1>23, Failing, MemberIs, ObjectsAre
  <2>2. obj' = [obj EXCEPT ![i] = Appended(i, obj[i].curDirty)] /\ UNCHANGED <<scan, todo, seen>>
    BY <1>1, <2>1, AppendMoves DEF Append
  <2>3. Kept
    BY <1>1, <1>23, InsertLongRecords
  <2> QED
    BY <1>20, <2>2, <2>3
<1>24. ASSUME NEW i \in Inserters, InsertFails(i) PROVE Goal
  <2>1. UNCHANGED <<header, page, obj, scan, todo, seen>>
    BY <1>24, Failing
  <2>2. obj' = [obj EXCEPT ![i] = obj[i]] /\ i \in Objects \ Scans
    BY <1>1, <2>1, ObjectsAre
  <2> QED
    BY <1>9, <2>1, <2>2
<1>25. Goal
  <2>1. /\ \A o, r : ~GetRecordFails(o, r)
        /\ \A s : ~ScanFails(s) /\ ~ResetFails(s) /\ ~OpenInserterFails(s) /\ ~EndScan(s)
    BY Failing
  <2> QED
    BY <1>4, <1>5, <1>10, <1>11, <1>12, <1>13, <1>14, <1>15, <1>16, <1>17, <1>18, <1>19, <1>21,
       <1>22, <1>23, <1>24, <2>1, Zenon DEF Next, ScanNext, InsertRecord
<1> QED
  BY <1>25 DEF Goal, ScansSound

(* What holds of scans as long as reads succeed and no scan is used again. *)
GoodScans == GoodInv /\ ScansSound

(* No scan has seen anything.                                            *)
LEMMA ScansInit == Init => GoodScans
<1> SUFFICES ASSUME Init PROVE GoodScans
  OBVIOUS
<1>1. \A s \in Scans : ~obj[s].open
  BY ClosedIs, ObjectsAre DEF Init
<1> QED
  BY <1>1, GoodInit DEF GoodScans, ScansSound, ScanGood

(* Every step keeps what scans have seen and have yet to see.            *)
LEMMA GoodScansStep ==
  ASSUME ReadsSucceed, ScansOnlyOnce
  PROVE  GoodScans /\ [Next]_vars => GoodScans'
<1> SUFFICES ASSUME GoodScans, [Next]_vars PROVE GoodScans'
  OBVIOUS
<1>1. GoodInv /\ ScansSound /\ GoodInv' /\ TypeInv'
  BY GoodStep DEF GoodScans, GoodInv
<1>2. CASE UNCHANGED vars
  <2>1. Contents' = Contents
    BY <1>2 DEF vars, Contents, Records, From, OnPage, SlotsOf, ValueOf
  <2> QED
    BY <1>1, <1>2, <2>1 DEF vars, GoodScans, ScansSound
<1>3. CASE Next
  BY <1>1, <1>3, ScansSoundStep DEF GoodScans
<1> QED
  BY <1>2, <1>3

(* As long as reads succeed and no scan is used again after endScan, a     *)
(* scan that has come to its end has returned every record that matches    *)
(* and was there, unchanged, from its start or its mark on, whatever other *)
(* objects have inserted, deleted and changed since.                       *)
THEOREM ScansAreComplete ==
  ASSUME ReadsSucceed, ScansOnlyOnce
  PROVE  Spec => ScanComplete
<1>1. GoodScans /\ [Next]_vars
      => [\A s \in Scans : ScanEnds(s) /\ ~FirstIsEmpty(s) =>
            {r \in todo[s] : ValueOf(r) \in scan[s].filter} = {}]_vars
  BY ScanEndsGood DEF GoodScans
<1> QED
  BY <1>1, ScansInit, GoodScansStep, PTL DEF Spec, ScanComplete

(* Under the same conditions no record is returned twice, unless the scan  *)
(* has been reset to a mark before it.                                     *)
THEOREM ScansReturnOnce ==
  ASSUME ReadsSucceed, ScansOnlyOnce
  PROVE  Spec => ScanOnce
<1>1. GoodScans /\ [Next]_vars
      => [\A s \in Scans : ScanFinds(s) => obj'[s].curRec \notin seen[s]]_vars
  BY ScanFindsGood DEF GoodScans
<1> QED
  BY <1>1, ScansInit, GoodScansStep, PTL DEF Spec, ScanOnce
=============================================================================
