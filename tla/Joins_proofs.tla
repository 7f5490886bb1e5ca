---------------------------- MODULE Joins_proofs ----------------------------
(***************************************************************************)
(* Theorems about joins, for relations, runs and blocks of any size, and   *)
(* any number of calls that fail: how values are compared, how runs are    *)
(* merged, and what is in the result of a join while it goes on.           *)
(***************************************************************************)
EXTENDS Joins, NatLemmas

-----------------------------------------------------------------------------
(* Comparisons.                                                            *)

(* What is compared by its sign, and is not lost by it.                    *)
Exact(t, a, b) == t = "INTEGER" => Wrap(a - b) = a - b

(* A difference that has been wrapped is an int. *)
LEMMA WrapIs ==
  /\ \A n \in Int : Wrap(n) \in Int
  /\ \A a, b \in Ints : Wrap(a - b) = 0 <=> a = b
<1> DEFINE h == Half
<1>1. h \in Nat \ {0}
  <2> DEFINE S == 1 .. WordSize - 1
  <2>1. WordSize - 1 \in Nat /\ IsFiniteSet(S) /\ Cardinality(S) = WordSize - 1
    BY WordAssumption, FS_Interval
  <2>2. IsFiniteSet(SUBSET S) /\ Cardinality(SUBSET S) = Half
    BY <2>1, FS_SUBSET DEF Half
  <2>3. SUBSET S # {}
    OBVIOUS
  <2> QED
    BY <2>2, <2>3, FS_CardinalityType, FS_EmptySet
<1> HIDE DEF h
<1>2. \A n \in Int : Wrap(n) = ((n + h) % (2 * h)) - h
  BY <1>1 DEF Wrap, h
<1>3. \A n \in Int : (n + h) % (2 * h) \in 0 .. 2 * h - 1
  BY <1>1
<1>4. Ints = -h .. h - 1
  BY DEF Ints, h
<1>5. ASSUME NEW a \in Ints, NEW b \in Ints, Wrap(a - b) = 0
      PROVE  a = b
  <2> DEFINE x == a - b + h
  <2>1. a \in Int /\ b \in Int /\ x \in Int /\ x % (2 * h) = h /\ x \in 1 - h .. 3 * h - 1
    BY <1>1, <1>2, <1>4, <1>5
  <2> HIDE DEF x
  <2>2. CASE x \in 0 .. 2 * h - 1
    <3>1. x % (2 * h) = x
      BY <1>1, <2>2
    <3> QED
      BY <1>1, <2>1, <3>1 DEF x
  <2>3. CASE x < 0
    <3>1. x + 2 * h \in 0 .. 2 * h - 1 /\ (x + 2 * h) % (2 * h) = x + 2 * h
      BY <1>1, <2>1, <2>3
    <3>2. (x + 2 * h) % (2 * h) = x % (2 * h)
      BY <1>1, <2>1
    <3> QED
      BY <1>1, <2>1, <2>3, <3>1, <3>2
  <2>4. CASE x >= 2 * h
    <3>1. x - 2 * h \in 0 .. 2 * h - 1 /\ (x - 2 * h) % (2 * h) = x - 2 * h
      BY <1>1, <2>1, <2>4
    <3>2. (x - 2 * h) % (2 * h) = x % (2 * h)
      BY <1>1, <2>1
    <3> QED
      BY <1>1, <2>1, <2>4, <3>1, <3>2
  <2> QED
    BY <2>1, <2>2, <2>3, <2>4, <1>1
<1>6. Wrap(0) = 0
  <2>1. h % (2 * h) = h
    BY <1>1
  <2> QED
    BY <1>1, <1>2, <2>1
<1>7. \A n \in Int : Wrap(n) \in Int
  BY <1>1, <1>2, <1>3
<1>8. \A a \in Ints : a - a = 0
  BY <1>1, <1>4
<1> QED
  BY <1>5, <1>6, <1>7, <1>8

(* Values are compared by the sign of their difference. *)
LEMMA RecCmpIs ==
  ASSUME NEW t \in Types, NEW a \in Int, NEW b \in Int
  PROVE  /\ RecCmp(t, a, b) \in {-1, 0, 1}
         /\ Exact(t, a, b) => RecCmp(t, a, b) = Sign(a - b)
         /\ (t = "INTEGER" => a \in Ints /\ b \in Ints) => (RecCmp(t, a, b) = 0 <=> a = b)
BY WrapIs DEF RecCmp, Sign, Exact

(* What conditions say. *)
LEMMA HoldsIs ==
  ASSUME NEW d
  PROVE  /\ Holds(d, "LT") = (d < 0)  /\ Holds(d, "LTE") = (d <= 0)
         /\ Holds(d, "GT") = (d > 0)  /\ Holds(d, "GTE") = (d >= 0)
         /\ Holds(d, "EQ") = (d = 0)  /\ Holds(d, "NE") = (d # 0)
BY DEF Holds

(* The scan of the inner relation lets through what the condition asks     *)
(* for.                                                                    *)
LEMMA FilterIsCondition ==
  ASSUME NEW t \in Types, NEW op \in Ops, NEW a \in Int, NEW b \in Int,
         t = "INTEGER" => a \in Ints /\ b \in Ints,
         op \notin {"EQ", "NE"} => Exact(t, b, a)
  PROVE  Filtered(t, Flipped(op), b, a) <=> Holds(a - b, op)
<1>1. RecCmp(t, b, a) \in {-1, 0, 1} /\ (RecCmp(t, b, a) = 0 <=> a = b)
  BY RecCmpIs
<1>2. op \notin {"EQ", "NE"} => RecCmp(t, b, a) = Sign(b - a)
  BY RecCmpIs
<1>3. CASE op \in {"EQ", "NE"}
  <2>1. Flipped(op) = op
    BY <1>3 DEF Flipped
  <2>2. Filtered(t, Flipped(op), b, a) = Holds(RecCmp(t, b, a), op)
    BY <2>1 DEF Filtered
  <2> QED
    BY <1>1, <1>3, <2>2, HoldsIs
<1>4. CASE op \notin {"EQ", "NE"}
  <2>1. Filtered(t, Flipped(op), b, a) = Holds(Sign(b - a), Flipped(op))
    BY <1>2, <1>4 DEF Filtered
  <2>2. op \in {"LT", "LTE", "GT", "GTE"}
    BY <1>4 DEF Ops
  <2>3. \/ op = "LT"  /\ Flipped(op) = "GT"
        \/ op = "LTE" /\ Flipped(op) = "GTE"
        \/ op = "GT"  /\ Flipped(op) = "LT"
        \/ op = "GTE" /\ Flipped(op) = "LTE"
    BY <2>2 DEF Flipped
  <2> QED
    BY <2>1, <2>3, HoldsIs DEF Sign
<1> QED
  BY <1>3, <1>4

(* The merge takes for equal what is, and for greater what is.             *)
LEMMA MatchIsComparison ==
  ASSUME NEW t \in Types, NEW a \in Int, NEW b \in Int, Exact(t, a, b),
         t = "FLOAT" => Magnitude(a - b) # 1,
         t = "STRING" => ~(a = b /\ a \in Full),
         NEW m \in MatchRec(t, a, b)
  PROVE  m \in Int /\ (m = 0 <=> a = b) /\ (m > 0 <=> a > b)
<1>1. CASE t = "FLOAT"
  <2> DEFINE d == a - b
  <2>1. m = Sign(d) * (Magnitude(d) \div 2) /\ d \in Int /\ Magnitude(d) # 1
    BY <1>1 DEF MatchRec, Truncated
  <2>2. Magnitude(d) \in Nat /\ (Magnitude(d) \div 2 = 0 <=> d = 0) /\ Magnitude(d) \div 2 \in Nat
    BY <2>1 DEF Magnitude
  <2>3. CASE d > 0
    BY <2>1, <2>2, <2>3 DEF Sign
  <2>4. CASE d < 0
    BY <2>1, <2>2, <2>4 DEF Sign
  <2>5. CASE d = 0
    BY <2>1, <2>2, <2>5 DEF Sign
  <2> QED
    BY <2>1, <2>3, <2>4, <2>5
<1>2. CASE t = "INTEGER"
  BY <1>2 DEF MatchRec, Exact
<1>3. CASE t = "STRING"
  BY <1>3 DEF MatchRec, Sign
<1> QED
  BY <1>1, <1>2, <1>3 DEF Types

(* If differences are exact the order is that of numbers. *)
LEMMA ExactIsOrdered ==
  ASSUME NEW t \in Types, NEW S, S \subseteq Int, \A a, b \in S : Exact(t, a, b)
  PROVE  /\ Ordered(t, S)
         /\ \A a, b \in S : RecCmp(t, a, b) <= 0 <=> a <= b
<1>1. \A a, b \in S : RecCmp(t, a, b) = Sign(a - b)
  BY RecCmpIs
<1> QED
  BY <1>1 DEF Ordered, Sign
-----------------------------------------------------------------------------
(* The smallest of the runs.                                               *)

(* What the loop of next keeps when it comes to run i.                     *)
Better(t, keys, runs, b, i) ==
  IF runs[i].ended THEN b
  ELSE IF b = 0 THEN i
  ELSE IF RecCmp(t, keys[Current(runs[b])], keys[Current(runs[i])]) > 0 THEN i
  ELSE b

(* The recursion that Smallest is defined by has a solution. *)
LEMMA SmallestSolved ==
  ASSUME NEW t, NEW keys, NEW runs, NEW n \in Nat, Len(runs) = n
  PROVE  \E r : /\ r[0] = 0 /\ \A i \in 1 .. n : r[i] = Better(t, keys, runs, r[i - 1], i)
                /\ Smallest(t, keys, runs) = r[n]
<1> DEFINE Next1(b, i) == Better(t, keys, runs, b, i)
           Solves(f, m) == f = [i \in 0 .. m |-> IF i = 0 THEN 0 ELSE Next1(f[i - 1], i)]
           Solved == {m \in Nat : \E f : Solves(f, m)}
<1> HIDE DEF Next1
<1>1. 0 \in Solved
  <2>1. Solves([i \in 0 .. 0 |-> 0], 0)
    OBVIOUS
  <2> QED
    BY <2>1
<1>2. ASSUME NEW m \in Solved PROVE m + 1 \in Solved
  <2>1. PICK f : Solves(f, m)
    OBVIOUS
  <2> DEFINE g == [i \in 0 .. m + 1 |-> IF i = m + 1 THEN Next1(f[m], i) ELSE f[i]]
  <2>2. \A i \in 0 .. m : g[i] = f[i]
    OBVIOUS
  <2>3. ASSUME NEW i \in 0 .. m + 1
        PROVE  g[i] = IF i = 0 THEN 0 ELSE Next1(g[i - 1], i)
    <3>1. CASE i = 0
      <4>1. g[0] = f[0] /\ f[0] = 0
        BY <2>1
      <4> QED
        BY <3>1, <4>1
    <3>2. CASE i \in 1 .. m
      <4>1. i - 1 \in 0 .. m /\ i \in 0 .. m /\ i # 0
        BY <3>2
      <4>2. g[i] = f[i] /\ g[i - 1] = f[i - 1] /\ f[i] = Next1(f[i - 1], i)
        BY <2>1, <2>2, <4>1
      <4> QED
        BY <4>1, <4>2
    <3>3. CASE i = m + 1
      <4>1. i - 1 = m /\ m \in 0 .. m /\ i # 0
        BY <3>3
      <4>2. g[i] = Next1(f[m], i) /\ g[i - 1] = f[m]
        BY <2>2, <3>3, <4>1
      <4> QED
        BY <4>1, <4>2
    <3> QED
      BY <3>1, <3>2, <3>3
  <2>4. g = [i \in 0 .. m + 1 |-> IF i = 0 THEN 0 ELSE Next1(g[i - 1], i)]
    <3> DEFINE h == [i \in 0 .. m + 1 |-> IF i = 0 THEN 0 ELSE Next1(g[i - 1], i)]
    <3>1. \A i \in 0 .. m + 1 : g[i] = h[i]
      BY <2>3
    <3> QED
      BY <3>1
  <2> HIDE DEF g
  <2>5. Solves(g, m + 1)
    BY <2>4
  <2> QED
    BY <2>5
<1>3. n \in Solved
  <2> HIDE DEF Solved
  <2>1. Solved \subseteq Nat
    BY DEF Solved
  <2>2. Solved = Nat
    BY <1>1, <1>2, <2>1, SetInduction
  <2> QED
    BY <2>2
<1> DEFINE best == CHOOSE f : f = [i \in 0 .. Len(runs) |->
                                     IF i = 0 THEN 0
                                     ELSE IF runs[i].ended THEN f[i - 1]
                                     ELSE IF f[i - 1] = 0 THEN i
                                     ELSE IF RecCmp(t, keys[Current(runs[f[i - 1]])],
                                                    keys[Current(runs[i])]) > 0 THEN i
                                     ELSE f[i - 1]]
<1>4. best = [i \in 0 .. n |-> IF i = 0 THEN 0 ELSE Next1(best[i - 1], i)]
  BY <1>3 DEF Next1, Better
<1>5. Smallest(t, keys, runs) = best[n]
  BY DEF Smallest
<1> HIDE DEF best
<1>6. best[0] = 0
  BY <1>4
<1>7. ASSUME NEW i \in 1 .. n PROVE best[i] = Next1(best[i - 1], i)
  <2>1. i \in 0 .. n /\ i # 0
    OBVIOUS
  <2> QED
    BY <1>4, <2>1
<1> QED
  BY <1>5, <1>6, <1>7 DEF Next1

(* An order is one: every value comes with itself, and of two one comes    *)
(* first.                                                                  *)
LEMMA OrderedIs ==
  ASSUME NEW t \in Types, NEW S, S \subseteq Int, Ordered(t, S), NEW a \in S, NEW b \in S
  PROVE  /\ RecCmp(t, a, a) = 0
         /\ RecCmp(t, a, b) > 0 => RecCmp(t, b, a) <= 0
         /\ \A c \in S : RecCmp(t, a, b) <= 0 /\ RecCmp(t, b, c) <= 0 => RecCmp(t, a, c) <= 0
<1>1. \A x, y, z \in S : /\ RecCmp(t, x, y) = -RecCmp(t, y, x)
                         /\ RecCmp(t, x, y) <= 0 /\ RecCmp(t, y, z) <= 0 => RecCmp(t, x, z) <= 0
  BY DEF Ordered
<1>2. \A x, y \in S : RecCmp(t, x, y) \in {-1, 0, 1}
  BY RecCmpIs
<1>3. ASSUME NEW x \in S, NEW y \in S PROVE RecCmp(t, x, y) = -RecCmp(t, y, x)
  BY <1>1
<1>4. RecCmp(t, a, a) = 0
  <2>1. RecCmp(t, a, a) = -RecCmp(t, a, a) /\ RecCmp(t, a, a) \in {-1, 0, 1}
    BY <1>2, <1>3
  <2> QED
    BY <2>1
<1>5. RecCmp(t, a, b) = -RecCmp(t, b, a) /\ RecCmp(t, b, a) \in {-1, 0, 1}
  BY <1>2, <1>3
<1> QED
  BY <1>1, <1>4, <1>5

(* It is a run that has not ended, unless all have, and where comparisons  *)
(* do not contradict each other, no run has a smaller record.              *)
LEMMA SmallestIs ==
  ASSUME NEW t \in Types, NEW keys, NEW runs, NEW n \in Nat, Len(runs) = n,
         NEW S, S \subseteq Int, \A i \in 1 .. n : ~runs[i].ended => keys[Current(runs[i])] \in S,
         NEW k, k = Smallest(t, keys, runs)
  PROVE  \/ k = 0 /\ \A i \in 1 .. n : runs[i].ended
         \/ /\ k \in 1 .. n /\ ~runs[k].ended
            /\ Ordered(t, S) =>
                 \A i \in 1 .. n : ~runs[i].ended =>
                   RecCmp(t, keys[Current(runs[k])], keys[Current(runs[i])]) <= 0
<1> DEFINE key(i) == keys[Current(runs[i])]
           open(i) == ~runs[i].ended
           Right(m, b) == \/ b = 0 /\ \A i \in 1 .. m : ~open(i)
                          \/ /\ b \in 1 .. m /\ open(b)
                             /\ Ordered(t, S) => \A i \in 1 .. m : open(i) => RecCmp(t, key(b), key(i)) <= 0
<1>1. PICK r : /\ r[0] = 0 /\ \A i \in 1 .. n : r[i] = Better(t, keys, runs, r[i - 1], i)
               /\ Smallest(t, keys, runs) = r[n]
  BY SmallestSolved
<1>2. \A i \in 1 .. n : r[i] = IF ~open(i) THEN r[i - 1]
                               ELSE IF r[i - 1] = 0 THEN i
                               ELSE IF RecCmp(t, key(r[i - 1]), key(i)) > 0 THEN i
                               ELSE r[i - 1]
  BY <1>1 DEF Better
<1>3. \A i \in 1 .. n : open(i) => key(i) \in S
  OBVIOUS
<1> HIDE DEF key, open
<1> DEFINE I == {m \in Nat : m <= n => Right(m, r[m])}
<1>4. 0 \in I
  BY <1>1
<1>5. ASSUME NEW m \in I PROVE m + 1 \in I
  <2> SUFFICES ASSUME m + 1 <= n PROVE Right(m + 1, r[m + 1])
    OBVIOUS
  <2> DEFINE b == r[m]
             c == m + 1
  <2>1. Right(m, b) /\ c \in 1 .. n /\ c - 1 = m /\ m \in Nat /\ 1 .. c = 1 .. m \cup {c} /\ c \notin 1 .. m
    OBVIOUS
  <2>2. r[c] = IF ~open(c) THEN b
               ELSE IF b = 0 THEN c
               ELSE IF RecCmp(t, key(b), key(c)) > 0 THEN c
               ELSE b
    BY <1>2, <2>1
  <2> HIDE DEF b, c
  <2> DEFINE new == r[c]
  <2>3. CASE ~open(c)
    <3>1. new = b
      BY <2>2, <2>3
    <3>2. Right(c, b)
      BY <2>1, <2>3
    <3> QED
      BY <3>1, <3>2 DEF c
  <2>4. CASE open(c) /\ b = 0
    <3>1. new = c /\ \A i \in 1 .. m : ~open(i)
      BY <2>1, <2>2, <2>4
    <3>2. key(c) \in S /\ (Ordered(t, S) => RecCmp(t, key(c), key(c)) <= 0)
      <4>1. key(c) \in S
        BY <1>3, <2>1, <2>4
      <4>2. Ordered(t, S) => RecCmp(t, key(c), key(c)) = 0
        BY <4>1, OrderedIs
      <4> QED
        BY <4>1, <4>2
    <3>3. Right(c, c)
      BY <2>1, <2>4, <3>1, <3>2
    <3> QED
      BY <3>1, <3>3 DEF c
  <2>5. CASE open(c) /\ b # 0
    <3>1. b \in 1 .. m /\ open(b) /\ b \in 1 .. n /\ c \in 1 .. n
      BY <2>1, <2>5 DEF c
    <3>2. key(b) \in S /\ key(c) \in S /\ RecCmp(t, key(b), key(c)) \in {-1, 0, 1}
          /\ RecCmp(t, key(c), key(c)) \in {-1, 0, 1} /\ RecCmp(t, key(c), key(b)) \in {-1, 0, 1}
      <4>1. key(b) \in S /\ key(c) \in S
        BY <1>3, <2>5, <3>1
      <4>2. key(b) \in Int /\ key(c) \in Int
        BY <4>1
      <4> QED
        BY <4>1, <4>2, RecCmpIs
    <3>3. CASE RecCmp(t, key(b), key(c)) > 0
      <4>1. new = c
        BY <2>2, <2>5, <3>3
      <4>2. ASSUME Ordered(t, S), NEW i \in 1 .. c, open(i)
            PROVE  RecCmp(t, key(c), key(i)) <= 0
        <5>1. RecCmp(t, key(c), key(c)) <= 0 /\ RecCmp(t, key(c), key(b)) <= 0
          <6>1. key(b) \in S /\ key(c) \in S /\ Ordered(t, S)
            BY <3>2, <4>2
          <6>2. RecCmp(t, key(c), key(c)) = 0
            BY <6>1, OrderedIs
          <6>3. RecCmp(t, key(b), key(c)) > 0 => RecCmp(t, key(c), key(b)) <= 0
            BY <6>1, OrderedIs
          <6> QED
            BY <3>3, <6>2, <6>3
        <5>2. CASE i \in 1 .. m
          <6>1. RecCmp(t, key(b), key(i)) <= 0 /\ key(i) \in S
            BY <1>3, <2>1, <3>1, <4>2, <5>2 DEF c
          <6> QED
            BY <3>2, <4>2, <5>1, <6>1, OrderedIs
        <5> QED
          BY <2>1, <5>1, <5>2
      <4>3. Right(c, c)
        BY <2>1, <2>5, <4>2
      <4> QED
        BY <4>1, <4>3 DEF c
    <3>4. CASE ~(RecCmp(t, key(b), key(c)) > 0)
      <4>1. new = b /\ RecCmp(t, key(b), key(c)) <= 0
        BY <2>2, <2>5, <3>2, <3>4
      <4>2. Right(c, b)
        BY <2>1, <2>5, <3>1, <4>1
      <4> QED
        BY <4>1, <4>2 DEF c
    <3> QED
      BY <3>3, <3>4
  <2> QED
    BY <2>3, <2>4, <2>5
<1>6. Right(n, r[n])
  <2>1. I \subseteq Nat
    OBVIOUS
  <2> HIDE DEF I
  <2>2. I = Nat
    BY <1>4, <1>5, <2>1, SetInduction
  <2>3. n \in I
    BY <2>2
  <2> QED
    BY <2>3 DEF I
<1> QED
  BY <1>1, <1>6 DEF key, open
-----------------------------------------------------------------------------
(* Runs, as they are fetched, returned, marked and gone back in.           *)

(* A run of records of 1..n. *)
RunSet(n) == [recs : Seq(1 .. n), at : Nat, ended : BOOLEAN, valid : BOOLEAN, lost : Nat,
              mark : Nat, markEnded : BOOLEAN, markLost : Nat]
Shape(run, n) ==
  /\ run \in RunSet(n)
  /\ run.at <= Len(run.recs) /\ (run.at = 0 => run.ended)
  /\ run.mark <= Len(run.recs) /\ (run.mark = 0 => run.markEnded)
  /\ run.valid /\ ~run.ended => run.lost = 0

(* Every scan has its page, and had it when it was marked.                 *)
Placed(runs) == \A i \in DOMAIN runs : runs[i].lost = 0 /\ runs[i].markLost = 0

(* The places of a run that are still to be returned, and those that would *)
(* be after going back to the mark.                                        *)
Left(run) ==
  IF ~run.valid THEN Behind(run) + 1 .. Len(run.recs)
  ELSE IF run.ended THEN {} ELSE run.at .. Len(run.recs)
AtMark(run) == IF run.markEnded THEN {} ELSE run.mark .. Len(run.recs)

Remaining(runs)  == UNION {{runs[i].recs[a] : a \in Left(runs[i])} : i \in DOMAIN runs}
MarkedRest(runs) == UNION {{runs[i].recs[a] : a \in AtMark(runs[i])} : i \in DOMAIN runs}

(* No record is in two places. *)
Dealt(runs) ==
  \A i, j \in DOMAIN runs : \A a \in DOMAIN runs[i].recs, b \in DOMAIN runs[j].recs :
    runs[i].recs[a] = runs[j].recs[b] => i = j /\ a = b
GoodRuns(runs, n) ==
  /\ Len(runs) \in Nat /\ DOMAIN runs = 1 .. Len(runs)
  /\ \A i \in DOMAIN runs : Shape(runs[i], n)
  /\ Dealt(runs)

(* Every run is in order. *)
InOrder(keys, runs) ==
  \A i \in DOMAIN runs : \A a, b \in DOMAIN runs[i].recs :
    a <= b => keys[runs[i].recs[a]] <= keys[runs[i].recs[b]]

(* The records of runs are those of other runs. *)
SameRecs(runs, others) ==
  /\ DOMAIN others = DOMAIN runs /\ Len(others) = Len(runs)
  /\ \A i \in DOMAIN runs : others[i].recs = runs[i].recs

(* What is behind a scan. *)
LEMMA BehindIs ==
  ASSUME NEW n \in Nat, NEW run, Shape(run, n)
  PROVE  /\ Behind(run) \in Nat /\ Behind(run) <= Len(run.recs)
         /\ run.lost = 0 => Behind(run) = run.at
<1>1. run.recs \in Seq(1 .. n) /\ run.at \in Nat /\ run.at <= Len(run.recs) /\ Len(run.recs) \in Nat
  BY DEF Shape, RunSet
<1>2. CASE run.lost = 0
  BY <1>1, <1>2 DEF Behind
<1>3. CASE run.lost # 0 /\ run.lost \in DOMAIN run.recs
  BY <1>1, <1>3 DEF Behind
<1>4. CASE run.lost # 0 /\ run.lost \notin DOMAIN run.recs
  BY <1>1, <1>4 DEF Behind
<1> QED
  BY <1>2, <1>3, <1>4

(* A run that has been fetched. *)
LEMMA FetchedIs ==
  ASSUME NEW n \in Nat, NEW run, Shape(run, n)
  PROVE  /\ Shape(Fetched(run), n) /\ Fetched(run).recs = run.recs /\ Fetched(run).valid
         /\ Left(Fetched(run)) = Left(run) /\ AtMark(Fetched(run)) = AtMark(run)
         /\ Fetched(run).markLost = run.markLost /\ (run.lost = 0 => Fetched(run).lost = 0)
         /\ Fetched(run).ended => Left(run) = {}
         /\ ~Fetched(run).ended =>
              /\ Fetched(run).at \in Left(run) /\ Fetched(run).at \in DOMAIN run.recs
              /\ \A a \in Left(run) : Fetched(run).at <= a /\ a \in DOMAIN run.recs
<1>1. /\ run.recs \in Seq(1 .. n) /\ run.at \in Nat /\ run.ended \in BOOLEAN /\ run.valid \in BOOLEAN
      /\ run.mark \in Nat /\ run.markEnded \in BOOLEAN /\ Len(run.recs) \in Nat
      /\ DOMAIN run.recs = 1 .. Len(run.recs)
  BY DEF Shape, RunSet
<1>2. CASE run.valid
  BY <1>1, <1>2 DEF Fetched, Left, Shape
<1> DEFINE behind == Behind(run)
<1>3. behind \in Nat /\ behind <= Len(run.recs)
  BY BehindIs
<1>4. ~run.valid => Left(run) = behind + 1 .. Len(run.recs)
  BY DEF Left
<1>5. ~run.valid => Fetched(run) = IF behind < Len(run.recs)
                                   THEN [run EXCEPT !.at = behind + 1, !.ended = FALSE, !.valid = TRUE, !.lost = 0]
                                   ELSE [run EXCEPT !.ended = TRUE, !.valid = TRUE]
  BY DEF Fetched
<1> HIDE DEF behind
<1>6. CASE ~run.valid /\ behind < Len(run.recs)
  <2> DEFINE at == behind + 1
             f == [run EXCEPT !.at = at, !.ended = FALSE, !.valid = TRUE, !.lost = 0]
  <2>1. Fetched(run) = f
    BY <1>5, <1>6
  <2>2. at \in Nat /\ at \in 1 .. Len(run.recs)
    BY <1>1, <1>3, <1>6
  <2>3. Left(run) = at .. Len(run.recs)
    BY <1>4, <1>6
  <2> HIDE DEF at
  <2>4. /\ f \in RunSet(n) /\ f.at = at /\ f.ended = FALSE /\ f.valid = TRUE /\ f.lost = 0 /\ f.recs = run.recs
        /\ f.mark = run.mark /\ f.markEnded = run.markEnded /\ f.markLost = run.markLost
    <3>1. f \in RunSet(n)
      BY <2>2 DEF Shape, RunSet
    <3> QED
      BY <3>1 DEF Shape, RunSet
  <2> HIDE DEF f
  <2>5. Shape(f, n)
    BY <1>1, <2>2, <2>4 DEF Shape
  <2>6. Left(f) = at .. Len(run.recs)
    BY <2>4 DEF Left
  <2>7. AtMark(f) = AtMark(run)
    BY <2>4 DEF AtMark
  <2> QED
    BY <1>1, <2>1, <2>2, <2>3, <2>4, <2>5, <2>6, <2>7
<1>7. CASE ~run.valid /\ ~(behind < Len(run.recs))
  <2> DEFINE f == [run EXCEPT !.ended = TRUE, !.valid = TRUE]
  <2>1. Fetched(run) = f
    BY <1>5, <1>7
  <2>2. /\ f \in RunSet(n) /\ f.at = run.at /\ f.ended = TRUE /\ f.valid = TRUE /\ f.recs = run.recs
        /\ f.mark = run.mark /\ f.markEnded = run.markEnded /\ f.markLost = run.markLost /\ f.lost = run.lost
    BY <1>1 DEF Shape, RunSet
  <2> HIDE DEF f
  <2>3. Shape(f, n)
    BY <1>1, <2>2 DEF Shape
  <2>4. Left(f) = {} /\ Left(run) = {}
    <3>1. Left(f) = {}
      BY <2>2 DEF Left
    <3>2. Left(run) = {}
      BY <1>1, <1>3, <1>4, <1>7
    <3> QED
      BY <3>1, <3>2
  <2>5. AtMark(f) = AtMark(run)
    BY <2>2 DEF AtMark
  <2> QED
    BY <2>1, <2>2, <2>3, <2>4, <2>5
<1> QED
  BY <1>1, <1>2, <1>6, <1>7

(* A run that its record has been taken from, and its mark. *)
Spent(run) == [run EXCEPT !.valid = FALSE]

TakenFrom(run, new, n) ==
  /\ Shape(new, n) /\ new.recs = run.recs /\ AtMark(new) = AtMark(run)
  /\ Left(new) = Left(run) \ {run.at} /\ run.at \in Left(run)
  /\ new.at = run.at /\ new.ended = run.ended /\ new.lost = 0 /\ new.markLost = run.markLost

(* The record of a run that has been read and is not the end is taken.     *)
LEMMA TakenIs ==
  ASSUME NEW n \in Nat, NEW run, Shape(run, n), run.valid, ~run.ended
  PROVE  TakenFrom(run, Spent(run), n)
<1> DEFINE new == Spent(run)
<1>0. new = [run EXCEPT !.valid = FALSE]
  BY DEF Spent
<1> HIDE DEF new
<1>1. /\ run.recs \in Seq(1 .. n) /\ run.at \in Nat /\ Len(run.recs) \in Nat
      /\ run.at \in 1 .. Len(run.recs)
  BY DEF Shape, RunSet
<1>2. /\ new \in RunSet(n) /\ new.at = run.at /\ new.ended = run.ended /\ new.valid = FALSE
      /\ new.recs = run.recs /\ new.mark = run.mark /\ new.markEnded = run.markEnded
      /\ new.lost = 0 /\ new.markLost = run.markLost /\ Behind(new) = run.at
  <2>1. new \in RunSet(n) /\ run.lost = 0
    BY <1>0 DEF Shape, RunSet
  <2>2. /\ new.at = run.at /\ new.ended = run.ended /\ new.valid = FALSE
        /\ new.recs = run.recs /\ new.mark = run.mark /\ new.markEnded = run.markEnded
        /\ new.lost = 0 /\ new.markLost = run.markLost
    BY <1>0, <2>1 DEF Shape, RunSet
  <2>3. Behind(new) = run.at
    BY <1>1, <2>2 DEF Behind
  <2> QED
    BY <2>1, <2>2, <2>3
<1>3. Left(new) = run.at + 1 .. Len(run.recs) /\ Left(run) = run.at .. Len(run.recs)
  BY <1>2 DEF Left
<1>4. Shape(new, n) /\ AtMark(new) = AtMark(run)
  BY <1>2 DEF Shape, AtMark
<1>5. Left(new) = Left(run) \ {run.at} /\ run.at \in Left(run)
  BY <1>1, <1>3
<1> QED
  BY <1>2, <1>4, <1>5 DEF TakenFrom, new

(* A run that has been marked. *)
LEMMA MarkedIs ==
  ASSUME NEW n \in Nat, NEW run, Shape(run, n)
  PROVE  /\ Shape(Marked(run), n) /\ Marked(run).recs = run.recs /\ Left(Marked(run)) = Left(run)
         /\ AtMark(Marked(run)) = IF run.ended THEN {} ELSE run.at .. Len(run.recs)
         /\ Marked(run).lost = run.lost /\ Marked(run).markLost = run.lost
<1> DEFINE m == Marked(run)
<1>1. /\ m \in RunSet(n) /\ m.at = run.at /\ m.ended = run.ended /\ m.valid = run.valid
      /\ m.recs = run.recs /\ m.mark = run.at /\ m.markEnded = run.ended
      /\ m.lost = run.lost /\ m.markLost = run.lost
  BY DEF Shape, RunSet, Marked
<1>2. Behind(m) = Behind(run)
  BY <1>1 DEF Behind
<1> HIDE DEF m
<1>3. Shape(m, n) /\ Left(m) = Left(run) /\ AtMark(m) = IF run.ended THEN {} ELSE run.at .. Len(run.recs)
  BY <1>1, <1>2 DEF Shape, Left, AtMark
<1> QED
  BY <1>1, <1>3 DEF m

(* A run that is back at its mark. *)
LEMMA ReturnedIs ==
  ASSUME NEW n \in Nat, NEW run, Shape(run, n), NEW b \in Returned(run)
  PROVE  /\ Shape(b, n) /\ b.recs = run.recs /\ AtMark(b) = AtMark(run)
         /\ b.lost = 0 /\ b.markLost = run.markLost
         /\ run.markLost = 0 => Left(b) = AtMark(run)
<1>1. /\ run.recs \in Seq(1 .. n) /\ run.mark \in Nat /\ Len(run.recs) \in Nat
      /\ DOMAIN run.recs = 1 .. Len(run.recs) /\ run.mark <= Len(run.recs) /\ (run.mark = 0 => run.markEnded)
  BY DEF Shape, RunSet
<1>2. PICK at \in 0 .. Len(run.recs), ended \in BOOLEAN :
        /\ b = [run EXCEPT !.at = at, !.ended = ended, !.valid = TRUE, !.lost = 0]
        /\ at = 0 => ended
        /\ run.markLost = 0 => at = run.mark /\ ended = run.markEnded
  <2>1. CASE run.markEnded
    <3>1. b = [run EXCEPT !.at = run.mark, !.ended = TRUE, !.valid = TRUE, !.lost = 0]
      BY <2>1 DEF Returned
    <3> DEFINE mark == run.mark
    <3>2. mark \in 0 .. Len(run.recs)
      BY <1>1
    <3>3. run.markEnded = TRUE
      BY <2>1 DEF Shape, RunSet
    <3> QED
      BY <3>1, <3>2, <3>3
  <2>2. CASE ~run.markEnded
    <3>1. PICK at \in IF run.lost = MarkPage(run) THEN {}
                      ELSE IF run.markLost = 0 THEN {run.mark} ELSE DOMAIN run.recs :
            b = [run EXCEPT !.at = at, !.ended = FALSE, !.valid = TRUE, !.lost = 0]
      BY <2>2 DEF Returned
    <3>2. at \in 1 .. Len(run.recs) /\ (run.markLost = 0 => at = run.mark)
      BY <1>1, <2>2, <3>1
    <3>3. run.markEnded = FALSE
      BY <2>2 DEF Shape, RunSet
    <3>4. at \in 0 .. Len(run.recs) /\ at # 0
      BY <1>1, <3>2
    <3> QED
      BY <3>1, <3>2, <3>3, <3>4
  <2> QED
    BY <2>1, <2>2
<1>3. at \in Nat /\ at <= Len(run.recs)
  BY <1>1
<1>4. /\ b \in RunSet(n) /\ b.at = at /\ b.ended = ended /\ b.valid = TRUE /\ b.lost = 0
      /\ b.recs = run.recs /\ b.mark = run.mark /\ b.markEnded = run.markEnded /\ b.markLost = run.markLost
  <2>1. b \in RunSet(n)
    BY <1>2, <1>3 DEF Shape, RunSet
  <2> QED
    BY <1>2, <2>1 DEF Shape, RunSet
<1>5. Shape(b, n) /\ AtMark(b) = AtMark(run)
  BY <1>1, <1>2, <1>3, <1>4 DEF Shape, AtMark
<1>6. run.markLost = 0 => Left(b) = AtMark(run)
  BY <1>2, <1>4 DEF Left, AtMark
<1> QED
  BY <1>4, <1>5, <1>6

(* A run whose scan has failed. *)
LEMMA LostIs ==
  ASSUME NEW n \in Nat, NEW run, Shape(run, n), ~run.valid, NEW lost \in Lost(run)
  PROVE  Shape(lost, n) /\ lost.recs = run.recs /\ AtMark(lost) = AtMark(run)
<1>1. PICK page \in IF Behind(run) = Len(run.recs) THEN {}
                    ELSE IF run.lost # 0 THEN {1}
                    ELSE IF run.at = 0 THEN {}
                    ELSE {run.at + 1, Len(run.recs) + 1} : lost = [run EXCEPT !.lost = page]
  BY DEF Lost
<1>2. run.at \in Nat /\ Len(run.recs) \in Nat
  BY DEF Shape, RunSet
<1>3. page \in Nat
  BY <1>1, <1>2
<1>4. /\ lost \in RunSet(n) /\ lost.at = run.at /\ lost.ended = run.ended /\ lost.valid = run.valid
      /\ lost.recs = run.recs /\ lost.mark = run.mark /\ lost.markEnded = run.markEnded
  <2>1. lost \in RunSet(n)
    BY <1>1, <1>3 DEF Shape, RunSet
  <2> QED
    BY <1>1, <2>1 DEF Shape, RunSet
<1> QED
  BY <1>4 DEF Shape, AtMark

(* Runs with the same records. *)
LEMMA SameRecsKeep ==
  ASSUME NEW n \in Nat, NEW runs, GoodRuns(runs, n), NEW others, SameRecs(runs, others),
         \A i \in DOMAIN runs : Shape(others[i], n)
  PROVE  /\ GoodRuns(others, n)
         /\ \A keys : InOrder(keys, runs) => InOrder(keys, others)
<1>1. Dealt(others)
  BY DEF GoodRuns, SameRecs, Dealt
<1>2. \A keys : InOrder(keys, runs) => InOrder(keys, others)
  BY DEF SameRecs, InOrder
<1> QED
  BY <1>1, <1>2 DEF GoodRuns, SameRecs

(* A record at a place that is left remains. *)
LEMMA InRemaining ==
  ASSUME NEW runs, NEW i \in DOMAIN runs, NEW a \in Left(runs[i])
  PROVE  runs[i].recs[a] \in Remaining(runs)
BY DEF Remaining

(* Runs that differ in nothing but what is said of them. *)
LEMMA SameRest ==
  ASSUME NEW runs, NEW others, SameRecs(runs, others)
  PROVE  /\ (\A i \in DOMAIN runs : Left(others[i]) = Left(runs[i])) => Remaining(others) = Remaining(runs)
         /\ (\A i \in DOMAIN runs : AtMark(others[i]) = AtMark(runs[i])) => MarkedRest(others) = MarkedRest(runs)
         /\ (\A i \in DOMAIN runs : AtMark(others[i]) = Left(runs[i])) => MarkedRest(others) = Remaining(runs)
         /\ (\A i \in DOMAIN runs : Left(others[i]) = AtMark(runs[i])) => Remaining(others) = MarkedRest(runs)
BY DEF SameRecs, Remaining, MarkedRest

(* What holds of runs that are built one by one. *)
LEMMA BuiltIs ==
  ASSUME NEW n \in Nat, NEW runs, GoodRuns(runs, n), NEW others,
         \E F : others = [i \in DOMAIN runs |-> F[i]],
         \A i \in DOMAIN runs : others[i].recs = runs[i].recs
  PROVE  SameRecs(runs, others)
<1>1. PICK m \in Nat : DOMAIN runs = 1 .. m /\ Len(runs) = m
  BY DEF GoodRuns
<1>2. PICK F : others = [i \in DOMAIN runs |-> F[i]]
  OBVIOUS
<1> DEFINE T == {F[i] : i \in 1 .. m}
<1>3. others \in [1 .. m -> T]
  BY <1>1, <1>2
<1> HIDE DEF T
<1>4. DOMAIN others = 1 .. m /\ Len(others) = m
  <2>1. others \in Seq(T)
    BY <1>3
  <2> QED
    BY <1>3, <2>1
<1> QED
  BY <1>1, <1>4 DEF SameRecs

(* All runs are fetched, or marked. *)
LEMMA AllOfThem ==
  ASSUME NEW n \in Nat, NEW runs, GoodRuns(runs, n)
  PROVE  /\ SameRecs(runs, AllFetched(runs)) /\ GoodRuns(AllFetched(runs), n)
         /\ Remaining(AllFetched(runs)) = Remaining(runs)
         /\ MarkedRest(AllFetched(runs)) = MarkedRest(runs)
         /\ SameRecs(runs, SetMark(runs)) /\ GoodRuns(SetMark(runs), n)
         /\ Remaining(SetMark(runs)) = Remaining(runs)
         /\ Placed(runs) => Placed(AllFetched(runs)) /\ Placed(SetMark(runs))
<1> DEFINE f == AllFetched(runs)
           s == SetMark(runs)
<1>1. \A i \in DOMAIN runs : Shape(runs[i], n)
  BY DEF GoodRuns
<1>2. \A i \in DOMAIN runs : f[i] = Fetched(runs[i]) /\ s[i] = Marked(runs[i])
  BY DEF AllFetched, SetMark
<1>3. \A i \in DOMAIN runs : /\ Shape(f[i], n) /\ f[i].recs = runs[i].recs
                             /\ Left(f[i]) = Left(runs[i]) /\ AtMark(f[i]) = AtMark(runs[i])
                             /\ f[i].markLost = runs[i].markLost /\ (runs[i].lost = 0 => f[i].lost = 0)
  BY <1>1, <1>2, FetchedIs
<1>4. \A i \in DOMAIN runs : /\ Shape(s[i], n) /\ s[i].recs = runs[i].recs /\ Left(s[i]) = Left(runs[i])
                             /\ s[i].lost = runs[i].lost /\ s[i].markLost = runs[i].lost
  BY <1>1, <1>2, MarkedIs
<1>5. SameRecs(runs, f) /\ SameRecs(runs, s)
  <2>1. f = [i \in DOMAIN runs |-> f[i]] /\ s = [i \in DOMAIN runs |-> s[i]]
    BY DEF AllFetched, SetMark
  <2> HIDE DEF f, s
  <2> QED
    BY <1>3, <1>4, <2>1, BuiltIs
<1> HIDE DEF f, s
<1>6. GoodRuns(f, n) /\ GoodRuns(s, n)
  BY <1>3, <1>4, <1>5, SameRecsKeep
<1>7. /\ Remaining(f) = Remaining(runs) /\ MarkedRest(f) = MarkedRest(runs)
      /\ Remaining(s) = Remaining(runs)
  BY <1>3, <1>4, <1>5, SameRest
<1>8. Placed(runs) => Placed(f) /\ Placed(s)
  BY <1>3, <1>4, <1>5 DEF Placed, SameRecs
<1> QED
  BY <1>5, <1>6, <1>7, <1>8 DEF f, s

(* All runs go back to their marks. *)
LEMMA GoneBack ==
  ASSUME NEW n \in Nat, NEW runs, GoodRuns(runs, n), NEW others \in GotoMark(runs)
  PROVE  /\ SameRecs(runs, others) /\ GoodRuns(others, n)
         /\ Placed(runs) => Placed(others) /\ Remaining(others) = MarkedRest(runs)
<1>1. \A i \in DOMAIN runs : Shape(runs[i], n) /\ others[i] \in Returned(runs[i])
  BY DEF GoodRuns, GotoMark
<1>2. \A i \in DOMAIN runs : /\ Shape(others[i], n) /\ others[i].recs = runs[i].recs
                             /\ others[i].lost = 0 /\ others[i].markLost = runs[i].markLost
                             /\ runs[i].markLost = 0 => Left(others[i]) = AtMark(runs[i])
  BY <1>1, ReturnedIs
<1>3. SameRecs(runs, others)
  <2>1. others = [i \in DOMAIN runs |-> others[i]]
    BY DEF GotoMark
  <2> QED
    BY <1>2, <2>1, BuiltIs
<1>4. GoodRuns(others, n)
  BY <1>2, <1>3, SameRecsKeep
<1>5. Placed(runs) => Placed(others)
  BY <1>2, <1>3 DEF Placed, SameRecs
<1>6. Placed(runs) => Remaining(others) = MarkedRest(runs)
  BY <1>2, <1>3, SameRest DEF Placed
<1> QED
  BY <1>3, <1>4, <1>5, <1>6

(* What a failed call of next leaves. *)
LEMMA FailedIs ==
  ASSUME NEW n \in Nat, NEW runs, GoodRuns(runs, n), NEW others \in NextFailed(runs)
  PROVE  SameRecs(runs, others) /\ GoodRuns(others, n) /\ MarkedRest(others) = MarkedRest(runs)
<1>1. \A i \in DOMAIN runs : Shape(runs[i], n)
  BY DEF GoodRuns
<1>2. PICK k \in {k \in DOMAIN runs : ~runs[k].valid} : \E lost \in Lost(runs[k]) :
        others = [i \in DOMAIN runs |-> IF i < k THEN Fetched(runs[i]) ELSE IF i = k THEN lost ELSE runs[i]]
  BY DEF NextFailed
<1>3. PICK lost \in Lost(runs[k]) :
        others = [i \in DOMAIN runs |-> IF i < k THEN Fetched(runs[i]) ELSE IF i = k THEN lost ELSE runs[i]]
  BY <1>2
<1>4. Shape(lost, n) /\ lost.recs = runs[k].recs /\ AtMark(lost) = AtMark(runs[k])
  BY <1>1, LostIs
<1>5. \A i \in DOMAIN runs : /\ Shape(others[i], n) /\ others[i].recs = runs[i].recs
                             /\ AtMark(others[i]) = AtMark(runs[i])
  BY <1>1, <1>3, <1>4, FetchedIs
<1>6. SameRecs(runs, others)
  <2>1. others = [i \in DOMAIN runs |-> others[i]]
    BY <1>3
  <2> QED
    BY <1>5, <2>1, BuiltIs
<1> QED
  BY <1>5, <1>6, SameRecsKeep, SameRest

(* A call of next takes one of the records that remain, the first if runs  *)
(* and comparisons are in order, or none remains.  Marking then leaves     *)
(* that record to come again.                                              *)
NextRight(t, keys, runs, rec, others) ==
  /\ SameRecs(runs, others) /\ GoodRuns(others, Len(keys))
  /\ MarkedRest(others) = MarkedRest(runs)
  /\ MarkedRest(SetMark(others)) = Remaining(runs)
  /\ Placed(runs) => Placed(others)
  /\ rec = 0 => Remaining(runs) = {} /\ Remaining(others) = {}
  /\ rec # 0 =>
       /\ rec \in Remaining(runs) /\ rec \in 1 .. Len(keys)
       /\ Remaining(others) = Remaining(runs) \ {rec}
       /\ (\A a, b \in ToSet(keys) : Exact(t, a, b)) /\ InOrder(keys, runs) =>
            \A r \in Remaining(runs) : keys[rec] <= keys[r]

(* So every call does. *)
LEMMA NextOfIs ==
  ASSUME NEW t \in Types, NEW keys \in Seq(Int), NEW n, n = Len(keys), NEW runs, GoodRuns(runs, n),
         NEW call, call = NextOf(t, keys, runs)
  PROVE  NextRight(t, keys, runs, call.rec, call.runs)
<1> DEFINE f == AllFetched(runs)
           k == Smallest(t, keys, f)
           new == Taken(f, k)
           S == ToSet(keys)
<1>0. n \in Nat /\ S \subseteq Int /\ \A r \in 1 .. n : keys[r] \in S
  BY DEF ToSet
<1>1. call = IF k = 0 THEN [rec |-> 0, runs |-> f] ELSE [rec |-> Current(f[k]), runs |-> new]
  BY DEF NextOf
<1>2. /\ SameRecs(runs, f) /\ GoodRuns(f, n) /\ Remaining(f) = Remaining(runs)
      /\ MarkedRest(f) = MarkedRest(runs) /\ (Placed(runs) => Placed(f))
  BY <1>0, AllOfThem
<1>3. PICK m \in Nat : DOMAIN runs = 1 .. m /\ DOMAIN f = 1 .. m /\ Len(f) = m
  BY <1>2 DEF GoodRuns, SameRecs
<1>4. \A i \in 1 .. m : /\ Shape(runs[i], n) /\ f[i] = Fetched(runs[i])
                        /\ Shape(f[i], n) /\ f[i].recs = runs[i].recs
                        /\ Left(f[i]) = Left(runs[i]) /\ f[i].valid
                        /\ f[i].ended => Left(f[i]) = {}
                        /\ ~f[i].ended => /\ f[i].at \in Left(f[i]) /\ f[i].at \in DOMAIN f[i].recs
                                          /\ \A a \in Left(f[i]) : f[i].at <= a /\ a \in DOMAIN f[i].recs
  <2>1. \A i \in 1 .. m : Shape(runs[i], n) /\ f[i] = Fetched(runs[i])
    BY <1>3 DEF GoodRuns, AllFetched
  <2> QED
    BY <1>0, <2>1, FetchedIs
<1> HIDE DEF f
<1>5. \A i \in 1 .. m : ~f[i].ended => /\ Current(f[i]) \in 1 .. n /\ keys[Current(f[i])] \in S
                                       /\ f[i].at \in 1 .. Len(f[i].recs)
  <2> TAKE i \in 1 .. m
  <2> HAVE ~f[i].ended
  <2>1. f[i].recs \in Seq(1 .. n) /\ f[i].at \in DOMAIN f[i].recs
    BY <1>4 DEF Shape, RunSet
  <2>2. Current(f[i]) \in 1 .. n
    BY <2>1 DEF Current
  <2>3. keys[Current(f[i])] \in S
    <3> HIDE DEF S
    <3> QED
      BY <1>0, <2>2
  <2>4. f[i].at \in 1 .. Len(f[i].recs)
    BY <2>1
  <2> QED
    BY <2>2, <2>3, <2>4
<1>6. \/ k = 0 /\ \A i \in 1 .. m : f[i].ended
      \/ /\ k \in 1 .. m /\ ~f[k].ended
         /\ Ordered(t, S) =>
              \A i \in 1 .. m : ~f[i].ended => RecCmp(t, keys[Current(f[k])], keys[Current(f[i])]) <= 0
  BY <1>0, <1>3, <1>5, SmallestIs
<1>7. CASE k = 0
  <2>1. call.rec = 0 /\ call.runs = f
    BY <1>1, <1>7
  <2>2. \A i \in 1 .. m : f[i].ended /\ Left(f[i]) = {}
    <3>1. \A i \in 1 .. m : f[i].ended
      <4> HIDE DEF k
      <4> QED
        BY <1>6, <1>7
    <3> QED
      BY <1>4, <3>1
  <2>3. Remaining(f) = {}
    BY <1>3, <2>2 DEF Remaining
  <2>4. MarkedRest(SetMark(f)) = {}
    <3>1. \A i \in 1 .. m : AtMark(SetMark(f)[i]) = {}
      <4>1. \A i \in 1 .. m : SetMark(f)[i] = Marked(f[i])
        BY <1>3 DEF SetMark
      <4> QED
        BY <1>0, <1>4, <2>2, <4>1, MarkedIs
    <3>2. DOMAIN SetMark(f) = 1 .. m
      BY <1>3 DEF SetMark
    <3> QED
      BY <3>1, <3>2 DEF MarkedRest
  <2> QED
    BY <1>2, <2>1, <2>3, <2>4 DEF NextRight
<1>8. CASE k # 0
  <2> DEFINE rec == Current(f[k])
  <2>1. call.rec = rec /\ call.runs = new /\ k \in 1 .. m /\ ~f[k].ended /\ rec \in 1 .. n /\ rec # 0
    BY <1>1, <1>5, <1>6, <1>8
  <2>2. /\ DOMAIN new = 1 .. m /\ new[k] = [f[k] EXCEPT !.valid = FALSE]
        /\ \A i \in 1 .. m : i # k => new[i] = f[i]
        /\ new = [i \in DOMAIN f |-> new[i]]
    BY <1>3, <2>1 DEF Taken
  <2> HIDE DEF new, k
  <2>3. /\ Shape(new[k], n) /\ new[k].recs = f[k].recs /\ AtMark(new[k]) = AtMark(f[k])
        /\ Left(new[k]) = Left(f[k]) \ {f[k].at} /\ f[k].at \in Left(f[k])
        /\ new[k].at = f[k].at /\ new[k].ended = f[k].ended
        /\ new[k].lost = 0 /\ new[k].markLost = f[k].markLost
    <3>1. Shape(f[k], n) /\ f[k].valid
      BY <1>4, <2>1
    <3>2. new[k] = [f[k] EXCEPT !.valid = FALSE] /\ ~f[k].ended /\ n \in Nat
      BY <1>0, <2>1, <2>2
    <3> HIDE DEF rec, S
    <3>3. TakenFrom(f[k], Spent(f[k]), n)
      BY <3>1, <3>2, TakenIs
    <3>4. Spent(f[k]) = new[k]
      BY <3>2 DEF Spent
    <3> QED
      BY <3>3, <3>4 DEF TakenFrom
  <2>4. \A i \in 1 .. m : Shape(new[i], n) /\ new[i].recs = f[i].recs /\ AtMark(new[i]) = AtMark(f[i])
    BY <1>4, <2>2, <2>3
  <2>5. SameRecs(f, new) /\ GoodRuns(new, n) /\ MarkedRest(new) = MarkedRest(f)
    <3>1. SameRecs(f, new)
      BY <1>0, <1>2, <1>3, <2>2, <2>4, BuiltIs
    <3> QED
      BY <1>0, <1>2, <1>3, <2>4, <3>1, SameRecsKeep, SameRest
  <2>6. SameRecs(runs, new) /\ (Placed(runs) => Placed(new))
    <3>1. SameRecs(runs, new)
      BY <1>2, <2>5 DEF SameRecs
    <3>2. Placed(f) => Placed(new)
      BY <1>3, <2>2, <2>3 DEF Placed
    <3> QED
      BY <1>2, <3>1, <3>2
  <2>7. MarkedRest(SetMark(new)) = Remaining(f)
    <3>1. \A i \in 1 .. m : AtMark(SetMark(new)[i]) = Left(f[i]) /\ SetMark(new)[i].recs = f[i].recs
      <4> TAKE i \in 1 .. m
      <4>1. SetMark(new)[i] = Marked(new[i])
        BY <2>2 DEF SetMark
      <4>2. AtMark(Marked(new[i])) = IF new[i].ended THEN {} ELSE new[i].at .. Len(new[i].recs)
        BY <1>0, <2>4, MarkedIs
      <4>3. Marked(new[i]).recs = f[i].recs
        BY <1>0, <2>4, MarkedIs
      <4>4. new[i].ended = f[i].ended /\ new[i].at = f[i].at /\ new[i].recs = f[i].recs
        BY <2>2, <2>3
      <4>5. Left(f[i]) = IF f[i].ended THEN {} ELSE f[i].at .. Len(f[i].recs)
        BY <1>4 DEF Left
      <4> QED
        BY <4>1, <4>2, <4>3, <4>4, <4>5
    <3>2. SameRecs(f, SetMark(new))
      BY <1>0, <2>5, AllOfThem DEF SameRecs
    <3> QED
      BY <1>3, <3>1, <3>2, SameRest
  <2>8. rec \in Remaining(f) /\ rec = f[k].recs[f[k].at]
    BY <1>3, <2>1, <2>3 DEF Remaining, Current
  <2>9. Remaining(new) = Remaining(f) \ {rec}
    <3>1. ASSUME NEW i \in 1 .. m, NEW a \in Left(f[i]), f[i].recs[a] = rec
          PROVE  i = k /\ a = f[k].at
      <4>1. a \in DOMAIN f[i].recs /\ f[k].at \in DOMAIN f[k].recs
        BY <1>4, <2>1
      <4>2. Dealt(f)
        BY <1>2 DEF GoodRuns
      <4> QED
        <5>1. f[i].recs[a] = f[k].recs[f[k].at] /\ i \in DOMAIN f /\ k \in DOMAIN f
          BY <1>3, <2>1, <2>8, <3>1
        <5> HIDE DEF rec
        <5> QED
          BY <4>1, <4>2, <5>1 DEF Dealt
    <3>2. \A i \in 1 .. m : Left(new[i]) = IF i = k THEN Left(f[i]) \ {f[k].at} ELSE Left(f[i])
      BY <2>2, <2>3
    <3>3. ASSUME NEW r \in Remaining(f), r # rec PROVE r \in Remaining(new)
      <4>1. PICK i \in 1 .. m : \E a \in Left(f[i]) : r = f[i].recs[a]
        BY <1>3 DEF Remaining
      <4>2. PICK a \in Left(f[i]) : r = f[i].recs[a]
        BY <4>1
      <4>3. a \in Left(new[i]) /\ r = new[i].recs[a]
        BY <2>4, <2>8, <3>2, <3>3, <4>2
      <4> QED
        BY <2>2, <4>3 DEF Remaining
    <3>4. ASSUME NEW r \in Remaining(new) PROVE r \in Remaining(f) /\ r # rec
      <4>1. PICK i \in 1 .. m : \E a \in Left(new[i]) : r = new[i].recs[a]
        BY <2>2 DEF Remaining
      <4>2. PICK a \in Left(new[i]) : r = new[i].recs[a]
        BY <4>1
      <4>3. a \in Left(f[i]) /\ r = f[i].recs[a] /\ (i = k => a # f[k].at)
        BY <2>4, <3>2, <4>2
      <4>4. r \in Remaining(f)
        BY <1>3, <4>3 DEF Remaining
      <4> QED
        BY <3>1, <4>3, <4>4
    <3> QED
      BY <3>3, <3>4
  <2>10. ASSUME \A a, b \in S : Exact(t, a, b), InOrder(keys, runs), NEW r \in Remaining(f)
         PROVE  keys[rec] <= keys[r]
    <3>1. Ordered(t, S) /\ \A a, b \in S : RecCmp(t, a, b) <= 0 <=> a <= b
      BY <1>0, <2>10, ExactIsOrdered
    <3>2. PICK i \in 1 .. m : \E a \in Left(f[i]) : r = f[i].recs[a]
      BY <1>3 DEF Remaining
    <3>3. PICK a \in Left(f[i]) : r = f[i].recs[a]
      BY <3>2
    <3>4. ~f[i].ended /\ f[i].at <= a /\ a \in DOMAIN f[i].recs /\ f[i].at \in DOMAIN f[i].recs
      BY <1>4, <3>3
    <3>5. keys[rec] \in S /\ keys[Current(f[i])] \in S
      BY <1>5, <2>1, <3>4
    <3>6. RecCmp(t, keys[rec], keys[Current(f[i])]) <= 0
      BY <1>6, <1>8, <3>1, <3>4
    <3>7. keys[rec] <= keys[Current(f[i])]
      BY <3>1, <3>5, <3>6
    <3>8. InOrder(keys, f)
      BY <1>2, <2>10 DEF InOrder, SameRecs
    <3>9. keys[Current(f[i])] <= keys[r]
      BY <1>3, <3>3, <3>4, <3>8 DEF InOrder, Current
    <3>10. keys[r] \in Int /\ keys[rec] \in Int /\ keys[Current(f[i])] \in Int
      <4>1. f[i].recs \in Seq(1 .. n)
        BY <1>4 DEF Shape, RunSet
      <4>2. r \in 1 .. n
        BY <3>3, <3>4, <4>1
      <4> QED
        BY <1>0, <3>5, <4>2
    <3> QED
      BY <3>7, <3>9, <3>10
  <2> HIDE DEF rec
  <2> QED
    BY <1>2, <2>1, <2>5, <2>6, <2>7, <2>8, <2>9, <2>10 DEF NextRight
<1> QED
  BY <1>7, <1>8
-----------------------------------------------------------------------------
(* The runs that a sort makes.                                             *)

(* A piece of the file that is sorted has every record of the piece once,  *)
(* and is in order if comparisons are.                                     *)
PieceSorted(t, keys, n, from, k, p) ==
  /\ p \in Seq(1 .. n) /\ DOMAIN p = 1 .. k /\ Len(p) = k
  /\ \A i \in 1 .. k : p[i] \in from + 1 .. from + k
  /\ \A r \in from + 1 .. from + k : \E i \in 1 .. k : p[i] = r
  /\ \A i, j \in 1 .. k : p[i] = p[j] => i = j
  /\ (\A a, b \in ToSet(keys) : Exact(t, a, b)) =>
       \A i, j \in 1 .. k : i <= j => keys[p[i]] <= keys[p[j]]

(* What sorts a piece does so. *)
LEMMA SortedIs ==
  ASSUME NEW t \in Types, NEW keys \in Seq(Int), NEW n, n = Len(keys),
         NEW from \in Nat, NEW k \in Nat, from + k <= n,
         NEW recs, DOMAIN recs = 1 .. k, \A i \in 1 .. k : recs[i] = from + i, NEW p \in Sorted(t, keys, recs)
  PROVE  PieceSorted(t, keys, n, from, k, p)
<1> DEFINE R == from + 1 .. from + k
           S == ToSet(keys)
<1>0. n \in Nat /\ S \subseteq Int /\ (\A r \in 1 .. n : keys[r] \in S) /\ R \subseteq 1 .. n
  BY DEF ToSet
<1>1. DOMAIN recs = 1 .. k /\ ToSet(recs) = R
  <2>1. \A r \in R : r - from \in 1 .. k /\ recs[r - from] = r
    OBVIOUS
  <2>2. \A i \in 1 .. k : recs[i] \in R
    OBVIOUS
  <2>3. DOMAIN recs = 1 .. k
    OBVIOUS
  <2> QED
    BY <2>1, <2>2, <2>3 DEF ToSet
<1>2. /\ p \in [1 .. k -> R] /\ ToSet(p) = R
      /\ Ordered(t, {keys[r] : r \in R}) =>
           \A i \in 1 .. k : i > 1 => RecCmp(t, keys[p[i - 1]], keys[p[i]]) <= 0
  BY <1>1 DEF Sorted
<1>3. \A r \in R : \E i \in 1 .. k : p[i] = r
  BY <1>2 DEF ToSet
<1>4. \A i, j \in 1 .. k : p[i] = p[j] => i = j
  <2>1. p \in Surjection(1 .. k, R)
    BY <1>2, <1>3 DEF Surjection
  <2>2. IsFiniteSet(1 .. k) /\ Cardinality(1 .. k) = k /\ Cardinality(R) = k
    <3>1. IsFiniteSet(1 .. k) /\ Cardinality(1 .. k) = IF 1 > k THEN 0 ELSE k - 1 + 1
      BY FS_Interval
    <3>2. from + 1 \in Int /\ from + k \in Int
      OBVIOUS
    <3>3. Cardinality(R) = IF from + 1 > from + k THEN 0 ELSE (from + k) - (from + 1) + 1
      BY <3>2, FS_Interval
    <3> QED
      BY <3>1, <3>3
  <2> HIDE DEF R
  <2>3. p \in Injection(1 .. k, R)
    BY <2>1, <2>2, FS_SurjSameCardinalityImpliesInj
  <2> QED
    BY <1>2, <2>3 DEF Injection, IsInjective
<1>5. p \in Seq(1 .. n) /\ DOMAIN p = 1 .. k /\ Len(p) = k
  <2>1. p \in [1 .. k -> 1 .. n]
    BY <1>0, <1>2
  <2>2. p \in Seq(1 .. n)
    BY <2>1
  <2> QED
    BY <2>1, <2>2
<1>6. ASSUME \A a, b \in S : Exact(t, a, b)
      PROVE  \A i, j \in 1 .. k : i <= j => keys[p[i]] <= keys[p[j]]
  <2> DEFINE T == {keys[r] : r \in R}
             v(i) == keys[p[i]]
  <2>1. T \subseteq Int /\ \A a, b \in T : Exact(t, a, b)
    BY <1>0, <1>6
  <2>2. Ordered(t, T) /\ \A a, b \in T : RecCmp(t, a, b) <= 0 <=> a <= b
    <3> HIDE DEF T
    <3> QED
      BY <2>1, ExactIsOrdered
  <2>3. \A i \in 1 .. k : v(i) \in T /\ v(i) \in Int
    BY <1>2, <2>1
  <2>4. \A i \in 1 .. k : i > 1 => v(i - 1) <= v(i)
    <3> SUFFICES ASSUME NEW i \in 1 .. k, i > 1 PROVE v(i - 1) <= v(i)
      OBVIOUS
    <3>1. i - 1 \in 1 .. k
      OBVIOUS
    <3>2. RecCmp(t, v(i - 1), v(i)) <= 0
      BY <1>2, <2>2
    <3> HIDE DEF v, T
    <3> QED
      BY <2>2, <2>3, <3>1, <3>2
  <2> HIDE DEF v
  <2> DEFINE I == {d \in Nat : \A i \in 1 .. k : i + d <= k => v(i) <= v(i + d)}
  <2>5. 0 \in I
    <3>1. \A i \in 1 .. k : i + 0 = i /\ v(i) <= v(i)
      BY <2>3
    <3> QED
      BY <3>1
  <2>6. ASSUME NEW d \in I PROVE d + 1 \in I
    <3> SUFFICES ASSUME NEW i \in 1 .. k, i + (d + 1) <= k PROVE v(i) <= v(i + (d + 1))
      OBVIOUS
    <3>1. i + d \in 1 .. k /\ i + (d + 1) \in 1 .. k /\ (i + (d + 1)) - 1 = i + d /\ i + (d + 1) > 1
      OBVIOUS
    <3>2. v(i) <= v(i + d)
      BY <3>1
    <3>3. v(i + d) <= v(i + (d + 1))
      BY <2>4, <3>1
    <3> QED
      BY <2>3, <3>1, <3>2, <3>3
  <2>7. I = Nat
    <3>1. I \subseteq Nat
      OBVIOUS
    <3> HIDE DEF I
    <3> QED
      BY <2>5, <2>6, <3>1, SetInduction
  <2> SUFFICES ASSUME NEW i \in 1 .. k, NEW j \in 1 .. k, i <= j PROVE v(i) <= v(j)
    BY DEF v
  <2> DEFINE d == j - i
  <2>8. d \in Nat /\ i + d = j /\ i + d <= k
    OBVIOUS
  <2>9. d \in I
    BY <2>7, <2>8
  <2>10. \A i1 \in 1 .. k : i1 + d <= k => v(i1) <= v(i1 + d)
    BY <2>9
  <2> HIDE DEF d, I
  <2> QED
    BY <2>8, <2>10
<1> QED
  BY <1>2, <1>3, <1>4, <1>5, <1>6 DEF PieceSorted

(* The runs have every record once, and none has been returned; they are   *)
(* in order if comparisons are.                                            *)
LEMMA RunsOfIs ==
  ASSUME type \in Types, NEW keys \in Seq(Int), NEW n, n = Len(keys), NEW runs \in RunsOf(keys)
  PROVE  /\ GoodRuns(runs, n) /\ Remaining(runs) = 1 .. n /\ Placed(runs)
         /\ (\A a, b \in ToSet(keys) : Exact(type, a, b)) => InOrder(keys, runs)
<1> DEFINE M == MaxItems
           N == (n + M - 1) \div M
           from(i) == (i - 1) * M
           size(i) == IF from(i) + M < n THEN M ELSE n - from(i)
           chunk(i) == Sorted(type, keys, Chunk(keys, (i - 1) * M, M))
<1>0. M \in Nat \ {0} /\ n \in Nat
  BY ItemsAssumption
<1>1. /\ N \in Nat /\ \A i \in 1 .. N : from(i) \in Nat /\ from(i) < n
      /\ \A i, j \in Nat \ {0} : i < j => from(i) + M <= from(j)
      /\ \A r \in 1 .. n : \E i \in 1 .. N : from(i) < r /\ r <= from(i) + M
  BY <1>0, Pieces
<1>2. PICK c \in [1 .. N -> UNION {chunk(i) : i \in 1 .. N}] :
        (\A i \in 1 .. N : c[i] \in chunk(i)) /\ runs = [i \in 1 .. N |-> NewRun(c[i])]
  BY DEF RunsOf
<1> HIDE DEF N
<1>3. ASSUME NEW i \in 1 .. N
      PROVE  /\ from(i) \in Nat /\ size(i) \in Nat /\ from(i) + size(i) <= n /\ size(i) <= M
             /\ (size(i) = M \/ from(i) + size(i) = n)
             /\ Chunk(keys, from(i), M) = [a \in 1 .. size(i) |-> from(i) + a]
  <2> DEFINE f == from(i)
             s == IF f + M < n THEN M ELSE n - f
  <2>1. f \in Nat /\ f < n
    BY <1>1
  <2> HIDE DEF f
  <2>2. s \in Nat /\ f + s <= n /\ s <= M /\ (s = M \/ f + s = n)
    BY <1>0, <2>1
  <2>3. Chunk(keys, f, M) = [a \in 1 .. s |-> f + a]
    <3>1. (IF f + M < n THEN f + M ELSE n) - f = s
      BY <1>0, <2>1
    <3> QED
      BY <3>1 DEF Chunk
  <2> QED
    BY <2>1, <2>2, <2>3 DEF f
<1> HIDE DEF from, size
<1>4. ASSUME NEW i \in 1 .. N
      PROVE  /\ c[i] \in Seq(1 .. n) /\ DOMAIN c[i] = 1 .. size(i) /\ Len(c[i]) = size(i)
             /\ \A a \in 1 .. size(i) : c[i][a] \in from(i) + 1 .. from(i) + size(i)
             /\ \A r \in from(i) + 1 .. from(i) + size(i) : \E a \in 1 .. size(i) : c[i][a] = r
             /\ \A a, b \in 1 .. size(i) : c[i][a] = c[i][b] => a = b
             /\ (\A a, b \in ToSet(keys) : Exact(type, a, b)) =>
                  \A a, b \in 1 .. size(i) : a <= b => keys[c[i][a]] <= keys[c[i][b]]
  <2>1. c[i] \in Sorted(type, keys, Chunk(keys, from(i), M))
    BY <1>2 DEF from
  <2> DEFINE f == from(i)
             s == size(i)
             p == c[i]
             recs == Chunk(keys, f, M)
  <2>2. f \in Nat /\ s \in Nat /\ f + s <= n /\ p \in Sorted(type, keys, recs)
        /\ DOMAIN recs = 1 .. s /\ \A a \in 1 .. s : recs[a] = f + a
    BY <1>3, <2>1
  <2> HIDE DEF chunk, M, f, s, p, recs
  <2>3. PieceSorted(type, keys, n, f, s, p)
    BY <2>2, SortedIs
  <2> QED
    BY <2>3 DEF f, s, p, PieceSorted
<1>5. \A i \in 1 .. N : /\ runs[i] = NewRun(c[i]) /\ runs[i].recs = c[i] /\ Left(runs[i]) = 1 .. size(i)
                        /\ runs[i].lost = 0 /\ runs[i].markLost = 0
  <2> TAKE i \in 1 .. N
  <2>1. runs[i] = NewRun(c[i])
    BY <1>2
  <2>2. /\ runs[i].recs = c[i] /\ runs[i].at = 0 /\ runs[i].valid = FALSE
        /\ runs[i].lost = 0 /\ runs[i].markLost = 0 /\ Behind(runs[i]) = 0
    BY <2>1 DEF NewRun, Behind
  <2>3. Left(runs[i]) = 0 + 1 .. Len(c[i])
    BY <2>2 DEF Left
  <2> QED
    BY <1>4, <2>1, <2>2, <2>3
<1>6. DOMAIN runs = 1 .. N /\ Len(runs) = N
  <2> DEFINE T == {NewRun(c[i]) : i \in 1 .. N}
  <2>1. runs \in [1 .. N -> T]
    BY <1>2
  <2> HIDE DEF T
  <2>2. runs \in Seq(T)
    BY <1>1, <2>1
  <2> QED
    BY <1>1, <2>1, <2>2
<1>7. \A i \in 1 .. N : Shape(runs[i], n)
  <2> TAKE i \in 1 .. N
  <2>1. NewRun(c[i]) \in RunSet(n)
    BY <1>4 DEF NewRun, RunSet
  <2>2. /\ NewRun(c[i]).recs = c[i] /\ NewRun(c[i]).at = 0 /\ NewRun(c[i]).ended = TRUE
        /\ NewRun(c[i]).mark = 0 /\ NewRun(c[i]).markEnded = TRUE /\ NewRun(c[i]).lost = 0
    BY DEF NewRun
  <2>3. Len(c[i]) \in Nat
    BY <1>4
  <2> QED
    BY <1>5, <2>1, <2>2, <2>3 DEF Shape
<1>8. Dealt(runs)
  <2> SUFFICES ASSUME NEW i \in 1 .. N, NEW j \in 1 .. N,
                      NEW a \in DOMAIN runs[i].recs, NEW b \in DOMAIN runs[j].recs,
                      runs[i].recs[a] = runs[j].recs[b]
               PROVE  i = j /\ a = b
    BY <1>6 DEF Dealt
  <2>1. a \in 1 .. size(i) /\ b \in 1 .. size(j) /\ c[i][a] = c[j][b]
    <3>1. runs[i].recs = c[i] /\ runs[j].recs = c[j]
      BY <1>5
    <3>2. DOMAIN c[i] = 1 .. size(i) /\ DOMAIN c[j] = 1 .. size(j)
      BY <1>4
    <3> QED
      BY <3>1, <3>2
  <2>2. c[i][a] \in from(i) + 1 .. from(i) + size(i) /\ c[j][b] \in from(j) + 1 .. from(j) + size(j)
    BY <1>4, <2>1
  <2>3. /\ from(i) \in Nat /\ size(i) \in Nat /\ size(i) <= M
        /\ from(j) \in Nat /\ size(j) \in Nat /\ size(j) <= M
    BY <1>3
  <2>4. ~(i < j) /\ ~(j < i)
    <3>1. i < j => from(i) + M <= from(j)
      BY <1>1
    <3>2. j < i => from(j) + M <= from(i)
      BY <1>1
    <3> DEFINE x == c[i][a]
               fi == from(i)
               fj == from(j)
    <3>3. x \in fi + 1 .. fi + size(i) /\ x \in fj + 1 .. fj + size(j)
      BY <2>1, <2>2
    <3>4. fi + M <= fj => FALSE
      <4> HIDE DEF x, fi, fj, M
      <4> QED
        BY <1>0, <2>3, <3>3 DEF fi, fj
    <3>5. fj + M <= fi => FALSE
      <4> HIDE DEF x, fi, fj, M
      <4> QED
        BY <1>0, <2>3, <3>3 DEF fi, fj
    <3> QED
      BY <3>1, <3>2, <3>4, <3>5
  <2>5. i = j
    BY <2>4
  <2> QED
    BY <1>4, <2>1, <2>5
<1>9. Remaining(runs) = 1 .. n
  <2>1. ASSUME NEW r \in Remaining(runs) PROVE r \in 1 .. n
    <3>1. PICK i \in 1 .. N : \E a \in Left(runs[i]) : r = runs[i].recs[a]
      BY <1>6 DEF Remaining
    <3>2. PICK a \in 1 .. size(i) : r = c[i][a]
      BY <1>5, <3>1
    <3> QED
      BY <1>4, <3>2
  <2>2. ASSUME NEW r \in 1 .. n PROVE r \in Remaining(runs)
    <3>1. PICK i \in 1 .. N : from(i) < r /\ r <= from(i) + M
      BY <1>1
    <3>2. r \in from(i) + 1 .. from(i) + size(i)
      BY <1>0, <1>3, <3>1
    <3>3. PICK a \in 1 .. size(i) : c[i][a] = r
      BY <1>4, <3>2
    <3>4. i \in DOMAIN runs /\ a \in Left(runs[i]) /\ r = runs[i].recs[a]
      BY <1>5, <1>6, <3>3
    <3> QED
      BY <3>4, InRemaining
  <2> QED
    BY <2>1, <2>2
<1>10. ASSUME \A a, b \in ToSet(keys) : Exact(type, a, b) PROVE InOrder(keys, runs)
  <2> SUFFICES ASSUME NEW i \in 1 .. N, NEW a \in DOMAIN runs[i].recs, NEW b \in DOMAIN runs[i].recs, a <= b
               PROVE  keys[runs[i].recs[a]] <= keys[runs[i].recs[b]]
    BY <1>6 DEF InOrder
  <2>1. runs[i].recs = c[i] /\ DOMAIN c[i] = 1 .. size(i)
    BY <1>4, <1>5
  <2>2. a \in 1 .. size(i) /\ b \in 1 .. size(i)
    BY <2>1
  <2> QED
    BY <1>4, <1>10, <2>1, <2>2
<1>11. Placed(runs)
  BY <1>5, <1>6 DEF Placed
<1> QED
  BY <1>1, <1>6, <1>7, <1>8, <1>9, <1>10, <1>11 DEF GoodRuns
-----------------------------------------------------------------------------
(* What holds throughout a join.                                           *)

Outers == 1 .. Len(outer)
Inners == 1 .. Len(inner)

(* What is done in the three joins. *)
Places(algorithm) ==
  CASE algorithm = "NL" -> {"outer", "inner"}
    [] algorithm = "SM" -> {"sortOuter", "sortInner", "nextOuter", "skip", "emit"}
    [] algorithm = "HJ" -> {"fill", "probe"}
Merging == pc \in {"nextOuter", "skip", "emit"}

JTypes ==
  /\ query \in Queries
  /\ pc \in Places(Algorithm(query)) \cup {"done", "dead"}
  /\ outerRec \in 0 .. Len(outer) /\ innerRec \in 0 .. Len(inner)
  /\ pc \in {"inner", "skip", "emit"} => outerRec # 0
  /\ pc = "emit" => innerRec # 0
  /\ result \in [Outers \X Inners -> Nat]
  /\ troubles \in Nat

(* The hash table has outer tuples that have been read, in their buckets;  *)
(* when the outer relation is said to have ended it has, if no call has    *)
(* failed.                                                                 *)
TableRight ==
  /\ Algorithm(query) # "HJ" => table = {} /\ ~endOfOuter
  /\ \A e \in table : \E i \in 1 .. outerRec :
       \E h \in Hashes(type, outer[i], TableSize) : e = <<h, i>>
  /\ pc = "fill" => ~endOfOuter
  /\ endOfOuter /\ troubles = 0 => outerRec = Len(outer)
InTable(i) == \E e \in table : e[2] = i

(* The runs of a merge are what is left of the two relations; the tuples   *)
(* in hand have been taken out of them.                                    *)
RunsRight ==
  /\ pc \in {"sortOuter", "sortInner"} => outerRec = 0
  /\ pc = "sortInner" => Remaining(sorted1) = Outers
  /\ pc = "sortInner" \/ Merging => GoodRuns(sorted1, Len(outer))
  /\ Merging => GoodRuns(sorted2, Len(inner)) /\ outerRec \notin Remaining(sorted1)
  /\ pc = "emit" => innerRec \notin Remaining(sorted2)

(* The pairs that the join has still to come to. *)
Ahead(i, j) ==
  \/ pc = "outer" /\ i > outerRec
  \/ pc = "inner" /\ (i > outerRec \/ (i = outerRec /\ j > innerRec))
  \/ pc = "fill"  /\ (i > outerRec \/ InTable(i))
  \/ pc = "probe" /\ (i > outerRec \/ (InTable(i) /\ j > innerRec))
  \/ pc \in {"sortOuter", "sortInner"}
  \/ pc = "nextOuter" /\ i \in Remaining(sorted1)
  \/ pc = "skip" /\ (i \in Remaining(sorted1) \/ i = outerRec)
  \/ pc = "emit" /\ (i \in Remaining(sorted1) \/ (i = outerRec /\ (j = innerRec \/ j \in Remaining(sorted2))))

(* They are not in the result. *)
Fresh == Faithful => \A i \in Outers, j \in Inners : Ahead(i, j) => result[<<i, j>>] = 0

(* Of those it has come to it has all that match, if no call has failed.   *)
Undisturbed == Faithful /\ troubles = 0
AllFound ==
  Undisturbed /\ pc # "dead" /\ (pc = "done" => status = "OK") =>
    \A i \in Outers, j \in Inners : Joined(<<i, j>>) /\ ~Ahead(i, j) => result[<<i, j>>] = 1

(* The order of a merge that no failed call has disturbed: outer tuples    *)
(* come in order, and the inner ones that a step back would not come to    *)
(* are smaller than the outer tuple.                                       *)
InMerge ==
  Undisturbed =>
    /\ pc = "sortInner" \/ Merging => InOrder(outer, sorted1)
    /\ Merging => InOrder(inner, sorted2)
    /\ Merging /\ outerRec # 0 => \A i \in Remaining(sorted1) : outer[outerRec] <= outer[i]
    /\ pc = "nextOuter" /\ outerRec = 0 => Remaining(sorted2) = Inners
    /\ (pc = "nextOuter" /\ outerRec # 0) \/ pc = "emit" =>
         \A j \in Inners \ MarkedRest(sorted2) : inner[j] < outer[outerRec]
    /\ pc = "skip" => \A j \in Inners \ Remaining(sorted2) : inner[j] < outer[outerRec]
    /\ pc = "emit" => /\ outer[outerRec] <= inner[innerRec]
                      /\ \A j \in Remaining(sorted2) : inner[innerRec] <= inner[j]

(* What is said of the pairs as long as gotoMark has not failed.           *)
NoneInvented ==
  Faithful => \A pair \in DOMAIN result : result[pair] <= (IF Joined(pair) THEN 1 ELSE 0)

JInv == JTypes /\ TableRight /\ RunsRight /\ NoneInvented /\ Fresh /\ AllFound /\ InMerge

(* If no call has failed, no scan of the inner runs is without a page.     *)
InPlace == Merging /\ troubles = 0 => Placed(sorted2)

JoinInv == (astray /\ troubles \in Nat \ {0}) \/ (JInv /\ InPlace)

(* A query, as it is assumed to be. *)
LEMMA QueryIs ==
  ASSUME JTypes
  PROVE  /\ type \in Types /\ query.op \in Ops /\ query.block \in Nat
         /\ outer \in Seq(Int) /\ inner \in Seq(Int)
         /\ Len(outer) \in Nat /\ Len(inner) \in Nat /\ DOMAIN outer = Outers /\ DOMAIN inner = Inners
         /\ \A i \in Outers : outer[i] \in Int /\ outer[i] \in Values /\ outer[i] \in ToSet(outer)
         /\ \A j \in Inners : inner[j] \in Int /\ inner[j] \in Values /\ inner[j] \in ToSet(inner)
         /\ type = "INTEGER" => /\ \A i \in Outers : outer[i] \in Ints
                                /\ \A j \in Inners : inner[j] \in Ints
         /\ Algorithm(query) \in {"NL", "SM", "HJ"} /\ (Algorithm(query) = "HJ" => query.op = "EQ")
<1>1. /\ query \in Queries /\ query.method \in {"NL", "SM", "HJ"} /\ type \in Types /\ query.op \in Ops
      /\ outer \in Seq(Int) /\ inner \in Seq(Int) /\ query.block \in Nat
      /\ type = "INTEGER" => outer \in Seq(Ints) /\ inner \in Seq(Ints)
  BY QueriesAssumption DEF JTypes, type, outer, inner
<1>2. /\ Len(outer) \in Nat /\ Len(inner) \in Nat /\ DOMAIN outer = Outers /\ DOMAIN inner = Inners
  BY <1>1 DEF Outers, Inners
<1>3. /\ \A i \in Outers : outer[i] \in Int /\ outer[i] \in ToSet(outer)
      /\ \A j \in Inners : inner[j] \in Int /\ inner[j] \in ToSet(inner)
  BY <1>1, <1>2 DEF ToSet
<1>4. type = "INTEGER" => /\ \A i \in Outers : outer[i] \in Ints
                          /\ \A j \in Inners : inner[j] \in Ints
  BY <1>1, <1>2
<1>5. Algorithm(query) \in {"NL", "SM", "HJ"} /\ (Algorithm(query) = "HJ" => query.op = "EQ")
  BY <1>1 DEF Algorithm
<1> QED
  BY <1>1, <1>2, <1>3, <1>4, <1>5 DEF Values

(* It does not change. *)
LEMMA SameQuery ==
  ASSUME UNCHANGED inputs
  PROVE  /\ query' = query /\ type' = type /\ outer' = outer /\ inner' = inner
         /\ Outers' = Outers /\ Inners' = Inners /\ TableSize' = TableSize
         /\ Faithful' = Faithful /\ \A p : Joined(p)' = Joined(p)
<1>1. query' = query
  BY DEF inputs
<1> QED
  BY <1>1 DEF type, outer, inner, Outers, Inners, TableSize, Faithful, Values, Joined

(* A step comes to some pairs and puts P into the result: those it comes   *)
(* to that match.                                                          *)
OnlyAhead(P) ==
  Faithful =>
    \A i \in Outers, j \in Inners :
      /\ Ahead(i, j)' => Ahead(i, j)
      /\ <<i, j>> \in P => Joined(<<i, j>>) /\ Ahead(i, j) /\ ~Ahead(i, j)'
AllOfThose(P) ==
  Undisturbed' /\ pc' # "dead" /\ (pc' = "done" => status' = "OK") =>
    \A i \in Outers, j \in Inners : Joined(<<i, j>>) /\ Ahead(i, j) => Ahead(i, j)' \/ <<i, j>> \in P

(* Such a step keeps the result right. *)
LEMMA PairsKept ==
  ASSUME JTypes, UNCHANGED inputs, pc \notin {"done", "dead"}, NEW P, Output(P),
         troubles' = 0 => troubles = 0,
         NoneInvented, Fresh, AllFound, OnlyAhead(P), AllOfThose(P)
  PROVE  /\ result' \in [Outers' \X Inners' -> Nat]
         /\ NoneInvented' /\ Fresh' /\ AllFound'
<1> USE SameQuery
<1>1. result \in [Outers \X Inners -> Nat]
  BY DEF JTypes
<1>2. /\ result' = [p \in Outers \X Inners |-> IF p \in P THEN result[p] + 1 ELSE result[p]]
      /\ result' \in [Outers \X Inners -> Nat]
  BY <1>1 DEF Output
<1>3. \A i \in Outers, j \in Inners :
        /\ <<i, j>> \in P => result'[<<i, j>>] = result[<<i, j>>] + 1
        /\ <<i, j>> \notin P => result'[<<i, j>>] = result[<<i, j>>]
        /\ result[<<i, j>>] \in Nat
  BY <1>1, <1>2
<1>4. ASSUME Faithful
      PROVE  \A i \in Outers, j \in Inners :
               /\ result'[<<i, j>>] <= (IF Joined(<<i, j>>) THEN 1 ELSE 0)
               /\ Ahead(i, j)' => result'[<<i, j>>] = 0
  <2> TAKE i \in Outers, j \in Inners
  <2>1. result[<<i, j>>] <= (IF Joined(<<i, j>>) THEN 1 ELSE 0)
    BY <1>1, <1>4 DEF NoneInvented
  <2>2. /\ Ahead(i, j) => result[<<i, j>>] = 0
        /\ Ahead(i, j)' => Ahead(i, j)
        /\ <<i, j>> \in P => Joined(<<i, j>>) /\ Ahead(i, j) /\ ~Ahead(i, j)'
    BY <1>4 DEF Fresh, OnlyAhead
  <2> QED
    BY <1>3, <2>1, <2>2
<1>5. NoneInvented'
  <2> SUFFICES ASSUME Faithful, NEW p \in Outers \X Inners
               PROVE  result'[p] <= (IF Joined(p) THEN 1 ELSE 0)
    BY <1>2 DEF NoneInvented
  <2>1. PICK i \in Outers, j \in Inners : p = <<i, j>>
    OBVIOUS
  <2> QED
    BY <1>4, <2>1
<1>6. Fresh'
  BY <1>4 DEF Fresh
<1>7. AllFound'
  <2> SUFFICES ASSUME Undisturbed', pc' # "dead", pc' = "done" => status' = "OK",
                      NEW i \in Outers, NEW j \in Inners, Joined(<<i, j>>), ~Ahead(i, j)'
               PROVE  result'[<<i, j>>] = 1
    BY DEF AllFound
  <2>1. Faithful /\ Undisturbed
    BY DEF Undisturbed
  <2>2. CASE Ahead(i, j)
    <3>1. <<i, j>> \in P
      BY <2>2 DEF AllOfThose
    <3>2. result[<<i, j>>] = 0
      BY <2>1, <2>2 DEF Fresh
    <3> QED
      BY <1>3, <3>1, <3>2
  <2>3. CASE ~Ahead(i, j)
    <3>1. result[<<i, j>>] = 1
      BY <2>1, <2>3 DEF AllFound
    <3>2. <<i, j>> \notin P
      BY <2>1, <2>3 DEF OnlyAhead
    <3> QED
      BY <1>3, <3>1, <3>2
  <2> QED
    BY <2>2, <2>3
<1> QED
  BY <1>2, <1>5, <1>6, <1>7

(* A step that puts nothing into the result comes to nothing that matches. *)
LEMMA NothingNew ==
  ASSUME JTypes, UNCHANGED result
  PROVE  Output({})
<1>1. result \in [Outers \X Inners -> Nat]
  BY DEF JTypes
<1> QED
  BY <1>1 DEF Output

(* In a join that is faithful a pair is the two tuples. *)
LEMMA PairIs ==
  ASSUME Faithful, NEW i, NEW j
  PROVE  Pair(i, j) = <<i, j>>
BY DEF Faithful, Pair

(* The places of the three joins. *)
LEMMA PlacesAre ==
  ASSUME JTypes
  PROVE  /\ pc \in {"outer", "inner"} => Algorithm(query) = "NL"
         /\ pc \in {"sortOuter", "sortInner", "nextOuter", "skip", "emit"} => Algorithm(query) = "SM"
         /\ pc \in {"fill", "probe"} => Algorithm(query) = "HJ"
         /\ Places("NL") = {"outer", "inner"} /\ Places("HJ") = {"fill", "probe"}
         /\ Places("SM") = {"sortOuter", "sortInner", "nextOuter", "skip", "emit"}
<1>1. /\ Places("NL") = {"outer", "inner"} /\ Places("HJ") = {"fill", "probe"}
      /\ Places("SM") = {"sortOuter", "sortInner", "nextOuter", "skip", "emit"}
  BY DEF Places
<1>2. Algorithm(query) \in {"NL", "SM", "HJ"} /\ pc \in Places(Algorithm(query)) \cup {"done", "dead"}
  BY QueryIs DEF JTypes
<1> QED
  BY <1>1, <1>2

(* Where nothing is merged there is nothing to be said of runs. *)
LEMMA NotMerging ==
  ASSUME pc' \notin {"sortOuter", "sortInner", "nextOuter", "skip", "emit"}
  PROVE  RunsRight' /\ InMerge'
BY DEF RunsRight, InMerge, Merging

(* Without a hash join the table stays as it is. *)
LEMMA NoTable ==
  ASSUME JTypes, TableRight, UNCHANGED inputs, UNCHANGED hashed, Algorithm(query) # "HJ"
  PROVE  TableRight'
<1>1. query' = query /\ table' = table /\ endOfOuter' = endOfOuter
  BY SameQuery DEF hashed
<1> QED
  BY <1>1 DEF TableRight

(* Every step in which a join ends. *)
LEMMA EndsRight ==
  ASSUME JInv, pc \notin {"done", "dead"}, UNCHANGED inputs, pc' \in {"done", "dead"},
         outerRec' = outerRec, innerRec' = innerRec, result' = result, troubles' \in Nat,
         troubles' = 0 => troubles = 0,
         table' = {} \/ table' = table, endOfOuter' = endOfOuter,
         Undisturbed' /\ pc' = "done" /\ status' = "OK" =>
           \A i \in Outers, j \in Inners : Ahead(i, j) => ~Joined(<<i, j>>)
  PROVE  JInv'
<1> USE SameQuery
<1>1. JTypes /\ TableRight /\ NoneInvented /\ Fresh /\ AllFound
  BY DEF JInv
<1>2. \A i, j : ~Ahead(i, j)'
  BY DEF Ahead
<1>3. OnlyAhead({})
  BY <1>2 DEF OnlyAhead
<1>4. AllOfThose({})
  BY DEF AllOfThose, Undisturbed
<1>5. /\ result' \in [Outers' \X Inners' -> Nat]
      /\ NoneInvented' /\ Fresh' /\ AllFound'
  BY <1>1, <1>3, <1>4, NothingNew, PairsKept
<1>6. TableRight'
  <2>1. /\ \A e \in table : \E i \in 1 .. outerRec :
             \E h \in Hashes(type, outer[i], TableSize) : e = <<h, i>>
        /\ Algorithm(query) # "HJ" => table = {} /\ ~endOfOuter
        /\ endOfOuter /\ troubles = 0 => outerRec = Len(outer)
    BY <1>1 DEF TableRight
  <2>2. \A e \in table' : e \in table
    OBVIOUS
  <2>3. pc' # "fill"
    OBVIOUS
  <2> QED
    BY <2>1, <2>2, <2>3 DEF TableRight
<1>7. JTypes'
  BY <1>1, <1>5 DEF JTypes
<1> QED
  BY <1>5, <1>6, <1>7, NotMerging DEF JInv

(* At first all pairs are to come. *)
LEMMA StartsRight ==
  ASSUME Init
  PROVE  JInv
<1>1. /\ query \in Queries /\ outerRec = 0 /\ innerRec = 0 /\ table = {} /\ endOfOuter = FALSE
      /\ result = [pair \in (DOMAIN outer) \X (DOMAIN inner) |-> 0] /\ troubles = 0
      /\ query.method \in {"NL", "SM", "HJ"}
      /\ outer \in Seq(Int) /\ inner \in Seq(Int)
  BY QueriesAssumption DEF Init, EmptyTable, outer, inner
<1>2. DOMAIN outer = Outers /\ DOMAIN inner = Inners /\ Len(outer) \in Nat /\ Len(inner) \in Nat
  BY <1>1 DEF Outers, Inners
<1>3. Algorithm(query) \in {"NL", "SM", "HJ"}
  BY <1>1 DEF Algorithm
<1>4. \/ Algorithm(query) = "NL" /\ pc = "outer"
      \/ Algorithm(query) = "SM" /\ pc = "sortOuter"
      \/ Algorithm(query) = "HJ" /\ pc = "fill"
  BY <1>3 DEF Init
<1>5. pc \in Places(Algorithm(query))
  BY <1>4 DEF Places
<1>6. result \in [Outers \X Inners -> Nat] /\ \A i \in Outers, j \in Inners : result[<<i, j>>] = 0
  BY <1>1, <1>2
<1>7. JTypes
  BY <1>1, <1>2, <1>4, <1>5, <1>6 DEF JTypes
<1>8. TableRight /\ RunsRight /\ InMerge
  BY <1>1, <1>4 DEF TableRight, RunsRight, InMerge, Merging
<1>9. \A i \in Outers, j \in Inners : Ahead(i, j)
  BY <1>1, <1>4 DEF Ahead, Outers
<1>10. Fresh /\ AllFound
  BY <1>6, <1>9 DEF Fresh, AllFound
<1>11. NoneInvented
  <2> SUFFICES ASSUME NEW p \in DOMAIN result
               PROVE  result[p] <= (IF Joined(p) THEN 1 ELSE 0)
    BY DEF NoneInvented
  <2>1. result[p] = 0
    BY <1>1
  <2> QED
    BY <2>1
<1> QED
  BY <1>7, <1>8, <1>10, <1>11 DEF JInv
-----------------------------------------------------------------------------
(* The nested loops.                                                       *)

(* The next outer tuple. *)
LEMMA NextOuterKeeps ==
  ASSUME JInv, NextOuter
  PROVE  JInv'
<1> USE SameQuery
<1>1. /\ JTypes /\ TableRight /\ NoneInvented /\ Fresh /\ AllFound /\ pc = "outer"
      /\ UNCHANGED inputs /\ UNCHANGED hashed /\ result' = result /\ troubles' = troubles
      /\ outerRec \in 0 .. Len(outer) /\ innerRec \in 0 .. Len(inner) /\ troubles \in Nat
  BY DEF JInv, NextOuter, JTypes
<1>2. CASE outerRec < Len(outer)
  <2>1. outerRec' = outerRec + 1 /\ innerRec' = 0 /\ pc' = "inner"
    BY <1>2 DEF NextOuter
  <2>2. Algorithm(query) = "NL" /\ Len(outer) \in Nat /\ Len(inner) \in Nat
    BY <1>1, PlacesAre, QueryIs
  <2>3. \A i \in Outers, j \in Inners : Ahead(i, j)' <=> Ahead(i, j)
    BY <1>1, <2>1 DEF Ahead, Outers, Inners
  <2>4. OnlyAhead({}) /\ AllOfThose({})
    BY <1>1, <2>3 DEF OnlyAhead, AllOfThose
  <2>5. /\ result' \in [Outers' \X Inners' -> Nat] /\ NoneInvented' /\ Fresh' /\ AllFound'
    BY <1>1, <2>4, NothingNew, PairsKept
  <2>6. TableRight' /\ RunsRight' /\ InMerge'
    BY <1>1, <2>1, <2>2, NoTable, NotMerging
  <2>7. JTypes'
    BY <1>1, <1>2, <2>1, <2>2, <2>5, PlacesAre DEF JTypes
  <2> QED
    BY <2>5, <2>6, <2>7 DEF JInv
<1>3. CASE ~(outerRec < Len(outer))
  <2>1. pc' = "done" /\ outerRec' = outerRec /\ innerRec' = innerRec
    BY <1>3 DEF NextOuter, Return
  <2>2. \A i \in Outers, j \in Inners : ~Ahead(i, j)
    BY <1>1, <1>3, QueryIs DEF Ahead, Outers
  <2> QED
    BY <1>1, <2>1, <2>2, EndsRight DEF hashed
<1> QED
  BY <1>2, <1>3

(* The inner tuples that match it. *)
LEMMA NextInnerKeeps ==
  ASSUME JInv, NextInner
  PROVE  JInv'
<1> USE SameQuery
<1> DEFINE match(j) == Filtered(type, Flipped(query.op), inner[j], outer[outerRec])
           found == {j \in DOMAIN inner : j > innerRec /\ match(j)}
           new == CHOOSE j \in found : \A k \in found : j <= k
<1>1. /\ JTypes /\ TableRight /\ NoneInvented /\ Fresh /\ AllFound /\ pc = "inner"
      /\ UNCHANGED inputs /\ UNCHANGED hashed /\ troubles' = troubles /\ outerRec' = outerRec
      /\ outerRec \in 1 .. Len(outer) /\ innerRec \in 0 .. Len(inner) /\ troubles \in Nat
  <2>1. JTypes /\ pc = "inner"
    BY DEF JInv, NextInner
  <2>2. outerRec \in 1 .. Len(outer)
    BY <2>1, QueryIs DEF JTypes
  <2> QED
    BY <2>1, <2>2 DEF JInv, NextInner, JTypes
<1>2. /\ Algorithm(query) = "NL" /\ Len(outer) \in Nat /\ Len(inner) \in Nat /\ outerRec \in Outers
      /\ DOMAIN inner = Inners
  BY <1>1, PlacesAre, QueryIs DEF Outers
<1>3. IF found = {} THEN pc' = "outer" /\ UNCHANGED <<innerRec, result>>
      ELSE innerRec' = new /\ Output({Pair(outerRec, innerRec')}) /\ UNCHANGED pc
  BY DEF NextInner
<1>4. Faithful => \A j \in Inners : match(j) <=> Joined(<<outerRec, j>>)
  <2> SUFFICES ASSUME Faithful, NEW j \in Inners PROVE match(j) <=> Joined(<<outerRec, j>>)
    OBVIOUS
  <2> DEFINE a == outer[outerRec]
             b == inner[j]
             op == query.op
  <2>1. /\ a \in Int /\ b \in Int /\ a \in Values /\ b \in Values /\ type \in Types /\ op \in Ops
        /\ type = "INTEGER" => a \in Ints /\ b \in Ints
    BY <1>1, <1>2, QueryIs
  <2>2. op \notin {"EQ", "NE"} => Exact(type, b, a)
    BY <2>1 DEF Faithful, Exact
  <2>3. Joined(<<outerRec, j>>) = Holds(a - b, op)
    BY DEF Joined
  <2> HIDE DEF a, b, op
  <2>4. Filtered(type, Flipped(op), b, a) <=> Holds(a - b, op)
    BY <2>1, <2>2, FilterIsCondition
  <2> QED
    BY <2>3, <2>4 DEF a, b, op
<1> HIDE DEF match
<1>5. CASE found = {}
  <2>1. pc' = "outer" /\ innerRec' = innerRec /\ result' = result
    BY <1>3, <1>5
  <2>2. \A i \in Outers, j \in Inners : Ahead(i, j) <=> i > outerRec \/ (i = outerRec /\ j > innerRec)
    BY <1>1 DEF Ahead
  <2>3. \A i \in Outers, j \in Inners : Ahead(i, j)' <=> i > outerRec
    BY <1>1, <2>1 DEF Ahead
  <2>4. Faithful => \A j \in Inners : j > innerRec => ~Joined(<<outerRec, j>>)
    BY <1>2, <1>4, <1>5
  <2>5. OnlyAhead({}) /\ AllOfThose({})
    BY <2>2, <2>3, <2>4, <1>1 DEF OnlyAhead, AllOfThose, Undisturbed
  <2>6. /\ result' \in [Outers' \X Inners' -> Nat] /\ NoneInvented' /\ Fresh' /\ AllFound'
    BY <1>1, <2>1, <2>5, NothingNew, PairsKept
  <2>7. TableRight' /\ RunsRight' /\ InMerge'
    BY <1>1, <1>2, <2>1, NoTable, NotMerging
  <2>8. JTypes'
    BY <1>1, <1>2, <2>1, <2>6, PlacesAre DEF JTypes
  <2> QED
    BY <2>6, <2>7, <2>8 DEF JInv
<1>6. CASE found # {}
  <2>0. new \in found /\ \A k \in found : new <= k
    <3>0. Inners \subseteq Nat
      BY <1>2 DEF Inners
    <3>1. found \subseteq Nat
      BY <1>2, <3>0
    <3> HIDE DEF found
    <3>2. \E j \in found : \A k \in found : j <= k
      BY <1>6, <3>1, LeastElement
    <3> QED
      BY <3>2
  <2>1. pc' = "inner" /\ innerRec' = new /\ Output({Pair(outerRec, new)})
    BY <1>1, <1>3, <1>6
  <2> HIDE DEF new
  <2>2. new \in Inners /\ new > innerRec /\ match(new) /\ new \in 0 .. Len(inner)
    BY <1>2, <2>0 DEF Inners
  <2>3. \A j \in Inners : j > innerRec /\ j < new => ~match(j)
    <3> SUFFICES ASSUME NEW j \in Inners, j > innerRec, j < new, match(j) PROVE FALSE
      OBVIOUS
    <3>1. j \in found
      BY <1>2
    <3>2. new <= j
      BY <2>0, <3>1
    <3> QED
      BY <2>2, <3>2 DEF Inners
  <2> DEFINE P == {Pair(outerRec, new)}
  <2>4. \A i \in Outers, j \in Inners : Ahead(i, j) <=> i > outerRec \/ (i = outerRec /\ j > innerRec)
    BY <1>1 DEF Ahead
  <2>5. \A i \in Outers, j \in Inners : Ahead(i, j)' <=> i > outerRec \/ (i = outerRec /\ j > new)
    BY <1>1, <2>1 DEF Ahead
  <2>6. Faithful => \A i, j : <<i, j>> \in P <=> i = outerRec /\ j = new
    BY PairIs
  <2> HIDE DEF P, found
  <2>7. OnlyAhead(P)
    <3> SUFFICES ASSUME Faithful, NEW i \in Outers, NEW j \in Inners
                 PROVE  /\ Ahead(i, j)' => Ahead(i, j)
                        /\ <<i, j>> \in P => Joined(<<i, j>>) /\ Ahead(i, j) /\ ~Ahead(i, j)'
      BY DEF OnlyAhead
    <3>1. Ahead(i, j)' => Ahead(i, j)
      BY <1>1, <2>2, <2>4, <2>5 DEF Inners, Outers
    <3>2. ASSUME <<i, j>> \in P PROVE Joined(<<i, j>>) /\ Ahead(i, j) /\ ~Ahead(i, j)'
      <4>1. i = outerRec /\ j = new
        BY <2>6, <3>2
      <4>2. Joined(<<i, j>>)
        BY <1>4, <2>2, <4>1
      <4> QED
        BY <1>1, <2>2, <2>4, <2>5, <4>1, <4>2 DEF Inners, Outers
    <3> QED
      BY <3>1, <3>2
  <2>8. AllOfThose(P)
    <3> SUFFICES ASSUME Faithful, NEW i \in Outers, NEW j \in Inners, Joined(<<i, j>>), Ahead(i, j), ~Ahead(i, j)'
                 PROVE  <<i, j>> \in P
      BY <1>1 DEF AllOfThose, Undisturbed
    <3>1. i = outerRec /\ j > innerRec /\ ~(j > new)
      BY <2>4, <2>5
    <3>2. match(j)
      BY <1>4, <3>1
    <3>3. ~(j < new)
      BY <2>3, <3>1, <3>2
    <3>4. j \in Int /\ new \in Int
      BY <1>2, <2>2 DEF Inners
    <3>5. j = new
      BY <3>1, <3>3, <3>4
    <3> QED
      BY <2>6, <3>1, <3>5
  <2>9. Output(P)
    BY <2>1 DEF P
  <2>10. /\ result' \in [Outers' \X Inners' -> Nat] /\ NoneInvented' /\ Fresh' /\ AllFound'
    BY <1>1, <2>7, <2>8, <2>9, PairsKept
  <2>11. TableRight' /\ RunsRight' /\ InMerge'
    BY <1>1, <1>2, <2>1, NoTable, NotMerging
  <2>12. JTypes'
    BY <1>1, <1>2, <2>1, <2>2, <2>10, PlacesAre DEF JTypes
  <2> QED
    BY <2>10, <2>11, <2>12 DEF JInv
<1> QED
  BY <1>5, <1>6

(* A scan that fails is taken for one that has ended. *)
LEMMA LoopFailsKeeps ==
  ASSUME JInv, LoopFails
  PROVE  JInv'
<1> USE SameQuery
<1>1. /\ JTypes /\ TableRight /\ NoneInvented /\ Fresh /\ AllFound /\ pc \in {"outer", "inner"}
      /\ UNCHANGED inputs /\ UNCHANGED hashed /\ result' = result
      /\ outerRec' = outerRec /\ innerRec' = innerRec /\ troubles \in Nat /\ troubles' = troubles + 1
  BY DEF JInv, LoopFails, JTypes, Trouble
<1>2. troubles' \in Nat /\ troubles' # 0 /\ Algorithm(query) = "NL"
  BY <1>1, PlacesAre
<1>3. CASE pc' = "done"
  BY <1>1, <1>2, <1>3, EndsRight DEF Undisturbed, hashed
<1>4. CASE pc = "inner" /\ pc' = "outer"
  <2>1. \A i \in Outers, j \in Inners : Ahead(i, j)' => Ahead(i, j)
    BY <1>1, <1>4 DEF Ahead
  <2>2. OnlyAhead({}) /\ AllOfThose({})
    BY <1>2, <2>1 DEF OnlyAhead, AllOfThose, Undisturbed
  <2>3. /\ result' \in [Outers' \X Inners' -> Nat] /\ NoneInvented' /\ Fresh' /\ AllFound'
    BY <1>1, <1>2, <2>2, NothingNew, PairsKept
  <2>4. TableRight' /\ RunsRight' /\ InMerge'
    BY <1>1, <1>2, <1>4, NoTable, NotMerging
  <2>5. JTypes'
    BY <1>1, <1>2, <1>4, <2>3, PlacesAre DEF JTypes
  <2> QED
    BY <2>3, <2>4, <2>5 DEF JInv
<1>5. pc' = "done" \/ (pc = "inner" /\ pc' = "outer")
  BY DEF LoopFails, Return
<1> QED
  BY <1>3, <1>4, <1>5

(* The process ends. *)
LEMMA AbortsKeeps ==
  ASSUME JInv, Aborts
  PROVE  JInv'
<1>1. /\ JTypes /\ pc \in {"inner", "emit", "probe"} /\ pc' = "dead"
      /\ UNCHANGED inputs /\ UNCHANGED hashed /\ result' = result
      /\ outerRec' = outerRec /\ innerRec' = innerRec /\ troubles \in Nat /\ troubles' = troubles + 1
  BY DEF JInv, Aborts, JTypes, Trouble
<1>2. troubles' \in Nat /\ troubles' # 0
  BY <1>1
<1> QED
  BY <1>1, <1>2, EndsRight DEF hashed
-----------------------------------------------------------------------------
(* The hash join.                                                          *)

(* A value is in one bucket, but for a string that fills its attribute. *)
LEMMA OneBucket ==
  ASSUME NEW t \in Types, NEW a, NEW size, ~(t = "STRING" /\ a \in Full)
  PROVE  \E h : Hashes(t, a, size) = {h}
BY DEF Hashes, Types

(* The block of the outer relation is complete. *)
LEMMA FilledKeeps ==
  ASSUME JInv, pc = "fill", UNCHANGED inputs, BlockFull \/ OuterEnds,
         result' = result, troubles' \in Nat, troubles' = 0 => troubles = 0,
         OuterEnds /\ troubles' = 0 => outerRec = Len(outer)
  PROVE  JInv'
<1> USE SameQuery
<1>1. /\ JTypes /\ TableRight /\ NoneInvented /\ Fresh /\ AllFound
      /\ outerRec \in 0 .. Len(outer) /\ innerRec \in 0 .. Len(inner)
  BY DEF JInv, JTypes
<1>2. pc' = "probe" /\ innerRec' = 0 /\ outerRec' = outerRec /\ table' = table
  BY DEF BlockFull, OuterEnds, hashed
<1>3. Algorithm(query) = "HJ" /\ Len(inner) \in Nat
  BY <1>1, PlacesAre, QueryIs
<1>4. \A i \in Outers, j \in Inners : Ahead(i, j)' <=> Ahead(i, j)
  <2>1. \A i : InTable(i)' <=> InTable(i)
    BY <1>2 DEF InTable
  <2>2. \A j \in Inners : j > 0
    BY <1>3 DEF Inners
  <2> QED
    BY <1>2, <2>1, <2>2 DEF Ahead
<1>5. OnlyAhead({}) /\ AllOfThose({})
  BY <1>4 DEF OnlyAhead, AllOfThose
<1>6. /\ result' \in [Outers' \X Inners' -> Nat] /\ NoneInvented' /\ Fresh' /\ AllFound'
  BY <1>1, <1>5, NothingNew, PairsKept
<1>7. TableRight'
  <2>1. endOfOuter' /\ troubles' = 0 => outerRec' = Len(outer')
    BY <1>1, <1>2 DEF BlockFull, OuterEnds, hashed, TableRight
  <2>2. \A e \in table' : \E i \in 1 .. outerRec' : \E h \in Hashes(type', outer'[i], TableSize') : e = <<h, i>>
    BY <1>1, <1>2 DEF TableRight
  <2>3. Algorithm(query') = "HJ"
    BY <1>3
  <2> QED
    BY <1>2, <2>1, <2>2, <2>3 DEF TableRight
<1>8. RunsRight' /\ InMerge'
  BY <1>2, NotMerging
<1>9. JTypes'
  BY <1>1, <1>2, <1>3, <1>6, PlacesAre DEF JTypes
<1> QED
  BY <1>6, <1>7, <1>8, <1>9 DEF JInv

(* The block takes in the next outer tuple. *)
LEMMA FillKeeps ==
  ASSUME JInv, Fill
  PROVE  JInv'
<1> USE SameQuery
<1>1. /\ JTypes /\ TableRight /\ NoneInvented /\ Fresh /\ AllFound /\ pc = "fill"
      /\ UNCHANGED inputs /\ result' = result /\ troubles' = troubles /\ troubles \in Nat
      /\ outerRec \in 0 .. Len(outer) /\ innerRec \in 0 .. Len(inner)
  BY DEF JInv, Fill, JTypes
<1>2. /\ Algorithm(query) = "HJ" /\ Len(outer) \in Nat
  BY <1>1, PlacesAre, QueryIs
<1>3. CASE BlockFull \/ (outerRec = Len(outer) /\ OuterEnds)
  <2>1. OuterEnds => outerRec = Len(outer)
    <3>1. BlockFull => endOfOuter' = endOfOuter
      BY DEF BlockFull, hashed
    <3>2. ~endOfOuter
      BY <1>1 DEF TableRight
    <3>3. OuterEnds => endOfOuter' = TRUE
      BY DEF OuterEnds
    <3>4. ~(BlockFull /\ OuterEnds)
      <4> SUFFICES ASSUME BlockFull, OuterEnds PROVE FALSE
        OBVIOUS
      <4>1. endOfOuter' = endOfOuter /\ endOfOuter' = TRUE
        BY <3>1, <3>3
      <4>2. endOfOuter = TRUE
        BY <4>1
      <4> QED
        BY <3>2, <4>2
    <3> QED
      BY <1>3, <3>4
  <2> QED
    BY <1>1, <1>3, <2>1, FilledKeeps
<1>4. CASE /\ outerRec < Len(outer) /\ outerRec' = outerRec + 1
           /\ \E h \in Hashes(type, outer[outerRec'], TableSize) : table' = WithEntry(h, outerRec')
           /\ UNCHANGED <<pc, innerRec, endOfOuter>>
  <2> DEFINE new == outerRec + 1
  <2>1. PICK h \in Hashes(type, outer[new], TableSize) : table' = table \cup {<<h, new>>}
    BY <1>4 DEF WithEntry
  <2>2. \A i : InTable(i)' <=> InTable(i) \/ i = new
    <3> HIDE DEF new
    <3>1. <<h, new>>[2] = new
      OBVIOUS
    <3>2. \A i : InTable(i)' <=> \E e \in table \cup {<<h, new>>} : e[2] = i
      BY <2>1 DEF InTable
    <3> QED
      BY <3>1, <3>2 DEF InTable
  <2>3. \A i \in Outers, j \in Inners : Ahead(i, j)' <=> Ahead(i, j)
    <3> TAKE i \in Outers, j \in Inners
    <3>1. i > outerRec <=> i > new \/ i = new
      BY <1>1, <1>2 DEF Outers
    <3> QED
      BY <1>1, <1>4, <2>2, <3>1 DEF Ahead
  <2>4. OnlyAhead({}) /\ AllOfThose({})
    BY <2>3 DEF OnlyAhead, AllOfThose
  <2>5. /\ result' \in [Outers' \X Inners' -> Nat] /\ NoneInvented' /\ Fresh' /\ AllFound'
    BY <1>1, <2>4, NothingNew, PairsKept
  <2>6. TableRight'
    <3>1. ~endOfOuter'
      BY <1>1, <1>4 DEF TableRight
    <3>2. ASSUME NEW e \in table'
          PROVE  \E i \in 1 .. new : \E g \in Hashes(type, outer[i], TableSize) : e = <<g, i>>
      <4>1. new \in 1 .. new /\ 1 .. outerRec \subseteq 1 .. new
        BY <1>1, <1>2
      <4>2. CASE e \in table
        BY <1>1, <4>1, <4>2 DEF TableRight
      <4>3. CASE e = <<h, new>>
        BY <4>1, <4>3
      <4> QED
        BY <2>1, <4>2, <4>3
    <3>3. Algorithm(query') = "HJ" /\ outerRec' = new
      BY <1>1, <1>2, <1>4
    <3>4. type' = type /\ outer' = outer /\ TableSize' = TableSize
      BY <1>1
    <3> QED
      BY <3>1, <3>2, <3>3, <3>4 DEF TableRight
  <2>7. RunsRight' /\ InMerge'
    BY <1>1, <1>4, NotMerging
  <2>8. JTypes'
    <3>1. outerRec' \in 0 .. Len(outer)
      BY <1>1, <1>2, <1>4
    <3> QED
      BY <1>1, <1>2, <1>4, <2>5, <3>1, PlacesAre DEF JTypes
  <2> QED
    BY <2>5, <2>6, <2>7, <2>8 DEF JInv
<1> QED
  BY <1>3, <1>4 DEF Fill

(* A scan that fails is taken for the end of the outer relation. *)
LEMMA FillFailsKeeps ==
  ASSUME JInv, FillFails
  PROVE  JInv'
<1>1. /\ pc = "fill" /\ UNCHANGED inputs /\ OuterEnds /\ result' = result
      /\ troubles \in Nat /\ troubles' = troubles + 1
  BY DEF JInv, JTypes, FillFails, Trouble
<1>2. troubles' \in Nat /\ troubles' # 0
  BY <1>1
<1> QED
  BY <1>1, <1>2, FilledKeeps

(* An inner tuple meets those of the block that it matches. *)
LEMMA ProbeKeeps ==
  ASSUME JInv, Probe
  PROVE  JInv'
<1> USE SameQuery
<1>1. /\ JTypes /\ TableRight /\ NoneInvented /\ Fresh /\ AllFound /\ pc = "probe"
      /\ UNCHANGED inputs /\ UNCHANGED hashed /\ outerRec' = outerRec /\ troubles' = troubles /\ troubles \in Nat
      /\ outerRec \in 0 .. Len(outer) /\ innerRec \in 0 .. Len(inner) /\ innerRec < Len(inner)
  BY DEF JInv, Probe, JTypes
<1>2. /\ Algorithm(query) = "HJ" /\ query.op = "EQ" /\ Len(outer) \in Nat /\ Len(inner) \in Nat /\ type \in Types
  BY <1>1, PlacesAre, QueryIs
<1>3. CASE TableSize = 0
  <2>1. pc' = "dead" /\ innerRec' = innerRec /\ result' = result
    BY <1>3 DEF Probe
  <2> QED
    BY <1>1, <2>1, EndsRight DEF hashed
<1>4. CASE TableSize # 0
  <2> DEFINE new == innerRec + 1
  <2>1. /\ innerRec' = new /\ pc' = "probe"
        /\ \E h \in Hashes(type, inner[new], TableSize) :
             Output({Pair(i, new) : i \in Matching(h, inner[new])})
    BY <1>1, <1>4 DEF Probe
  <2>2. PICK h \in Hashes(type, inner[new], TableSize) : Output({Pair(i, new) : i \in Matching(h, inner[new])})
    BY <2>1
  <2> DEFINE M == Matching(h, inner[new])
             P == {Pair(i, new) : i \in M}
  <2>3. new \in Inners /\ new \in 0 .. Len(inner) /\ new > innerRec
    BY <1>1, <1>2 DEF Inners
  <2>4. \A j \in Inners : j > innerRec <=> j > new \/ j = new
    BY <1>1, <1>2 DEF Inners
  <2>5. ~(new > new)
    BY <1>1
  <2>6. /\ \A i, j : Ahead(i, j) <=> i > outerRec \/ (InTable(i) /\ j > innerRec)
        /\ \A i, j : Ahead(i, j)' <=> i > outerRec \/ (InTable(i) /\ j > new)
    BY <1>1, <2>1 DEF Ahead, InTable, hashed
  <2>7. \A i \in Outers : InTable(i) => ~(i > outerRec)
    <3>1. \A i \in 1 .. outerRec : ~(i > outerRec)
      BY <1>1
    <3> QED
      BY <1>1, <3>1 DEF TableRight, InTable
  <2>8. Faithful => \A i, j : <<i, j>> \in P <=> i \in M /\ j = new
    BY PairIs
  <2>9. \A i : i \in M <=> \E e \in table : e[1] = h /\ e[2] = i /\ outer[i] = inner[new]
    BY DEF Matching
  <2> HIDE DEF new, M, P
  <2>10. \A i \in Outers, j \in Inners : Joined(<<i, j>>) <=> outer[i] = inner[j]
    <3> TAKE i \in Outers, j \in Inners
    <3>1. outer[i] \in Int /\ inner[j] \in Int
      BY <1>1, QueryIs
    <3> DEFINE d == outer[i] - inner[j]
    <3>2. Joined(<<i, j>>) <=> Holds(d, "EQ")
      BY <1>2 DEF Joined
    <3>3. Holds(d, "EQ") = (d = 0)
      BY HoldsIs
    <3>4. d = 0 <=> outer[i] = inner[j]
      BY <3>1
    <3> HIDE DEF d
    <3> QED
      BY <3>2, <3>3, <3>4, Zenon
  <2>11. OnlyAhead(P)
    <3> SUFFICES ASSUME Faithful, NEW i \in Outers, NEW j \in Inners
                 PROVE  /\ Ahead(i, j)' => Ahead(i, j)
                        /\ <<i, j>> \in P => Joined(<<i, j>>) /\ Ahead(i, j) /\ ~Ahead(i, j)'
      BY DEF OnlyAhead
    <3>1. Ahead(i, j)' => Ahead(i, j)
      BY <2>4, <2>6
    <3>2. ASSUME <<i, j>> \in P PROVE Joined(<<i, j>>) /\ Ahead(i, j) /\ ~Ahead(i, j)'
      <4>1. i \in M /\ j = new
        BY <2>8, <3>2
      <4>2. InTable(i) /\ outer[i] = inner[j]
        BY <2>9, <4>1 DEF InTable
      <4> QED
        BY <2>3, <2>5, <2>6, <2>7, <2>10, <4>1, <4>2
    <3> QED
      BY <3>1, <3>2
  <2>12. AllOfThose(P)
    <3> SUFFICES ASSUME Faithful, NEW i \in Outers, NEW j \in Inners, Joined(<<i, j>>), Ahead(i, j), ~Ahead(i, j)'
                 PROVE  <<i, j>> \in P
      BY <1>1 DEF AllOfThose, Undisturbed
    <3>1. InTable(i) /\ j = new /\ outer[i] = inner[new]
      BY <2>4, <2>6, <2>10
    <3>2. PICK e \in table : e[2] = i
      BY <3>1 DEF InTable
    <3>3. e[1] \in Hashes(type, outer[i], TableSize)
      BY <1>1, <3>2 DEF TableRight
    <3>4. ~(type = "STRING" /\ outer[i] \in Full)
      <4>1. outer[i] \in ToSet(outer) /\ inner[new] \in ToSet(inner)
        BY <1>1, <2>3, QueryIs
      <4>2. type = "STRING" => ToSet(outer) \cap ToSet(inner) \cap Full = {}
        BY <1>2 DEF Faithful
      <4> QED
        BY <3>1, <4>1, <4>2
    <3>5. e[1] = h
      <4>1. PICK g : Hashes(type, outer[i], TableSize) = {g}
        <5> DEFINE a == outer[i]
                   n == TableSize
        <5>1. type \in Types /\ ~(type = "STRING" /\ a \in Full)
          BY <1>2, <3>4
        <5> HIDE DEF a, n
        <5>2. \E g : Hashes(type, a, n) = {g}
          BY <5>1, OneBucket
        <5> QED
          BY <5>2 DEF a, n
      <4>2. h \in Hashes(type, outer[i], TableSize)
        BY <3>1
      <4> QED
        BY <3>3, <4>1, <4>2
    <3>6. i \in M
      BY <2>9, <3>1, <3>2, <3>5
    <3> QED
      BY <2>8, <3>1, <3>6
  <2>13. Output(P)
    BY <2>2 DEF P, M
  <2>14. /\ result' \in [Outers' \X Inners' -> Nat] /\ NoneInvented' /\ Fresh' /\ AllFound'
    BY <1>1, <2>11, <2>12, <2>13, PairsKept
  <2>15. TableRight'
    BY <1>1, <1>2, <2>1 DEF TableRight, hashed
  <2>16. RunsRight' /\ InMerge'
    BY <2>1, NotMerging
  <2>17. JTypes'
    BY <1>1, <1>2, <2>1, <2>3, <2>14, PlacesAre DEF JTypes
  <2> QED
    BY <2>14, <2>15, <2>16, <2>17 DEF JInv
<1> QED
  BY <1>3, <1>4

(* The block has met all inner tuples, or a scan has failed. *)
LEMMA BlockDoneKeeps ==
  ASSUME JInv, pc = "probe", BlockDone, troubles' \in Nat, troubles' = 0 => troubles = 0 /\ innerRec = Len(inner)
  PROVE  JInv'
<1> USE SameQuery
<1>1. /\ JTypes /\ TableRight /\ NoneInvented /\ Fresh /\ AllFound
      /\ UNCHANGED inputs /\ outerRec' = outerRec /\ innerRec' = innerRec /\ result' = result
      /\ endOfOuter' = endOfOuter /\ table' = {}
  BY DEF JInv, BlockDone, EmptyTable
<1>2. Algorithm(query) = "HJ" /\ Len(outer) \in Nat /\ Len(inner) \in Nat
  BY <1>1, PlacesAre, QueryIs
<1>3. \A i \in Outers, j \in Inners : Ahead(i, j) <=> i > outerRec \/ (InTable(i) /\ j > innerRec)
  BY DEF Ahead
<1>4. innerRec = Len(inner) => \A j \in Inners : ~(j > innerRec)
  BY <1>2 DEF Inners
<1>5. CASE endOfOuter
  <2>1. pc' = "done"
    BY <1>5 DEF BlockDone, Return
  <2>2. ASSUME Undisturbed' PROVE \A i \in Outers, j \in Inners : ~Ahead(i, j)
    <3>1. innerRec = Len(inner) /\ outerRec = Len(outer)
      BY <1>1, <1>5, <2>2 DEF Undisturbed, TableRight
    <3>2. \A i \in Outers : ~(i > outerRec)
      BY <1>2, <3>1 DEF Outers
    <3> QED
      BY <1>3, <1>4, <3>1, <3>2
  <2> QED
    BY <1>1, <2>1, <2>2, EndsRight
<1>6. CASE ~endOfOuter
  <2>1. pc' = "fill"
    BY <1>6 DEF BlockDone
  <2>2. \A i \in Outers, j \in Inners : Ahead(i, j)' <=> i > outerRec
    BY <1>1, <2>1 DEF Ahead, InTable
  <2>3. OnlyAhead({})
    BY <1>3, <2>2 DEF OnlyAhead
  <2>4. AllOfThose({})
    BY <1>3, <1>4, <2>2 DEF AllOfThose, Undisturbed
  <2>5. /\ result' \in [Outers' \X Inners' -> Nat] /\ NoneInvented' /\ Fresh' /\ AllFound'
    BY <1>1, <2>3, <2>4, NothingNew, PairsKept
  <2>6. TableRight'
    BY <1>1, <1>2, <1>6 DEF TableRight
  <2>7. RunsRight' /\ InMerge'
    BY <2>1, NotMerging
  <2>8. JTypes'
    BY <1>1, <1>2, <2>1, <2>5, PlacesAre DEF JTypes
  <2> QED
    BY <2>5, <2>6, <2>7, <2>8 DEF JInv
<1> QED
  BY <1>5, <1>6

(* All of them. *)
LEMMA ProbedKeeps ==
  ASSUME JInv, Probed
  PROVE  JInv'
<1>1. pc = "probe" /\ innerRec = Len(inner) /\ BlockDone /\ troubles' = troubles /\ troubles \in Nat
  BY DEF JInv, JTypes, Probed
<1> QED
  BY <1>1, BlockDoneKeeps

(* A scan fails, or cannot be opened. *)
LEMMA ProbeFailsKeeps ==
  ASSUME JInv, ProbeFails
  PROVE  JInv'
<1>1. pc = "probe" /\ troubles \in Nat /\ troubles' = troubles + 1
  BY DEF JInv, JTypes, ProbeFails, Trouble
<1>2. troubles' \in Nat /\ troubles' # 0
  BY <1>1
<1>3. CASE BlockDone
  BY <1>1, <1>2, <1>3, BlockDoneKeeps
<1>4. CASE Return("IOERR") /\ UNCHANGED <<inputs, outerRec, innerRec, hashed, sorted, result>>
  <2>1. /\ pc' = "done" /\ UNCHANGED inputs /\ outerRec' = outerRec /\ innerRec' = innerRec
        /\ result' = result /\ table' = table /\ endOfOuter' = endOfOuter
    BY <1>4 DEF Return, hashed
  <2> QED
    BY <1>1, <1>2, <2>1, EndsRight DEF Undisturbed
<1> QED
  BY <1>3, <1>4 DEF ProbeFails
-----------------------------------------------------------------------------
(* Sorting and merging.                                                    *)

(* In a merge that is faithful differences are exact, and matches are what *)
(* was asked for.                                                          *)
LEMMA MergeFaithful ==
  ASSUME JTypes, Faithful, Algorithm(query) = "SM"
  PROVE  /\ \A a, b \in ToSet(outer) : Exact(type, a, b)
         /\ \A a, b \in ToSet(inner) : Exact(type, a, b)
         /\ \A i \in Outers, j \in Inners :
              /\ Joined(<<i, j>>) <=> outer[i] = inner[j]
              /\ \A m \in MatchRec(type, outer[i], inner[j]) :
                   m \in Int /\ (m = 0 <=> outer[i] = inner[j]) /\ (m > 0 <=> outer[i] > inner[j])
<1>1. /\ query.op = "EQ"
      /\ type = "INTEGER" => \A a, b \in Values : Wrap(a - b) = a - b
      /\ type = "FLOAT" => \A a, b \in Values : Magnitude(a - b) # 1
      /\ type = "STRING" => ToSet(outer) \cap ToSet(inner) \cap Full = {}
  BY DEF Faithful
<1>2. \A a, b \in Values : Exact(type, a, b)
  BY <1>1 DEF Exact
<1>3. ASSUME NEW i \in Outers, NEW j \in Inners
      PROVE  /\ Joined(<<i, j>>) <=> outer[i] = inner[j]
             /\ \A m \in MatchRec(type, outer[i], inner[j]) :
                  m \in Int /\ (m = 0 <=> outer[i] = inner[j]) /\ (m > 0 <=> outer[i] > inner[j])
  <2> DEFINE a == outer[i]
             b == inner[j]
             d == a - b
  <2>1. /\ a \in Int /\ b \in Int /\ a \in Values /\ b \in Values /\ type \in Types
        /\ a \in ToSet(outer) /\ b \in ToSet(inner)
    BY QueryIs
  <2>2. Joined(<<i, j>>) <=> Holds(d, "EQ")
    BY <1>1 DEF Joined
  <2>3. Holds(d, "EQ") = (d = 0)
    BY HoldsIs
  <2>4. d = 0 <=> a = b
    BY <2>1
  <2>5. Joined(<<i, j>>) <=> a = b
    <3> HIDE DEF d, a, b
    <3> QED
      BY <2>2, <2>3, <2>4, Zenon
  <2> HIDE DEF d, a, b
  <2>6. Exact(type, a, b)
    BY <1>2, <2>1
  <2>7. type = "FLOAT" => Magnitude(a - b) # 1
    BY <1>1, <2>1
  <2>8. type = "STRING" => ~(a = b /\ a \in Full)
    BY <1>1, <2>1
  <2>9. \A m \in MatchRec(type, a, b) : m \in Int /\ (m = 0 <=> a = b) /\ (m > 0 <=> a > b)
    BY <2>1, <2>6, <2>7, <2>8, MatchIsComparison
  <2> QED
    BY <2>5, <2>9 DEF a, b
<1> QED
  BY <1>2, <1>3 DEF Values

(* A sort that fails ends the join. *)
LEMMA SortFailedKeeps ==
  ASSUME JInv, pc \in {"sortOuter", "sortInner"}, NEW s, s # "OK", SortFailed(s),
         troubles' \in Nat, troubles' = 0 => troubles = 0
  PROVE  JInv'
<1>1. /\ pc' \in {"done", "dead"} /\ status' # "OK" /\ UNCHANGED inputs
      /\ outerRec' = outerRec /\ innerRec' = innerRec /\ result' = result
      /\ table' = table /\ endOfOuter' = endOfOuter
  BY DEF SortFailed, hashed
<1> QED
  BY <1>1, EndsRight

(* The outer relation is sorted. *)
LEMMA SortOuterKeeps ==
  ASSUME JInv, SortOuter
  PROVE  JInv'
<1> USE SameQuery
<1>1. /\ JTypes /\ TableRight /\ RunsRight /\ NoneInvented /\ Fresh /\ AllFound
      /\ pc = "sortOuter" /\ troubles' = troubles /\ troubles \in Nat
      /\ outerRec \in 0 .. Len(outer) /\ innerRec \in 0 .. Len(inner)
  BY DEF JInv, SortOuter, JTypes
<1>2. CASE SortFailed("UNIXERR")
  BY <1>1, <1>2, SortFailedKeeps
<1>3. CASE /\ sorted1' \in RunsOf(outer)
           /\ pc' = "sortInner"
           /\ UNCHANGED <<inputs, outerRec, innerRec, hashed, sorted2, astray, result, status>>
  <2>1. /\ Algorithm(query) = "SM" /\ type \in Types /\ outer \in Seq(Int) /\ Len(outer) \in Nat
    BY <1>1, PlacesAre, QueryIs
  <2>2. /\ GoodRuns(sorted1', Len(outer)) /\ Remaining(sorted1') = Outers
        /\ (\A a, b \in ToSet(outer) : Exact(type, a, b)) => InOrder(outer, sorted1')
    BY <1>3, <2>1, RunsOfIs DEF Outers
  <2>3. UNCHANGED inputs /\ UNCHANGED hashed /\ result' = result /\ outerRec' = outerRec /\ innerRec' = innerRec
    BY <1>3
  <2>4. \A i, j : Ahead(i, j) /\ Ahead(i, j)'
    BY <1>1, <1>3 DEF Ahead
  <2>5. OnlyAhead({}) /\ AllOfThose({})
    BY <2>4 DEF OnlyAhead, AllOfThose
  <2>6. /\ result' \in [Outers' \X Inners' -> Nat] /\ NoneInvented' /\ Fresh' /\ AllFound'
    BY <1>1, <2>3, <2>5, NothingNew, PairsKept
  <2>7. TableRight'
    BY <1>1, <2>1, <2>3, NoTable
  <2>8. RunsRight'
    BY <1>1, <1>3, <2>2, <2>3 DEF RunsRight, Merging
  <2>9. InMerge'
    BY <1>1, <1>3, <2>1, <2>2, <2>3, MergeFaithful DEF InMerge, Merging, Undisturbed
  <2>10. JTypes'
    BY <1>1, <1>3, <2>1, <2>3, <2>6, PlacesAre DEF JTypes
  <2> QED
    BY <2>6, <2>7, <2>8, <2>9, <2>10 DEF JInv
<1> QED
  BY <1>2, <1>3 DEF SortOuter

(* The inner relation is sorted, and a mark is set in front of it. *)
LEMMA SortInnerKeeps ==
  ASSUME JInv, SortInner
  PROVE  JInv'
<1> USE SameQuery
<1>1. /\ JTypes /\ TableRight /\ RunsRight /\ NoneInvented /\ Fresh /\ AllFound /\ InMerge
      /\ pc = "sortInner" /\ troubles' = troubles /\ troubles \in Nat
      /\ outerRec = 0 /\ innerRec \in 0 .. Len(inner)
  BY DEF JInv, SortInner, JTypes, RunsRight
<1>2. CASE SortFailed("UNIXERR") \/ SortFailed("FILEEXISTS")
  BY <1>1, <1>2, SortFailedKeeps
<1>3. CASE /\ \E runs \in RunsOf(inner) : sorted2' = SetMark(runs)
           /\ pc' = "nextOuter"
           /\ UNCHANGED <<inputs, outerRec, innerRec, hashed, sorted1, astray, result, status>>
  <2>1. /\ Algorithm(query) = "SM" /\ type \in Types /\ inner \in Seq(Int) /\ Len(inner) \in Nat /\ Len(outer) \in Nat
    BY <1>1, PlacesAre, QueryIs
  <2>2. PICK runs \in RunsOf(inner) : sorted2' = SetMark(runs)
    BY <1>3
  <2>3. /\ GoodRuns(runs, Len(inner)) /\ Remaining(runs) = Inners
        /\ (\A a, b \in ToSet(inner) : Exact(type, a, b)) => InOrder(inner, runs)
    BY <2>1, RunsOfIs DEF Inners
  <2>4. SameRecs(runs, sorted2') /\ GoodRuns(sorted2', Len(inner)) /\ Remaining(sorted2') = Inners
    BY <2>1, <2>2, <2>3, AllOfThem
  <2>5. InOrder(inner, runs) => InOrder(inner, sorted2')
    BY <2>4 DEF InOrder, SameRecs
  <2>6. /\ UNCHANGED inputs /\ UNCHANGED hashed /\ result' = result /\ outerRec' = outerRec
        /\ innerRec' = innerRec /\ sorted1' = sorted1
    BY <1>3
  <2>7. GoodRuns(sorted1, Len(outer)) /\ Remaining(sorted1) = Outers
    BY <1>1 DEF RunsRight
  <2>8. \A i \in Outers, j \in Inners : Ahead(i, j) /\ Ahead(i, j)'
    BY <1>1, <1>3, <2>6, <2>7 DEF Ahead
  <2>9. OnlyAhead({}) /\ AllOfThose({})
    BY <2>8 DEF OnlyAhead, AllOfThose
  <2>10. /\ result' \in [Outers' \X Inners' -> Nat] /\ NoneInvented' /\ Fresh' /\ AllFound'
    BY <1>1, <2>6, <2>9, NothingNew, PairsKept
  <2>11. TableRight'
    BY <1>1, <2>1, <2>6, NoTable
  <2>12. 0 \notin Outers
    BY DEF Outers
  <2>13. RunsRight'
    BY <1>1, <1>3, <2>4, <2>6, <2>7, <2>12 DEF RunsRight, Merging
  <2>14. InMerge'
    <3>1. Undisturbed' => Undisturbed /\ InOrder(outer, sorted1) /\ InOrder(inner, sorted2')
      BY <1>1, <2>1, <2>3, <2>5, <2>6, MergeFaithful DEF InMerge, Undisturbed
    <3> QED
      BY <1>1, <1>3, <2>4, <2>6, <3>1 DEF InMerge, Merging
  <2>15. JTypes'
    BY <1>1, <1>3, <2>1, <2>6, <2>10, PlacesAre DEF JTypes
  <2> QED
    BY <2>10, <2>11, <2>13, <2>14, <2>15 DEF JInv
<1> QED
  BY <1>2, <1>3 DEF SortInner

(* A call fails in a sort. *)
LEMMA SortFailsKeeps ==
  ASSUME JInv, SortFails
  PROVE  JInv'
<1>1. /\ pc \in {"sortOuter", "sortInner"} /\ troubles \in Nat /\ troubles' = troubles + 1 /\ SortFailed("IOERR")
  BY DEF JInv, JTypes, SortFails, Trouble
<1>2. troubles' \in Nat /\ troubles' # 0
  BY <1>1
<1> QED
  BY <1>1, <1>2, SortFailedKeeps

(* A sorted file whose records are the same is in the same order. *)
LEMMA SameOrder ==
  ASSUME NEW keys, NEW runs, NEW others, SameRecs(runs, others), InOrder(keys, runs)
  PROVE  InOrder(keys, others)
BY DEF SameRecs, InOrder

(* The next outer tuple, and the inner ones from the mark on. *)
LEMMA NextOuterSortedKeeps ==
  ASSUME JInv, NEW B, NextOuterSorted(B), troubles' \in Nat, troubles' = 0 => troubles = 0,
         \A runs \in B : SameRecs(sorted2, runs) /\ GoodRuns(runs, Len(inner)),
         troubles' = 0 => \A runs \in B : Remaining(runs) = MarkedRest(sorted2)
  PROVE  JInv'
<1> USE SameQuery
<1> DEFINE call == NextOf(type, outer, sorted1)
           rec == call.rec
           new == call.runs
<1>1. /\ JTypes /\ TableRight /\ RunsRight /\ NoneInvented /\ Fresh /\ AllFound /\ InMerge
      /\ pc = "nextOuter" /\ UNCHANGED inputs /\ UNCHANGED hashed /\ result' = result /\ innerRec' = innerRec
      /\ sorted1' = new /\ outerRec \in 0 .. Len(outer) /\ innerRec \in 0 .. Len(inner)
      /\ GoodRuns(sorted1, Len(outer)) /\ GoodRuns(sorted2, Len(inner))
  BY DEF JInv, JTypes, NextOuterSorted, RunsRight, Merging
<1>2. /\ Algorithm(query) = "SM" /\ type \in Types /\ outer \in Seq(Int) /\ inner \in Seq(Int)
      /\ Len(outer) \in Nat /\ Len(inner) \in Nat
  BY <1>1, PlacesAre, QueryIs
<1>3. NextRight(type, outer, sorted1, rec, new)
  <2> HIDE DEF call
  <2> QED
    BY <1>1, <1>2, NextOfIs DEF call
<1>4. /\ SameRecs(sorted1, new) /\ GoodRuns(new, Len(outer))
      /\ rec = 0 => Remaining(sorted1) = {}
      /\ rec # 0 =>
           /\ rec \in Remaining(sorted1) /\ rec \in 1 .. Len(outer)
           /\ Remaining(new) = Remaining(sorted1) \ {rec}
           /\ (\A a, b \in ToSet(outer) : Exact(type, a, b)) /\ InOrder(outer, sorted1) =>
                \A r \in Remaining(sorted1) : outer[rec] <= outer[r]
  BY <1>3 DEF NextRight
<1>5. IF rec = 0 THEN Return("OK") /\ UNCHANGED <<outerRec, sorted2>>
      ELSE /\ outerRec' = rec
           /\ sorted2' \in (IF outerRec = 0 THEN {sorted2} ELSE B)
           /\ pc' = "skip"
           /\ UNCHANGED status
  BY DEF NextOuterSorted
<1> HIDE DEF call, rec, new
<1>6. CASE rec = 0
  <2>1. pc' = "done" /\ outerRec' = outerRec
    BY <1>5, <1>6 DEF Return
  <2>2. \A i, j : ~Ahead(i, j)
    BY <1>1, <1>4, <1>6 DEF Ahead
  <2> QED
    BY <1>1, <2>1, <2>2, EndsRight DEF hashed
<1>7. CASE rec # 0
  <2>1. /\ outerRec' = rec /\ pc' = "skip" /\ rec \in Outers
        /\ sorted2' \in (IF outerRec = 0 THEN {sorted2} ELSE B)
    BY <1>4, <1>5, <1>7 DEF Outers
  <2>2. SameRecs(sorted2, sorted2') /\ GoodRuns(sorted2', Len(inner))
    BY <1>1, <2>1 DEF SameRecs
  <2>3. \A i, j : Ahead(i, j)' <=> Ahead(i, j)
    BY <1>1, <1>4, <1>7, <2>1 DEF Ahead
  <2>4. OnlyAhead({}) /\ AllOfThose({})
    BY <2>3 DEF OnlyAhead, AllOfThose
  <2>5. /\ result' \in [Outers' \X Inners' -> Nat] /\ NoneInvented' /\ Fresh' /\ AllFound'
    BY <1>1, <2>4, NothingNew, PairsKept
  <2>6. TableRight'
    BY <1>1, <1>2, NoTable
  <2>7. RunsRight'
    BY <1>1, <1>4, <1>7, <2>1, <2>2 DEF RunsRight, Merging
  <2>8. InMerge'
    <3> SUFFICES ASSUME Undisturbed'
                 PROVE  /\ InOrder(outer, sorted1') /\ InOrder(inner, sorted2')
                        /\ \A i \in Remaining(sorted1') : outer[rec] <= outer[i]
                        /\ \A j \in Inners \ Remaining(sorted2') : inner[j] < outer[rec]
      BY <1>1, <2>1 DEF InMerge, Merging
    <3>1. /\ Undisturbed /\ Faithful /\ troubles' = 0 /\ InOrder(outer, sorted1) /\ InOrder(inner, sorted2)
          /\ outerRec # 0 => /\ \A i \in Remaining(sorted1) : outer[outerRec] <= outer[i]
                             /\ \A j \in Inners \ MarkedRest(sorted2) : inner[j] < outer[outerRec]
          /\ outerRec = 0 => Remaining(sorted2) = Inners
      BY <1>1 DEF Undisturbed, InMerge, Merging
    <3>2. InOrder(outer, sorted1') /\ InOrder(inner, sorted2')
      BY <1>1, <1>4, <2>2, <3>1, SameOrder
    <3>3. \A r \in Remaining(sorted1) : outer[rec] <= outer[r]
      BY <1>1, <1>2, <1>4, <1>7, <3>1, MergeFaithful
    <3>4. \A j \in Inners \ Remaining(sorted2') : inner[j] < outer[rec]
      <4>1. CASE outerRec = 0
        BY <2>1, <3>1, <4>1
      <4>2. CASE outerRec # 0
        <5>1. Remaining(sorted2') = MarkedRest(sorted2)
          BY <2>1, <3>1, <4>2
        <5>2. outer[outerRec] <= outer[rec] /\ outer[outerRec] \in Int /\ outer[rec] \in Int
          <6>1. outerRec \in Outers
            BY <1>1, <1>2, <4>2 DEF Outers
          <6> QED
            BY <1>1, <1>4, <1>7, <2>1, <3>1, <4>2, <6>1, QueryIs
        <5>3. \A j \in Inners : inner[j] \in Int
          BY <1>1, QueryIs
        <5> QED
          BY <3>1, <4>2, <5>1, <5>2, <5>3
      <4> QED
        BY <4>1, <4>2
    <3> QED
      BY <1>1, <1>4, <1>7, <3>2, <3>3, <3>4
  <2>9. JTypes'
    BY <1>1, <1>2, <1>4, <1>7, <2>1, <2>5, PlacesAre DEF JTypes
  <2> QED
    BY <2>5, <2>6, <2>7, <2>8, <2>9 DEF JInv
<1> QED
  BY <1>6, <1>7

(* The step back is taken. *)
LEMMA NextOuterOfKeeps ==
  ASSUME JInv, InPlace, NextOuterOf
  PROVE  JInv'
<1>1. /\ JTypes /\ NextOuterSorted(GotoMark(sorted2)) /\ troubles' = troubles /\ troubles \in Nat
  BY DEF JInv, JTypes, NextOuterOf, Back
<1>2. GoodRuns(sorted2, Len(inner)) /\ Len(inner) \in Nat
  BY <1>1, QueryIs DEF JInv, RunsRight, Merging, NextOuterSorted
<1>3. troubles' = 0 => Placed(sorted2)
  BY <1>1 DEF InPlace, Merging, NextOuterSorted
<1> DEFINE B == GotoMark(sorted2)
<1>4. \A runs \in B : /\ SameRecs(sorted2, runs) /\ GoodRuns(runs, Len(inner))
                      /\ Placed(sorted2) => Remaining(runs) = MarkedRest(sorted2)
  BY <1>2, GoneBack
<1> HIDE DEF B
<1>5. NextOuterSorted(B)
  BY <1>1 DEF B
<1> QED
  BY <1>1, <1>3, <1>4, <1>5, NextOuterSortedKeeps

(* The process ends there. *)
LEMMA GoBackCrashesKeeps ==
  ASSUME JInv, GoBackCrashes
  PROVE  JInv'
<1>1. /\ UNCHANGED inputs /\ UNCHANGED hashed /\ outerRec' = outerRec /\ innerRec' = innerRec
      /\ pc = "nextOuter" /\ pc' = "dead" /\ result' = result /\ troubles' = troubles
  BY DEF GoBackCrashes, GoesBack
<1> QED
  BY <1>1, EndsRight DEF JInv, JTypes, hashed

(* What is known while inner tuples are gone through. *)
LEMMA InnerFacts ==
  ASSUME JInv, pc \in {"skip", "emit"}
  PROVE  /\ JTypes /\ TableRight /\ RunsRight /\ NoneInvented /\ Fresh /\ AllFound /\ InMerge
         /\ Algorithm(query) = "SM" /\ type \in Types /\ outer \in Seq(Int) /\ inner \in Seq(Int)
         /\ Len(outer) \in Nat /\ Len(inner) \in Nat /\ troubles \in Nat
         /\ outerRec \in Outers /\ outerRec \in 0 .. Len(outer) /\ innerRec \in 0 .. Len(inner)
         /\ outer[outerRec] \in Int /\ \A j \in Inners : inner[j] \in Int
         /\ GoodRuns(sorted1, Len(outer)) /\ GoodRuns(sorted2, Len(inner)) /\ outerRec \notin Remaining(sorted1)
<1>1. JTypes
  BY DEF JInv
<1>2. /\ Algorithm(query) = "SM" /\ type \in Types /\ outer \in Seq(Int) /\ inner \in Seq(Int)
      /\ Len(outer) \in Nat /\ Len(inner) \in Nat
  BY <1>1, PlacesAre, QueryIs
<1>3. outerRec \in 0 .. Len(outer) /\ outerRec # 0 /\ innerRec \in 0 .. Len(inner) /\ troubles \in Nat
  BY <1>1 DEF JTypes
<1>4. outerRec \in Outers
  BY <1>2, <1>3 DEF Outers
<1>5. outer[outerRec] \in Int /\ \A j \in Inners : inner[j] \in Int
  BY <1>1, <1>4, QueryIs
<1> QED
  BY <1>2, <1>3, <1>4, <1>5 DEF JInv, RunsRight, Merging

(* No inner tuple is left that is not smaller. *)
LEMMA InnerEndsKeeps ==
  ASSUME JInv, pc = "skip", UNCHANGED <<inputs, outerRec, hashed, sorted1>>,
         NEW runs, GoodRuns(runs, Len(inner)), SameRecs(sorted2, runs), InnerEnds(runs),
         troubles' \in Nat, troubles' = 0 => troubles = 0,
         troubles' = 0 => Remaining(sorted2) = {}
  PROVE  JInv'
<1> USE SameQuery
<1>1. /\ JTypes /\ TableRight /\ NoneInvented /\ Fresh /\ AllFound /\ InMerge
      /\ Algorithm(query) = "SM" /\ Len(inner) \in Nat
      /\ outerRec \in Outers /\ outerRec \in 0 .. Len(outer) /\ innerRec \in 0 .. Len(inner)
      /\ outer[outerRec] \in Int /\ \A j \in Inners : inner[j] \in Int
      /\ GoodRuns(sorted1, Len(outer)) /\ outerRec \notin Remaining(sorted1)
  BY InnerFacts
<1>2. /\ UNCHANGED inputs /\ UNCHANGED hashed /\ outerRec' = outerRec /\ sorted1' = sorted1
      /\ pc' = "nextOuter" /\ innerRec' = innerRec /\ result' = result /\ sorted2' = SetMark(runs)
  BY DEF InnerEnds
<1>3. SameRecs(runs, sorted2') /\ GoodRuns(sorted2', Len(inner))
  BY <1>1, <1>2, AllOfThem
<1>4. SameRecs(sorted2, sorted2')
  BY <1>3 DEF SameRecs
<1>5. Undisturbed' =>
        /\ Undisturbed /\ InOrder(outer, sorted1) /\ InOrder(inner, sorted2)
        /\ \A i \in Remaining(sorted1) : outer[outerRec] <= outer[i]
        /\ \A j \in Inners : inner[j] < outer[outerRec]
  <2>1. Undisturbed' => Undisturbed /\ Remaining(sorted2) = {}
    BY <1>2 DEF Undisturbed
  <2>2. outerRec # 0
    BY <1>1 DEF Outers
  <2> QED
    BY <1>1, <2>1, <2>2 DEF InMerge, Merging
<1>6. OnlyAhead({})
  BY <1>2 DEF OnlyAhead, Ahead
<1>7. AllOfThose({})
  <2> SUFFICES ASSUME Undisturbed', NEW i \in Outers, NEW j \in Inners, Joined(<<i, j>>), Ahead(i, j)
               PROVE  Ahead(i, j)'
    BY DEF AllOfThose
  <2>1. Faithful
    BY <1>2 DEF Undisturbed
  <2>2. outer[i] = inner[j]
    BY <1>1, <2>1, MergeFaithful
  <2>3. i # outerRec
    BY <1>1, <1>5, <2>2
  <2> QED
    BY <1>2, <2>3 DEF Ahead
<1>8. /\ result' \in [Outers' \X Inners' -> Nat] /\ NoneInvented' /\ Fresh' /\ AllFound'
  BY <1>1, <1>2, <1>6, <1>7, NothingNew, PairsKept
<1>9. TableRight'
  BY <1>1, <1>2, NoTable
<1>10. RunsRight'
  BY <1>1, <1>2, <1>3 DEF RunsRight, Merging
<1>11. InMerge'
  <2> SUFFICES ASSUME Undisturbed'
               PROVE  /\ InOrder(outer, sorted1) /\ InOrder(inner, sorted2')
                      /\ \A i \in Remaining(sorted1) : outer[outerRec] <= outer[i]
                      /\ \A j \in Inners : inner[j] < outer[outerRec]
    BY <1>1, <1>2 DEF InMerge, Merging, Outers
  <2> QED
    BY <1>4, <1>5, SameOrder
<1>12. JTypes'
  BY <1>1, <1>2, <1>8, PlacesAre DEF JTypes
<1> QED
  BY <1>8, <1>9, <1>10, <1>11, <1>12 DEF JInv

(* Smaller inner tuples are passed over, and the first that is not smaller *)
(* is marked.                                                              *)
LEMMA SkipKeeps ==
  ASSUME JInv, Skip
  PROVE  JInv'
<1> USE SameQuery
<1> DEFINE call == NextOf(type, inner, sorted2)
           rec == call.rec
           new == call.runs
<1>0. pc = "skip" /\ UNCHANGED <<inputs, outerRec, hashed, sorted1, status, troubles>>
  BY DEF Skip
<1>1. /\ JTypes /\ TableRight /\ NoneInvented /\ Fresh /\ AllFound /\ InMerge
      /\ Algorithm(query) = "SM" /\ Len(inner) \in Nat /\ type \in Types /\ inner \in Seq(Int) /\ troubles \in Nat
      /\ outerRec \in Outers /\ outerRec \in 0 .. Len(outer) /\ innerRec \in 0 .. Len(inner)
      /\ outer[outerRec] \in Int /\ \A j \in Inners : inner[j] \in Int
      /\ GoodRuns(sorted1, Len(outer)) /\ GoodRuns(sorted2, Len(inner)) /\ outerRec \notin Remaining(sorted1)
  BY <1>0, InnerFacts
<1>2. /\ UNCHANGED inputs /\ UNCHANGED hashed /\ outerRec' = outerRec /\ sorted1' = sorted1 /\ troubles' = troubles
  BY <1>0
<1>3. NextRight(type, inner, sorted2, rec, new)
  <2> HIDE DEF call
  <2> QED
    BY <1>1, NextOfIs DEF call
<1>4. \/ rec = 0 /\ InnerEnds(new)
      \/ /\ rec # 0
         /\ \E m \in MatchRec(type, outer[outerRec], inner[rec]) :
              IF m > 0 THEN sorted2' = new /\ UNCHANGED <<innerRec, pc>>
              ELSE sorted2' = SetMark(new) /\ innerRec' = rec /\ pc' = "emit"
         /\ UNCHANGED result
  BY DEF Skip
<1> HIDE DEF call, rec, new
<1>5. SameRecs(sorted2, new) /\ GoodRuns(new, Len(inner))
  BY <1>3 DEF NextRight
<1>6. CASE rec = 0
  <2>1. InnerEnds(new) /\ Remaining(sorted2) = {}
    BY <1>3, <1>4, <1>6 DEF NextRight
  <2> QED
    BY <1>0, <1>1, <1>2, <1>5, <2>1, InnerEndsKeeps
<1>7. CASE rec # 0
  <2>1. PICK m \in MatchRec(type, outer[outerRec], inner[rec]) :
          IF m > 0 THEN sorted2' = new /\ UNCHANGED <<innerRec, pc>>
          ELSE sorted2' = SetMark(new) /\ innerRec' = rec /\ pc' = "emit"
    BY <1>4, <1>7
  <2>2. /\ result' = result /\ rec \in Remaining(sorted2) /\ rec \in Inners /\ rec \in 0 .. Len(inner)
        /\ Remaining(new) = Remaining(sorted2) \ {rec}
        /\ MarkedRest(SetMark(new)) = Remaining(sorted2)
        /\ (\A a, b \in ToSet(inner) : Exact(type, a, b)) /\ InOrder(inner, sorted2) =>
                \A r \in Remaining(sorted2) : inner[rec] <= inner[r]
    BY <1>3, <1>4, <1>7 DEF NextRight, Inners
  <2>3. /\ SameRecs(new, SetMark(new)) /\ GoodRuns(SetMark(new), Len(inner))
        /\ Remaining(SetMark(new)) = Remaining(new)
    BY <1>1, <1>5, AllOfThem
  <2>4. Undisturbed =>
          /\ InOrder(outer, sorted1) /\ InOrder(inner, sorted2)
          /\ \A i \in Remaining(sorted1) : outer[outerRec] <= outer[i]
          /\ \A j \in Inners \ Remaining(sorted2) : inner[j] < outer[outerRec]
          /\ \A r \in Remaining(sorted2) : inner[rec] <= inner[r]
          /\ m \in Int /\ (m > 0 <=> outer[outerRec] > inner[rec])
    <3> SUFFICES ASSUME Undisturbed
                 PROVE  /\ InOrder(outer, sorted1) /\ InOrder(inner, sorted2)
                        /\ \A i \in Remaining(sorted1) : outer[outerRec] <= outer[i]
                        /\ \A j \in Inners \ Remaining(sorted2) : inner[j] < outer[outerRec]
                        /\ \A r \in Remaining(sorted2) : inner[rec] <= inner[r]
                        /\ m \in Int /\ (m > 0 <=> outer[outerRec] > inner[rec])
      OBVIOUS
    <3>1. Faithful
      BY DEF Undisturbed
    <3>2. /\ \A a, b \in ToSet(inner) : Exact(type, a, b)
          /\ m \in Int /\ (m > 0 <=> outer[outerRec] > inner[rec])
      BY <1>1, <2>1, <2>2, <3>1, MergeFaithful
    <3>3. /\ InOrder(outer, sorted1) /\ InOrder(inner, sorted2)
          /\ \A i \in Remaining(sorted1) : outer[outerRec] <= outer[i]
          /\ \A j \in Inners \ Remaining(sorted2) : inner[j] < outer[outerRec]
      <4>1. outerRec # 0
        BY <1>1 DEF Outers
      <4> QED
        BY <1>0, <1>1, <4>1 DEF InMerge, Merging
    <3> QED
      BY <2>2, <3>2, <3>3
  <2>5. TableRight'
    BY <1>1, <1>2, NoTable
  <2>6. Undisturbed' <=> Undisturbed
    BY <1>2 DEF Undisturbed
  <2>7. outerRec # 0
    BY <1>1 DEF Outers
  <2>8. CASE m > 0
    <3>1. sorted2' = new /\ innerRec' = innerRec /\ pc' = "skip"
      BY <1>0, <2>1, <2>8
    <3>2. \A i, j : Ahead(i, j)' <=> Ahead(i, j)
      BY <1>0, <1>2, <3>1 DEF Ahead
    <3>3. OnlyAhead({}) /\ AllOfThose({})
      BY <3>2 DEF OnlyAhead, AllOfThose
    <3>4. /\ result' \in [Outers' \X Inners' -> Nat] /\ NoneInvented' /\ Fresh' /\ AllFound'
      BY <1>0, <1>1, <1>2, <2>2, <3>3, NothingNew, PairsKept
    <3>5. RunsRight'
      BY <1>1, <1>2, <1>5, <3>1 DEF RunsRight, Merging
    <3>6. InMerge'
      <4> SUFFICES ASSUME Undisturbed
                   PROVE  /\ InOrder(outer, sorted1) /\ InOrder(inner, new)
                          /\ \A i \in Remaining(sorted1) : outer[outerRec] <= outer[i]
                          /\ \A j \in Inners \ Remaining(new) : inner[j] < outer[outerRec]
        BY <1>1, <1>2, <2>6, <3>1 DEF InMerge, Merging
      <4>1. inner[rec] < outer[outerRec]
        BY <1>1, <2>2, <2>4, <2>8
      <4> QED
        BY <1>5, <2>2, <2>4, <4>1, SameOrder
    <3>7. JTypes'
      BY <1>1, <1>2, <2>7, <3>1, <3>4, PlacesAre DEF JTypes
    <3> QED
      BY <2>5, <3>4, <3>5, <3>6, <3>7 DEF JInv
  <2>9. CASE ~(m > 0)
    <3>1. sorted2' = SetMark(new) /\ innerRec' = rec /\ pc' = "emit"
      BY <2>1, <2>9
    <3>2. /\ GoodRuns(sorted2', Len(inner)) /\ Remaining(sorted2') = Remaining(sorted2) \ {rec}
          /\ MarkedRest(sorted2') = Remaining(sorted2)
      BY <2>2, <2>3, <3>1
    <3>3. \A i, j : /\ Ahead(i, j) <=> i \in Remaining(sorted1) \/ i = outerRec
                    /\ Ahead(i, j)' <=> \/ i \in Remaining(sorted1)
                                        \/ i = outerRec /\ (j = rec \/ j \in Remaining(sorted2'))
      BY <1>0, <1>2, <3>1 DEF Ahead
    <3>4. OnlyAhead({})
      BY <3>3 DEF OnlyAhead
    <3>5. AllOfThose({})
      <4> SUFFICES ASSUME Undisturbed, NEW i \in Outers, NEW j \in Inners, Joined(<<i, j>>), Ahead(i, j)
                   PROVE  Ahead(i, j)'
        BY <2>6 DEF AllOfThose
      <4>1. outer[i] = inner[j]
        BY <1>1, MergeFaithful DEF Undisturbed
      <4>2. i = outerRec => j \in Remaining(sorted2)
        BY <1>1, <2>4, <4>1
      <4> QED
        BY <3>2, <3>3, <4>2
    <3>6. /\ result' \in [Outers' \X Inners' -> Nat] /\ NoneInvented' /\ Fresh' /\ AllFound'
      BY <1>0, <1>1, <1>2, <2>2, <3>4, <3>5, NothingNew, PairsKept
    <3>7. RunsRight'
      BY <1>1, <1>2, <3>1, <3>2 DEF RunsRight, Merging
    <3>8. InMerge'
      <4> SUFFICES ASSUME Undisturbed
                   PROVE  /\ InOrder(outer, sorted1) /\ InOrder(inner, sorted2')
                          /\ \A i \in Remaining(sorted1) : outer[outerRec] <= outer[i]
                          /\ \A j \in Inners \ MarkedRest(sorted2') : inner[j] < outer[outerRec]
                          /\ outer[outerRec] <= inner[rec]
                          /\ \A j \in Remaining(sorted2') : inner[rec] <= inner[j]
        BY <1>1, <1>2, <2>6, <3>1 DEF InMerge, Merging
      <4>1. outer[outerRec] <= inner[rec]
        BY <1>1, <2>2, <2>4, <2>9
      <4>2. InOrder(inner, sorted2')
        BY <1>5, <2>3, <2>4, <3>1, SameOrder
      <4> QED
        BY <2>4, <3>2, <4>1, <4>2
    <3>9. JTypes'
      <4>1. rec # 0 /\ rec \in 0 .. Len(inner)
        BY <1>7, <2>2
      <4> QED
        BY <1>1, <1>2, <2>7, <3>1, <3>6, <4>1, PlacesAre DEF JTypes
    <3> QED
      BY <2>5, <3>6, <3>7, <3>8, <3>9 DEF JInv
  <2> QED
    BY <2>8, <2>9
<1> QED
  BY <1>6, <1>7

(* The inner tuples that match an outer one come to an end. *)
LEMMA EmitEndsKeeps ==
  ASSUME JInv, pc = "emit", pc' = "nextOuter", UNCHANGED <<inputs, outerRec, innerRec, hashed, sorted1>>,
         GoodRuns(sorted2', Len(inner)), SameRecs(sorted2, sorted2'),
         MarkedRest(sorted2') = MarkedRest(sorted2), troubles' \in Nat, troubles' = 0 => troubles = 0,
         NEW P, Output(P),
         Faithful => \A i, j : <<i, j>> \in P => i = outerRec /\ j = innerRec /\ outer[i] = inner[j],
         Undisturbed' =>
           \A j \in Inners : (j = innerRec \/ j \in Remaining(sorted2)) /\ outer[outerRec] = inner[j] =>
             <<outerRec, j>> \in P
  PROVE  JInv'
<1> USE SameQuery
<1>1. /\ JTypes /\ TableRight /\ NoneInvented /\ Fresh /\ AllFound /\ InMerge
      /\ Algorithm(query) = "SM"
      /\ outerRec \in Outers /\ outerRec \in 0 .. Len(outer) /\ innerRec \in 0 .. Len(inner)
      /\ GoodRuns(sorted1, Len(outer)) /\ outerRec \notin Remaining(sorted1)
  BY InnerFacts
<1>2. /\ UNCHANGED inputs /\ UNCHANGED hashed /\ outerRec' = outerRec /\ innerRec' = innerRec
      /\ sorted1' = sorted1
  OBVIOUS
<1>3. \A i, j : /\ Ahead(i, j) <=> \/ i \in Remaining(sorted1)
                                   \/ i = outerRec /\ (j = innerRec \/ j \in Remaining(sorted2))
                /\ Ahead(i, j)' <=> i \in Remaining(sorted1)
  BY <1>2 DEF Ahead
<1>4. Faithful => \A i \in Outers, j \in Inners : Joined(<<i, j>>) <=> outer[i] = inner[j]
  BY <1>1, MergeFaithful
<1>5. OnlyAhead(P)
  BY <1>1, <1>3, <1>4 DEF OnlyAhead
<1>6. AllOfThose(P)
  <2> SUFFICES ASSUME Undisturbed', NEW i \in Outers, NEW j \in Inners, Joined(<<i, j>>), Ahead(i, j), ~Ahead(i, j)'
               PROVE  <<i, j>> \in P
    BY DEF AllOfThose
  <2>1. Faithful
    BY <1>2 DEF Undisturbed
  <2> QED
    BY <1>3, <1>4, <2>1
<1>7. /\ result' \in [Outers' \X Inners' -> Nat] /\ NoneInvented' /\ Fresh' /\ AllFound'
  BY <1>1, <1>2, <1>5, <1>6, PairsKept
<1>8. TableRight'
  BY <1>1, <1>2, NoTable
<1>9. RunsRight'
  BY <1>1, <1>2 DEF RunsRight, Merging
<1>10. InMerge'
  <2>1. outerRec # 0
    BY <1>1 DEF Outers
  <2> SUFFICES ASSUME Undisturbed'
               PROVE  /\ InOrder(outer, sorted1) /\ InOrder(inner, sorted2')
                      /\ \A i \in Remaining(sorted1) : outer[outerRec] <= outer[i]
                      /\ \A j \in Inners \ MarkedRest(sorted2) : inner[j] < outer[outerRec]
    BY <1>1, <1>2, <2>1 DEF InMerge, Merging
  <2>2. Undisturbed
    BY <1>2 DEF Undisturbed
  <2>3. /\ InOrder(outer, sorted1) /\ InOrder(inner, sorted2)
        /\ \A i \in Remaining(sorted1) : outer[outerRec] <= outer[i]
        /\ \A j \in Inners \ MarkedRest(sorted2) : inner[j] < outer[outerRec]
    BY <1>1, <2>1, <2>2 DEF InMerge, Merging
  <2> QED
    BY <2>3, SameOrder
<1>11. JTypes'
  BY <1>1, <1>2, <1>7, PlacesAre DEF JTypes
<1> QED
  BY <1>7, <1>8, <1>9, <1>10, <1>11 DEF JInv

(* An inner tuple that matches is put into the result, and the next one is *)
(* looked at.                                                              *)
LEMMA EmitKeeps ==
  ASSUME JInv, Emit
  PROVE  JInv'
<1> USE SameQuery
<1> DEFINE call == NextOf(type, inner, sorted2)
           rec == call.rec
           new == call.runs
<1>0. pc = "emit" /\ UNCHANGED <<inputs, outerRec, hashed, sorted1, status, troubles>>
  BY DEF Emit
<1>1. /\ JTypes /\ TableRight /\ RunsRight /\ NoneInvented /\ Fresh /\ AllFound /\ InMerge
      /\ Algorithm(query) = "SM" /\ Len(inner) \in Nat /\ type \in Types /\ inner \in Seq(Int) /\ troubles \in Nat
      /\ outerRec \in Outers /\ outerRec \in 0 .. Len(outer) /\ innerRec \in 0 .. Len(inner)
      /\ outer[outerRec] \in Int /\ \A j \in Inners : inner[j] \in Int
      /\ GoodRuns(sorted1, Len(outer)) /\ GoodRuns(sorted2, Len(inner)) /\ outerRec \notin Remaining(sorted1)
  BY <1>0, InnerFacts
<1>2. innerRec \in Inners /\ innerRec # 0 /\ innerRec \notin Remaining(sorted2)
  BY <1>0, <1>1 DEF JTypes, Inners, RunsRight
<1>3. /\ UNCHANGED inputs /\ UNCHANGED hashed /\ outerRec' = outerRec /\ sorted1' = sorted1
      /\ troubles' = troubles /\ (Undisturbed' <=> Undisturbed)
  BY <1>0 DEF Undisturbed
<1>4. NextRight(type, inner, sorted2, rec, new)
  <2> HIDE DEF call
  <2> QED
    BY <1>1, NextOfIs DEF call
<1>5. PICK m \in MatchRec(type, outer[outerRec], inner[innerRec]) :
        IF m # 0 THEN pc' = "nextOuter" /\ UNCHANGED <<innerRec, sorted2, result>>
        ELSE /\ Output({Pair(outerRec, innerRec)})
             /\ sorted2' = new
             /\ IF rec = 0 THEN pc' = "nextOuter" /\ UNCHANGED innerRec
                ELSE innerRec' = rec /\ UNCHANGED pc
  BY DEF Emit
<1> HIDE DEF call, rec, new
<1>6. Faithful => /\ m \in Int /\ (m = 0 <=> outer[outerRec] = inner[innerRec])
                  /\ \A a, b \in ToSet(inner) : Exact(type, a, b)
                  /\ \A i \in Outers, j \in Inners : Joined(<<i, j>>) <=> outer[i] = inner[j]
  BY <1>1, <1>2, <1>5, MergeFaithful
<1>7. Undisturbed =>
        /\ Faithful /\ InOrder(outer, sorted1) /\ InOrder(inner, sorted2)
        /\ \A i \in Remaining(sorted1) : outer[outerRec] <= outer[i]
        /\ \A j \in Inners \ MarkedRest(sorted2) : inner[j] < outer[outerRec]
        /\ outer[outerRec] <= inner[innerRec]
        /\ \A j \in Remaining(sorted2) : inner[innerRec] <= inner[j]
  <2>1. outerRec # 0
    BY <1>1 DEF Outers
  <2> QED
    BY <1>0, <1>1, <2>1 DEF InMerge, Merging, Undisturbed
<1>8. /\ SameRecs(sorted2, new) /\ GoodRuns(new, Len(inner)) /\ MarkedRest(new) = MarkedRest(sorted2)
      /\ rec = 0 => Remaining(sorted2) = {}
      /\ rec # 0 => /\ rec \in Remaining(sorted2) /\ rec \in Inners /\ rec \in 0 .. Len(inner)
                    /\ Remaining(new) = Remaining(sorted2) \ {rec}
  BY <1>4 DEF NextRight, Inners
<1>9. CASE m # 0
  <2>1. /\ pc' = "nextOuter" /\ innerRec' = innerRec /\ sorted2' = sorted2 /\ result' = result
    BY <1>5, <1>9
  <2>2. Output({})
    BY <1>1, <2>1, NothingNew
  <2>3. Undisturbed' =>
          \A j \in Inners : (j = innerRec \/ j \in Remaining(sorted2)) => outer[outerRec] # inner[j]
    <3> SUFFICES ASSUME Undisturbed, NEW j \in Inners, j = innerRec \/ j \in Remaining(sorted2)
                 PROVE  outer[outerRec] # inner[j]
      BY <1>3
    <3>1. outer[outerRec] < inner[innerRec] /\ inner[innerRec] <= inner[j]
      BY <1>1, <1>2, <1>6, <1>7, <1>9
    <3> QED
      BY <1>1, <1>2, <3>1
  <2>4. SameRecs(sorted2, sorted2')
    BY <2>1 DEF SameRecs
  <2>5. UNCHANGED <<inputs, outerRec, innerRec, hashed, sorted1>>
    BY <1>3, <2>1
  <2> QED
    BY <1>0, <1>1, <1>3, <2>1, <2>2, <2>3, <2>4, <2>5, EmitEndsKeeps
<1>10. CASE m = 0
  <2> DEFINE P == {Pair(outerRec, innerRec)}
  <2>1. /\ Output(P) /\ sorted2' = new
        /\ IF rec = 0 THEN pc' = "nextOuter" /\ UNCHANGED innerRec ELSE innerRec' = rec /\ UNCHANGED pc
    BY <1>5, <1>10
  <2>2. Faithful => \A i, j : <<i, j>> \in P <=> i = outerRec /\ j = innerRec
    BY PairIs
  <2> HIDE DEF P
  <2>3. Faithful => outer[outerRec] = inner[innerRec]
    BY <1>6, <1>10
  <2>4. CASE rec = 0
    <3>1. pc' = "nextOuter" /\ innerRec' = innerRec /\ Remaining(sorted2) = {}
      BY <1>8, <2>1, <2>4
    <3>2. Faithful => \A i, j : <<i, j>> \in P => i = outerRec /\ j = innerRec /\ outer[i] = inner[j]
      BY <2>2, <2>3
    <3>3. Undisturbed' =>
            \A j \in Inners : (j = innerRec \/ j \in Remaining(sorted2)) /\ outer[outerRec] = inner[j] =>
              <<outerRec, j>> \in P
      BY <1>3, <1>7, <2>2, <3>1
    <3>4. UNCHANGED <<inputs, outerRec, innerRec, hashed, sorted1>>
      BY <1>3, <3>1
    <3> QED
      BY <1>0, <1>1, <1>3, <1>8, <2>1, <3>1, <3>2, <3>3, <3>4, EmitEndsKeeps
  <2>5. CASE rec # 0
    <3>1. /\ pc' = "emit" /\ innerRec' = rec /\ rec \in Remaining(sorted2) /\ rec \in Inners
          /\ rec \in 0 .. Len(inner) /\ Remaining(sorted2') = Remaining(sorted2) \ {rec}
          /\ SameRecs(sorted2, sorted2') /\ GoodRuns(sorted2', Len(inner))
          /\ MarkedRest(sorted2') = MarkedRest(sorted2)
      BY <1>0, <1>8, <2>1, <2>5
    <3>2. \A i, j : /\ Ahead(i, j) <=> \/ i \in Remaining(sorted1)
                                       \/ i = outerRec /\ (j = innerRec \/ j \in Remaining(sorted2))
                    /\ Ahead(i, j)' <=> \/ i \in Remaining(sorted1)
                                        \/ i = outerRec /\ j \in Remaining(sorted2)
      BY <1>0, <1>3, <3>1 DEF Ahead
    <3>3. OnlyAhead(P)
      <4> SUFFICES ASSUME Faithful, NEW i \in Outers, NEW j \in Inners
                   PROVE  /\ Ahead(i, j)' => Ahead(i, j)
                          /\ <<i, j>> \in P => Joined(<<i, j>>) /\ Ahead(i, j) /\ ~Ahead(i, j)'
        BY DEF OnlyAhead
      <4>1. Ahead(i, j)' => Ahead(i, j)
        BY <3>2
      <4>2. ASSUME <<i, j>> \in P PROVE Joined(<<i, j>>) /\ Ahead(i, j) /\ ~Ahead(i, j)'
        <5>1. i = outerRec /\ j = innerRec
          BY <2>2, <4>2
        <5>2. Joined(<<i, j>>)
          BY <1>6, <2>3, <5>1
        <5> QED
          BY <1>1, <1>2, <3>2, <5>1, <5>2
      <4> QED
        BY <4>1, <4>2
    <3>4. AllOfThose(P)
      BY <1>3, <2>2, <3>2 DEF AllOfThose, Undisturbed
    <3>5. /\ result' \in [Outers' \X Inners' -> Nat] /\ NoneInvented' /\ Fresh' /\ AllFound'
      BY <1>0, <1>1, <1>3, <2>1, <3>3, <3>4, PairsKept
    <3>6. TableRight'
      BY <1>1, <1>3, NoTable
    <3>7. RunsRight'
      BY <1>1, <1>3, <3>1 DEF RunsRight, Merging
    <3>8. InMerge'
      <4> SUFFICES ASSUME Undisturbed
                   PROVE  /\ InOrder(outer, sorted1) /\ InOrder(inner, sorted2')
                          /\ \A i \in Remaining(sorted1) : outer[outerRec] <= outer[i]
                          /\ \A j \in Inners \ MarkedRest(sorted2) : inner[j] < outer[outerRec]
                          /\ outer[outerRec] <= inner[rec]
                          /\ \A j \in Remaining(sorted2) : inner[rec] <= inner[j]
        BY <1>1, <1>3, <3>1 DEF InMerge, Merging
      <4>1. \A r \in Remaining(sorted2) : inner[rec] <= inner[r]
        BY <1>4, <1>6, <1>7, <2>5 DEF NextRight
      <4>2. outer[outerRec] <= inner[rec]
        BY <1>1, <1>2, <1>7, <3>1
      <4>3. InOrder(inner, sorted2')
        BY <1>7, <3>1, SameOrder
      <4> QED
        BY <1>7, <4>1, <4>2, <4>3
    <3>9. JTypes'
      <4>1. outerRec # 0
        BY <1>1 DEF Outers
      <4> QED
        BY <1>1, <1>3, <2>5, <3>1, <3>5, <4>1, PlacesAre DEF JTypes
    <3> QED
      BY <3>5, <3>6, <3>7, <3>8, <3>9 DEF JInv
  <2> QED
    BY <2>4, <2>5
<1> QED
  BY <1>9, <1>10

(* A call fails in the merge. *)
LEMMA MergeFailsKeeps ==
  ASSUME JInv, MergeFails
  PROVE  JInv'
<1> USE SameQuery
<1>1. /\ JTypes /\ troubles \in Nat /\ troubles' = troubles + 1 /\ UNCHANGED inputs /\ UNCHANGED hashed
  BY DEF JInv, JTypes, MergeFails, Trouble
<1>2. troubles' \in Nat /\ troubles' # 0 /\ ~Undisturbed'
  BY <1>1 DEF Undisturbed
<1>3. CASE /\ pc = "nextOuter"
           /\ sorted1' \in NextFailed(sorted1)
           /\ Return("OK")
           /\ UNCHANGED <<outerRec, innerRec, sorted2, result>>
  BY <1>1, <1>2, <1>3, EndsRight DEF Return, hashed
<1>4. CASE /\ pc = "skip"
           /\ \E runs \in NextFailed(sorted2) : InnerEnds(runs)
           /\ UNCHANGED <<outerRec, sorted1, status>>
  <2>1. PICK runs \in NextFailed(sorted2) : InnerEnds(runs)
    BY <1>4
  <2>2. Len(inner) \in Nat /\ GoodRuns(sorted2, Len(inner))
    BY <1>4, InnerFacts
  <2>3. SameRecs(sorted2, runs) /\ GoodRuns(runs, Len(inner))
    BY <2>2, FailedIs
  <2>4. UNCHANGED <<inputs, outerRec, hashed, sorted1>>
    BY <1>1, <1>4
  <2> QED
    BY <1>1, <1>2, <1>4, <2>1, <2>3, <2>4, InnerEndsKeeps
<1>5. CASE /\ pc = "emit" /\ 0 \in MatchRec(type, outer[outerRec], inner[innerRec])
           /\ sorted2' \in NextFailed(sorted2)
           /\ Output({Pair(outerRec, innerRec)})
           /\ pc' = "nextOuter"
           /\ UNCHANGED <<outerRec, innerRec, sorted1, status>>
  <2> DEFINE P == {Pair(outerRec, innerRec)}
  <2>1. /\ Len(inner) \in Nat /\ GoodRuns(sorted2, Len(inner)) /\ RunsRight /\ Algorithm(query) = "SM"
        /\ outerRec \in Outers /\ innerRec \in 0 .. Len(inner)
    BY <1>5, InnerFacts
  <2>2. innerRec \in Inners
    BY <1>1, <1>5, <2>1 DEF JTypes, Inners
  <2>3. /\ SameRecs(sorted2, sorted2') /\ GoodRuns(sorted2', Len(inner))
        /\ MarkedRest(sorted2') = MarkedRest(sorted2)
    BY <1>5, <2>1, FailedIs
  <2>4. Faithful => outer[outerRec] = inner[innerRec]
    BY <1>1, <1>5, <2>1, <2>2, MergeFaithful
  <2>5. Faithful => \A i, j : <<i, j>> \in P => i = outerRec /\ j = innerRec /\ outer[i] = inner[j]
    BY <2>4, PairIs
  <2>6. Output(P)
    BY <1>5
  <2> HIDE DEF P
  <2>7. UNCHANGED <<inputs, outerRec, innerRec, hashed, sorted1>>
    BY <1>1, <1>5
  <2> QED
    BY <1>1, <1>2, <1>5, <2>3, <2>5, <2>6, <2>7, EmitEndsKeeps
<1> QED
  BY <1>3, <1>4, <1>5 DEF MergeFails
-----------------------------------------------------------------------------
(* Theorems.                                                               *)

(* As long as no call fails, the scans of the inner runs have their pages. *)
LEMMA InPlaceKept ==
  ASSUME JInv, InPlace, Step
  PROVE  InPlace'
<1> USE SameQuery
<1>1. /\ JTypes /\ type \in Types /\ inner \in Seq(Int) /\ Len(inner) \in Nat
      /\ Merging => GoodRuns(sorted2, Len(inner))
  BY QueryIs DEF JInv, RunsRight
<1> DEFINE call == NextOf(type, inner, sorted2)
<1>2. Merging => \A runs : runs = call.runs => /\ Placed(sorted2) => Placed(runs) /\ Placed(SetMark(runs))
                                             /\ GoodRuns(runs, Len(inner))
  <2> SUFFICES ASSUME Merging
               PROVE  /\ Placed(sorted2) => Placed(call.runs) /\ Placed(SetMark(call.runs))
                      /\ GoodRuns(call.runs, Len(inner))
    OBVIOUS
  <2>1. NextRight(type, inner, sorted2, call.rec, call.runs)
    <3> HIDE DEF call
    <3> QED
      BY <1>1, NextOfIs DEF call
  <2> HIDE DEF call
  <2>2. GoodRuns(call.runs, Len(inner)) /\ (Placed(sorted2) => Placed(call.runs))
    BY <2>1 DEF NextRight
  <2> QED
    BY <1>1, <2>2, AllOfThem
<1>3. CASE ~Merging'
  BY <1>3 DEF InPlace
<1>4. CASE SortInner /\ Merging'
  <2>1. pc' \in {"nextOuter", "done", "dead"}
    BY <1>4 DEF SortInner, SortFailed
  <2>2. pc' = "nextOuter"
    BY <1>4, <2>1 DEF Merging
  <2>3. PICK runs \in RunsOf(inner) : sorted2' = SetMark(runs)
    BY <1>4, <2>2 DEF SortInner, SortFailed
  <2>4. Placed(runs) /\ GoodRuns(runs, Len(inner))
    BY <1>1, RunsOfIs
  <2> QED
    BY <1>1, <2>3, <2>4, AllOfThem DEF InPlace
<1>5. CASE NextOuterOf
  <2>1. /\ pc = "nextOuter" /\ troubles' = troubles
        /\ sorted2' = sorted2 \/ sorted2' \in GotoMark(sorted2)
    BY <1>5 DEF NextOuterOf, NextOuterSorted, Back
  <2>2. \A runs \in GotoMark(sorted2) : Placed(sorted2) => Placed(runs)
    BY <1>1, <2>1, GoneBack DEF Merging
  <2> QED
    BY <2>1, <2>2 DEF InPlace, Merging
<1>6. CASE Skip
  <2>1. /\ pc = "skip" /\ troubles' = troubles
        /\ sorted2' = call.runs \/ sorted2' = SetMark(call.runs)
    BY <1>6 DEF Skip, InnerEnds
  <2> HIDE DEF call
  <2> QED
    BY <1>2, <2>1 DEF InPlace, Merging
<1>7. CASE Emit
  <2>1. /\ pc = "emit" /\ troubles' = troubles
        /\ sorted2' = sorted2 \/ sorted2' = call.runs
    BY <1>7 DEF Emit
  <2> HIDE DEF call
  <2> QED
    BY <1>2, <2>1 DEF InPlace, Merging
<1>8. CASE Merging' /\ (NextOuter \/ NextInner \/ Fill \/ Probe \/ Probed)
  BY <1>8 DEF Merging, NextOuter, NextInner, Return, Fill, BlockFull, OuterEnds, Probe, Probed, BlockDone
<1>9. CASE Merging' /\ (SortOuter \/ GoBackCrashes)
  BY <1>9 DEF Merging, SortOuter, SortFailed, GoBackCrashes
<1> QED
  BY <1>3, <1>4, <1>5, <1>6, <1>7, <1>8, <1>9 DEF Step

(* Once gotoMark has failed, it has. *)
LEMMA StaysAstray ==
  ASSUME astray, troubles \in Nat \ {0}, [Next]_vars
  PROVE  astray' /\ troubles' \in Nat \ {0}
<1>1. CASE UNCHANGED vars
  BY <1>1 DEF vars, sorted
<1>2. CASE Step
  <2>1. astray' = astray /\ troubles' = troubles
    BY <1>2 DEF Step, NextOuter, NextInner, Return, Fill, BlockFull, OuterEnds, Probe, Probed, BlockDone,
       SortOuter, SortInner, SortFailed, NextOuterOf, GoBackCrashes, Skip, InnerEnds, Emit, sorted
  <2> QED
    BY <2>1
<1>3. CASE Failure
  <2>1. (astray' = astray \/ astray' = TRUE) /\ troubles' = troubles + 1
    BY <1>3 DEF Failure, LoopFails, Aborts, FillFails, ProbeFails, OuterEnds, BlockDone, Return,
       SortFails, SortFailed, MergeFails, GoBackFails, Trouble, sorted
  <2>2. astray'
    BY <2>1, Zenon
  <2>3. troubles' \in Nat \ {0}
    BY <2>1
  <2> QED
    BY <2>2, <2>3
<1> QED
  BY <1>1, <1>2, <1>3 DEF Next

(* The invariant is inductive. *)
LEMMA JoinStep ==
  ASSUME JoinInv, [Next]_vars
  PROVE  JoinInv'
<1>1. CASE astray /\ troubles \in Nat \ {0}
  BY <1>1, StaysAstray DEF JoinInv
<1>2. CASE JInv /\ InPlace
  <2>1. CASE UNCHANGED vars
    <3>1. JInv'
      BY <1>2, <2>1 DEF vars, inputs, hashed, sorted, JInv, JTypes, TableRight, RunsRight, NoneInvented, Fresh,
                  AllFound, InMerge, Undisturbed, Merging, Ahead, InTable, Outers, Inners, type, outer, inner,
                  Faithful, Values, Joined, TableSize
    <3>2. InPlace'
      BY <1>2, <2>1 DEF vars, sorted, InPlace, Merging
    <3> QED
      BY <3>1, <3>2 DEF JoinInv
  <2>2. CASE Step
    <3>1. JInv'
      BY <1>2, <2>2, NextOuterKeeps, NextInnerKeeps, FillKeeps, ProbeKeeps, ProbedKeeps, SortOuterKeeps,
         SortInnerKeeps, NextOuterOfKeeps, GoBackCrashesKeeps, SkipKeeps, EmitKeeps DEF Step
    <3> QED
      BY <1>2, <2>2, <3>1, InPlaceKept DEF JoinInv
  <2>3. CASE Failure
    <3>1. troubles \in Nat /\ troubles' = troubles + 1
      BY <1>2, <2>3 DEF JInv, JTypes, Failure, LoopFails, Aborts, FillFails, ProbeFails,
         SortFails, MergeFails, GoBackFails, Trouble
    <3>2. InPlace'
      BY <3>1 DEF InPlace
    <3>3. GoBackFails \/ JInv'
      BY <1>2, <2>3, LoopFailsKeeps, AbortsKeeps, FillFailsKeeps, ProbeFailsKeeps, SortFailsKeeps,
         MergeFailsKeeps DEF Failure
    <3>4. GoBackFails => astray' /\ troubles' \in Nat \ {0}
      BY <3>1 DEF GoBackFails
    <3> QED
      BY <3>2, <3>3, <3>4 DEF JoinInv
  <2> QED
    BY <2>1, <2>2, <2>3 DEF Next
<1> QED
  BY <1>1, <1>2 DEF JoinInv

(* Throughout every join, whatever fails, until gotoMark does: the hash    *)
(* table, the runs and the result are as the invariant says.               *)
THEOREM JoinInvariant == Spec => []JoinInv
<1>1. Init => JoinInv
  <2>1. Init => ~Merging
    BY QueriesAssumption DEF Init, Merging, Algorithm
  <2> QED
    BY <2>1, StartsRight DEF JoinInv, InPlace
<1>2. JoinInv /\ [Next]_vars => JoinInv'
  BY JoinStep
<1> QED
  BY <1>1, <1>2, PTL DEF Spec

(* No join puts a pair into the result that does not satisfy the           *)
(* condition, or puts one there twice: at no time, and whatever fails,     *)
(* unless gotoMark has.                                                    *)
THEOREM NothingIsInvented == Spec => []NothingInvented
<1>1. JoinInv => NothingInvented
  BY DEF JoinInv, JInv, NoneInvented, NothingInvented
<1> QED
  BY <1>1, JoinInvariant, PTL

(* A join that returns OK, and in which no call has failed, has all pairs  *)
(* that satisfy the condition: by nested loops, by sorting and merging, or *)
(* by hashing, for relations, blocks and runs of any size.                 *)
THEOREM JoinsAreComplete == Spec => []JoinComplete
<1>1. JoinInv => JoinComplete
  <2> SUFFICES ASSUME JInv, pc = "done", status = "OK", troubles = 0, Faithful,
                      NEW pair \in DOMAIN result, Joined(pair)
               PROVE  result[pair] = 1
    BY DEF JoinComplete, JoinInv
  <2>1. DOMAIN result = Outers \X Inners
    BY DEF JInv, JTypes
  <2>2. PICK i \in Outers, j \in Inners : pair = <<i, j>>
    BY <2>1
  <2>3. ~Ahead(i, j)
    BY DEF Ahead
  <2> QED
    BY <2>2, <2>3 DEF JInv, AllFound, Undisturbed
<1> QED
  BY <1>1, JoinInvariant, PTL
=============================================================================
