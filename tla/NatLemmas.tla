----------------------------- MODULE NatLemmas -----------------------------
(***************************************************************************)
(* Facts about natural numbers that the proofs of the other modules use.   *)
(***************************************************************************)
EXTENDS Integers, FiniteSetTheorems, TLAPS

(* A set of natural numbers that is not empty has a least element.  The    *)
(* intervals 0..k of its elements are finite sets, which strict inclusion  *)
(* orders well.                                                            *)
LEMMA LeastElement ==
  ASSUME NEW S, S \subseteq Nat, S # {}
  PROVE  \E k \in S : \A j \in S : k <= j
<1> DEFINE Below(k) == 0 .. k
           T == {Below(k) : k \in S}
           R == StrictSubsetOrdering(Nat)
<1>1. T \subseteq FiniteSubsetsOf(Nat)
  <2> SUFFICES ASSUME NEW k \in S PROVE Below(k) \in FiniteSubsetsOf(Nat)
    OBVIOUS
  <2>1. IsFiniteSet(0 .. k)
    BY FS_Interval
  <2>2. 0 .. k \subseteq Nat
    OBVIOUS
  <2> QED
    BY <2>1, <2>2 DEF FiniteSubsetsOf
<1>2. T # {}
  OBVIOUS
<1>3. IsWellFoundedOn(R, FiniteSubsetsOf(Nat))
  BY FS_StrictSubsetOrderingWellFounded
<1> HIDE DEF T, R
<1>4. PICK x \in T : \A y \in T : ~(<<y, x>> \in R)
  BY <1>1, <1>2, <1>3, WFMin
<1>5. PICK k \in S : x = Below(k)
  BY DEF T
<1>6. ASSUME NEW j \in S PROVE k <= j
  <2> SUFFICES ASSUME j < k PROVE FALSE
    OBVIOUS
  <2>1. Below(j) \subseteq Below(k) /\ Below(j) # Below(k)
    <3>1. k \in Below(k) /\ k \notin Below(j)
      OBVIOUS
    <3> QED
      BY <3>1
  <2>2. Below(j) \in SUBSET Nat /\ Below(k) \in SUBSET Nat
    OBVIOUS
  <2>3. Below(j) \in T
    BY DEF T
  <2>4. <<Below(j), x>> \in R
    BY <2>1, <2>2, <1>5 DEF R, StrictSubsetOrdering
  <2> QED
    BY <2>3, <2>4, <1>4
<1> QED
  BY <1>6

(* A set of natural numbers below n that is not empty has a greatest       *)
(* element.                                                                *)
LEMMA GreatestElement ==
  ASSUME NEW n \in Nat, NEW S, S \subseteq 0 .. n, S # {}
  PROVE  \E k \in S : \A j \in S : j <= k
<1> DEFINE M == {m \in Nat : n - m \in S}
<1>1. M # {}
  <2>1. PICK k \in S : TRUE
    OBVIOUS
  <2>2. n - k \in M
    BY <2>1
  <2> QED
    BY <2>2
<1>2. PICK m \in M : \A j \in M : m <= j
  <2> HIDE DEF M
  <2>1. M \subseteq Nat
    BY DEF M
  <2> QED
    BY <1>1, <2>1, LeastElement
<1>3. ASSUME NEW j \in S PROVE j <= n - m
  <2>1. n - j \in M
    OBVIOUS
  <2>2. m <= n - j /\ m \in Nat /\ j \in Nat
    BY <1>2, <2>1
  <2> QED
    BY <2>2
<1>4. n - m \in S
  OBVIOUS
<1> QED
  BY <1>3, <1>4

(* A set of natural numbers that has 0, and with every number the next,    *)
(* has them all: what is proved of a recursive function is proved so.      *)
LEMMA SetInduction ==
  ASSUME NEW S, S \subseteq Nat, 0 \in S, \A n \in S : n + 1 \in S
  PROVE  S = Nat
<1> SUFFICES ASSUME Nat \ S # {} PROVE FALSE
  OBVIOUS
<1>1. PICK k \in Nat \ S : \A j \in Nat \ S : k <= j
  <2>1. Nat \ S \subseteq Nat
    OBVIOUS
  <2> QED
    BY <2>1, LeastElement
<1>2. k # 0 /\ k - 1 \in Nat /\ (k - 1) + 1 = k
  BY <1>1
<1>3. k - 1 \in S
  BY <1>1, <1>2
<1> QED
  BY <1>1, <1>2, <1>3

(* f starts with a value and goes on by steps. *)
Iterates(f, V, first, step, d) ==
  f \in [0 .. d -> V] /\ f[0] = first /\ \A n \in 1 .. d : f[n] = step[f[n - 1]]

(* A function on an interval that starts with a value and goes on by steps *)
(* exists: a recursive function of that form is what its definition says.  *)
LEMMA Iteration ==
  ASSUME NEW V, NEW first \in V, NEW step \in [V -> V], NEW d \in Nat
  PROVE  \E f : Iterates(f, V, first, step, d)
<1> DEFINE Starts(f, m) == f[0] = first /\ \A n \in 1 .. m : f[n] = step[f[n - 1]]
           S == {m \in Nat : \E f \in [0 .. m -> V] : Starts(f, m)}
<1>1. 0 \in S
  <2>1. [n \in 0 .. 0 |-> first] \in [0 .. 0 -> V]
    OBVIOUS
  <2>2. Starts([n \in 0 .. 0 |-> first], 0)
    OBVIOUS
  <2> QED
    BY <2>1, <2>2
<1>2. ASSUME NEW m \in S PROVE m + 1 \in S
  <2>1. PICK f \in [0 .. m -> V] : Starts(f, m)
    OBVIOUS
  <2> DEFINE g == [n \in 0 .. m + 1 |-> IF n = m + 1 THEN step[f[m]] ELSE f[n]]
  <2>2. m \in Nat /\ m + 1 \in Nat /\ m \in 0 .. m
    OBVIOUS
  <2>3. f[m] \in V /\ step[f[m]] \in V
    BY <2>1, <2>2
  <2>4. g \in [0 .. m + 1 -> V]
    BY <2>1, <2>2, <2>3
  <2>5. \A n \in 0 .. m : g[n] = f[n]
    BY <2>2
  <2>6. g[m + 1] = step[g[m]]
    BY <2>2, <2>5
  <2>7. g[0] = first
    BY <2>1, <2>2, <2>5
  <2>8. ASSUME NEW n \in 1 .. m + 1 PROVE g[n] = step[g[n - 1]]
    <3>1. CASE n = m + 1
      BY <2>2, <2>6, <3>1
    <3>2. CASE n # m + 1
      <4>1. n \in 1 .. m /\ n \in 0 .. m /\ n - 1 \in 0 .. m
        BY <2>2, <3>2
      <4> HIDE DEF g
      <4> QED
        BY <2>1, <2>5, <4>1
    <3> QED
      BY <3>1, <3>2
  <2> HIDE DEF g
  <2> QED
    BY <2>2, <2>4, <2>7, <2>8
<1> HIDE DEF Starts
<1>3. S = Nat
  <2> HIDE DEF S
  <2>1. S \subseteq Nat
    BY DEF S
  <2> QED
    BY <1>1, <1>2, <2>1, SetInduction
<1>4. \E f \in [0 .. d -> V] : Starts(f, d)
  BY <1>3
<1> QED
  BY <1>4 DEF Starts, Iterates

(* As many pieces of size d as fit into p, and no more.                    *)
LEMMA Division ==
  ASSUME NEW p \in Nat, NEW d \in Nat \ {0}, NEW k \in Nat, d * k <= p
  PROVE  p \div d \in Nat /\ k <= p \div d
<1> DEFINE q == p \div d
<1>1. q \in Nat /\ p < d * q + d
  OBVIOUS
<1> HIDE DEF q
<1>2. SUFFICES ASSUME k > q PROVE FALSE
  BY <1>1 DEF q
<1>3. d * (q + 1) = d * q + d
  BY <1>1
<1>4. d * (q + 1) <= d * k
  BY <1>1, <1>2
<1> QED
  <2>1. d * q \in Nat /\ d * k \in Nat /\ d * (q + 1) \in Nat
    BY <1>1
  <2> QED
    BY <1>1, <1>3, <1>4, <2>1

(* Counting on modulo n from a number below n stays below n, and comes     *)
(* back to it after n steps.                                               *)
LEMMA Modulo ==
  ASSUME NEW n \in Nat \ {0}, NEW h \in 0 .. n - 1
  PROVE  /\ \A k \in Nat : (h + k) % n \in 0 .. n - 1
         /\ \A i \in 0 .. n - 1 : \E k \in n + 1 .. 2 * n : (h + k) % n = i
<1>1. \A k \in Nat : (h + k) % n \in 0 .. n - 1
  OBVIOUS
<1>2. ASSUME NEW i \in 0 .. n - 1
      PROVE  \E k \in n + 1 .. 2 * n : (h + k) % n = i
  <2>1. CASE i <= h
    <3>1. h + (i - h + 2 * n) = i + 2 * n
      OBVIOUS
    <3>2. (i + 2 * n) % n = i
      OBVIOUS
    <3>3. i - h + 2 * n \in n + 1 .. 2 * n
      BY <2>1
    <3> QED
      BY <3>1, <3>2, <3>3
  <2>2. CASE i > h
    <3>1. h + (i - h + n) = i + n
      OBVIOUS
    <3>2. (i + n) % n = i
      OBVIOUS
    <3>3. i - h + n \in n + 1 .. 2 * n
      BY <2>2
    <3> QED
      BY <3>1, <3>2, <3>3
  <2> QED
    BY <2>1, <2>2
<1> QED
  BY <1>1, <1>2

(* What is left of a number below 3 * n. *)
LEMMA Residue ==
  ASSUME NEW n \in Nat \ {0}, NEW x \in 0 .. 3 * n - 1
  PROVE  x % n = IF x < n THEN x ELSE IF x < 2 * n THEN x - n ELSE x - 2 * n
<1>1. \A i \in 0 .. n - 1 : i % n = i /\ (i + n) % n = i /\ (i + 2 * n) % n = i
  OBVIOUS
<1>2. CASE x < n
  BY <1>1, <1>2
<1>3. CASE n <= x /\ x < 2 * n
  <2>1. x - n \in 0 .. n - 1 /\ (x - n) + n = x
    BY <1>3
  <2> QED
    BY <1>1, <1>3, <2>1
<1>4. CASE 2 * n <= x
  <2>1. x - 2 * n \in 0 .. n - 1 /\ (x - 2 * n) + 2 * n = x
    BY <1>4
  <2> QED
    BY <1>1, <1>4, <2>1
<1> QED
  BY <1>2, <1>3, <1>4

(* How 1..p is cut into pieces of size d: piece i begins behind            *)
(* (i - 1) * d.                                                            *)
LEMMA Pieces ==
  ASSUME NEW p \in Nat, NEW d \in Nat \ {0}, NEW n, n = (p + d - 1) \div d
  PROVE  /\ n \in Nat
         /\ \A i \in 1 .. n : (i - 1) * d \in Nat /\ (i - 1) * d < p
         /\ \A i, j \in Nat \ {0} : i < j => (i - 1) * d + d <= (j - 1) * d
         /\ \A r \in 1 .. p : \E i \in 1 .. n : (i - 1) * d < r /\ r <= (i - 1) * d + d
<1>1. n \in Nat /\ d * n <= p + d - 1 /\ p + d - 1 < d * n + d /\ d * n \in Nat
  OBVIOUS
<1>2. \A a, b \in Nat : a <= b => d * a <= d * b
  OBVIOUS
<1>3. \A a \in Nat : d * (a + 1) = d * a + d /\ a * d = d * a /\ d * a \in Nat
  OBVIOUS
<1>4. ASSUME NEW i \in 1 .. n PROVE (i - 1) * d \in Nat /\ (i - 1) * d < p
  <2> DEFINE a == i - 1
  <2>1. a \in Nat /\ a + 1 <= n /\ a + 1 \in Nat
    BY <1>1
  <2> HIDE DEF a
  <2>2. d * (a + 1) <= d * n /\ d * (a + 1) = d * a + d /\ a * d = d * a /\ d * a \in Nat
    BY <1>1, <1>2, <1>3, <2>1
  <2>3. a * d \in Nat /\ a * d < p
    BY <1>1, <2>2
  <2> QED
    BY <2>3 DEF a
<1>5. ASSUME NEW i \in Nat \ {0}, NEW j \in Nat \ {0}, i < j
      PROVE  (i - 1) * d + d <= (j - 1) * d
  <2> DEFINE a == i - 1
             b == j - 1
  <2>1. a \in Nat /\ b \in Nat /\ a + 1 <= b /\ a + 1 \in Nat
    BY <1>5
  <2> HIDE DEF a, b
  <2>2. d * (a + 1) <= d * b /\ d * (a + 1) = d * a + d /\ a * d = d * a /\ b * d = d * b
    BY <1>2, <1>3, <2>1
  <2>3. a * d + d <= b * d
    BY <2>2
  <2> QED
    BY <2>3 DEF a, b
<1>6. ASSUME NEW r \in 1 .. p
      PROVE  \E i \in 1 .. n : (i - 1) * d < r /\ r <= (i - 1) * d + d
  <2> DEFINE a == (r - 1) \div d
  <2>1. a \in Nat /\ d * a <= r - 1 /\ r - 1 < d * a + d /\ a * d = d * a /\ d * a \in Nat
    OBVIOUS
  <2> HIDE DEF a
  <2>2. a + 1 <= n
    <3> SUFFICES ASSUME n <= a PROVE FALSE
      BY <1>1, <2>1
    <3>1. d * n <= d * a
      BY <1>1, <1>2, <2>1
    <3> QED
      BY <1>1, <2>1, <3>1
  <2>3. a + 1 \in 1 .. n /\ (a + 1) - 1 = a
    BY <1>1, <2>1, <2>2
  <2>4. a * d < r /\ r <= a * d + d
    BY <2>1
  <2> QED
    BY <2>3, <2>4
<1> QED
  BY <1>1, <1>4, <1>5, <1>6
=============================================================================
