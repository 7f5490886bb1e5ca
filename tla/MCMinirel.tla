----------------------------- MODULE MCMinirel -----------------------------
(* A database of two relations with attributes of char(255): four of them  *)
(* fit in PAGESIZE but on no page.  A statement has 16 nodes.              *)
EXTENDS Minirel

CONSTANTS r, s, c, d, e, f, l

Widths   == [x \in Attrs |-> 255]
RelLists == [n \in {r} |-> {<<c>>, <<c, l>>, <<c, d, e, f>>, <<c, d, c, d, c, d>>}]
Bases    == {[n \in {r, s} |-> IF n = r THEN attrs ELSE <<d, e, f>>] : attrs \in {<<>>, <<c>>}}

Of(rel, attr) == [rel |-> rel, attr |-> attr]
Table(rel)    == [rel |-> rel, alias |-> NoName]
JoinOf(attrs) == [into |-> NoName, attrs |-> attrs, tables |-> <<Table(r), Table(s)>>,
                  where |-> <<Of(r, c), Of(s, d)>>]

(* r is selected from (where its attribute e is something, if it has one), *)
(* into r from s (the same attribute again and again), from r into itself, *)
(* and r and s are joined, for the attributes of one or both, or for too   *)
(* many.                                                                   *)
Selected == {[into |-> NoName, attrs |-> <<Of(NoName, c)>>, tables |-> <<Table(r)>>, where |-> <<Of(NoName, e)>>],
             [into |-> r, attrs |-> [i \in 1 .. 4 |-> Of(NoName, d)], tables |-> <<Table(s)>>,
              where |-> <<Of(NoName, d)>>],
             [into |-> r, attrs |-> <<Of(NoName, c)>>, tables |-> <<Table(r)>>, where |-> <<>>],
             JoinOf(<<Of(r, c)>>), JoinOf(<<Of(r, c), Of(s, d), Of(s, e), Of(s, f)>>),
             JoinOf([i \in 1 .. 5 |-> Of(r, c)])}
=============================================================================
