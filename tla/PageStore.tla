----------------------------- MODULE PageStore -----------------------------
(***************************************************************************)
(* What the buffer manager and the file layer below it promise together:   *)
(* every allocated page has one value, and only a user that holds the page *)
(* changes it.  There is no buffer pool and no disk here.  Caching,        *)
(* eviction, flushing and shutting down are invisible.                     *)
(***************************************************************************)
CONSTANTS Pages,    \* the pages a file can have, each with its file
          Values    \* the contents a page can have

VARIABLES store,    \* the value of every page
          live,     \* the pages that are allocated
          inUse     \* the pages that some user holds

Init == /\ store \in [Pages -> Values]
        /\ live = {}
        /\ inUse = {}

(* Only the value of pg may change. *)
OnlyChanges(pg) == \E x \in Values : store' = [store EXCEPT ![pg] = x]

(* Users get pages and give them up.  No value changes. *)
Use == /\ inUse' \subseteq live
       /\ UNCHANGED <<store, live>>

(* A user writes into a page that it holds. *)
Write(pg) == /\ pg \in inUse
             /\ OnlyChanges(pg)
             /\ UNCHANGED <<live, inUse>>

(* A page is allocated; a user gets it unless there is no room.  Its first *)
(* value is not promised.                                                  *)
Allocate(pg) == /\ pg \notin live
                /\ live' = live \cup {pg}
                /\ inUse' \in {inUse, inUse \cup {pg}}
                /\ OnlyChanges(pg)

(* A page is given back. *)
Dispose(pg) == /\ pg \in live \ inUse
               /\ live' = live \ {pg}
               /\ OnlyChanges(pg)
               /\ UNCHANGED inUse

Next == Use \/ \E pg \in Pages : Write(pg) \/ Allocate(pg) \/ Dispose(pg)

Spec == Init /\ [][Next]_<<store, live, inUse>>
=============================================================================
