----------------------------- MODULE ChainView ------------------------------
(***************************************************************************)
(* What the indexer promises its clients about the blocks it has indexed:  *)
(* a window on one chain that grows by the child of its top block and      *)
(* shrinks by at most Window - 2 blocks at a time, and never to nothing.   *)
(* Indexer.tla implements this specification with view <- headers.         *)
(***************************************************************************)
EXTENDS Integers, FiniteSets

CONSTANTS
  Block, Parent,
  FirstHeight,   \* the height of the first block of the view
  Window         \* how many of the highest blocks are kept

VARIABLE view  \* height -> block

Top(v) == CHOOSE h \in DOMAIN v : \A k \in DOMAIN v : k <= h

(***************************************************************************)
(* view with block b on top at height h, without what falls out of the     *)
(* window.                                                                 *)
(***************************************************************************)
Grown(v, h, b) ==
  [k \in {j \in DOMAIN v : j > h - Window} \cup {h} |-> IF k = h THEN b ELSE v[k]]

Shrunk(v, h) == [k \in {j \in DOMAIN v : j <= h} |-> v[k]]

Init == view = [h \in {} |-> Parent]

First == \E b \in Block : DOMAIN view = {} /\ view' = Grown(view, FirstHeight, b)

Extend ==
  \E b \in Block :
    /\ DOMAIN view # {}
    /\ Parent[b] = view[Top(view)]
    /\ view' = Grown(view, Top(view) + 1, b)

Rollback ==
  \E n \in 1..(Window - 2) :
    /\ DOMAIN view # {}
    /\ Top(view) - n \in DOMAIN view
    /\ view' = Shrunk(view, Top(view) - n)

Next == First \/ Extend \/ Rollback

Spec == Init /\ [][Next]_view
=============================================================================
