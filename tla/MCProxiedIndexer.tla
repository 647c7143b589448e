-------------------------- MODULE MCProxiedIndexer --------------------------
(***************************************************************************)
(* An instance of ProxiedIndexer.tla: one chain that grows.                *)
(***************************************************************************)
EXTENDS ProxiedIndexer

Line == <<"g", "a1", "a2", "a3", "a4">>

MCBlock == {Line[i] : i \in DOMAIN Line}
MCParent == [b \in MCBlock |->
  LET i == CHOOSE j \in DOMAIN Line : Line[j] = b IN IF i = 1 THEN "none" ELSE Line[i - 1]]
MCChain == {SubSeq(Line, 1, n) : n \in DOMAIN Line}
MCNothing == [b \in MCBlock |-> {}]
MCNoList == {<<>>}
=============================================================================
