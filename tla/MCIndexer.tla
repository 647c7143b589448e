----------------------------- MODULE MCIndexer ------------------------------
(***************************************************************************)
(* Instances of Indexer.tla for TLC: block trees, and what the blocks do.  *)
(***************************************************************************)
EXTENDS IndexerProperties

(***************************************************************************)
(* The tree: chain a, a fork b after height 2, a fork c after b3, and a    *)
(* short fork d after height 1, which with FirstRuneHeight = 3 goes below  *)
(* the first rune height.                                                  *)
(***************************************************************************)
MCChainA == <<"g", "a1", "a2", "a3", "a4">>
MCChainB == <<"g", "a1", "a2", "b3", "b4", "b5">>
MCChainC == <<"g", "a1", "a2", "b3", "c4", "c5", "c6">>
MCChainD == <<"g", "a1", "d2", "d3">>

Blocks(chains) == UNION {{c[i] : i \in DOMAIN c} : c \in chains}
Prefixes(chains) == UNION {{SubSeq(c, 1, n) : n \in DOMAIN c} : c \in chains}
Parents(chains) ==
  [b \in Blocks(chains) |->
    LET c == CHOOSE d \in Prefixes(chains) : d[Len(d)] = b
    IN IF Len(c) = 1 THEN "none" ELSE c[Len(c) - 1]]

LineChains == {MCChainA}
LineBlock == Blocks(LineChains)
LineParent == Parents(LineChains)
LineChain == Prefixes(LineChains)

ForkChains == {MCChainA, MCChainB}
ForkBlock == Blocks(ForkChains)
ForkParent == Parents(ForkChains)
ForkChain == Prefixes(ForkChains)

TreeChains == {MCChainA, MCChainB, MCChainC}
TreeBlock == Blocks(TreeChains)
TreeParent == Parents(TreeChains)
TreeChain == Prefixes(TreeChains)

DeepChains == TreeChains \cup {MCChainD}
DeepBlock == Blocks(DeepChains)
DeepParent == Parents(DeepChains)
DeepChain == Prefixes(DeepChains)

(* Chains a, b and c, but the node first hears of b when it is as long as  *)
(* a is.                                                                   *)
LateChain == TreeChain \ {SubSeq(MCChainB, 1, 4)}

(***************************************************************************)
(* Every block creates two outputs and spends the first one of its parent  *)
(* and the second one of its grandparent, which may be older than the      *)
(* index.                                                                  *)
(***************************************************************************)
MCOutpoint == Block \X {0, 1}
MCCreates == [b \in Block |-> {b} \X {0, 1}]
MCSpends ==
  [b \in Block |->
    {<<p, 0>> : p \in {Parent[b]} \ {NoBlock}}
      \cup {<<p, 1>> : p \in {q \in Block : Parent[b] # NoBlock /\ Parent[Parent[b]] = q}}]

(***************************************************************************)
(* Which blocks look up a commitment, and which of them write rune tables  *)
(* first.                                                                  *)
(***************************************************************************)
SomeCommits == Block \cap {"a2", "a3", "b4", "c5"}
SomeTouches == Block \cap {"a3", "c5"}
NoBlocks == {}

MCOneList == {<<"s1", "s2">>}
MCLists == {<<"s1", "s2">>, <<"s1">>}
MCNoList == {<<>>}
MCSubscriber == {"s1", "s2"}

AllCalls == Call
CommitmentCalls == {"hash", "block", "commitment"}
RepeatedCalls == {"hash", "block", "inputs", "commitment"}
=============================================================================
