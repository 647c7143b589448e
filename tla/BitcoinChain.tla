---------------------------- MODULE BitcoinChain ----------------------------
(***************************************************************************)
(* The Bitcoin node the indexer follows, seen through the JSON-RPC calls   *)
(* of src/indexer/src/rpc.rs.  Only the block tree matters: a block names  *)
(* its parent (header.prev_blockhash), and the node's best chain moves to  *)
(* a longer chain whenever it learns of one, which may abandon blocks that *)
(* were best before.  The node is not part of the repository.              *)
(***************************************************************************)
EXTENDS Integers, Sequences

CONSTANTS
  Block,    \* block hashes; a block and its hash are not told apart
  NoBlock,  \* the absence of a block hash (None)
  Parent,   \* Parent[b] is header.prev_blockhash of b
  Chain     \* the best chains the node may have, from the block at height 0

ASSUME ChainAssumption ==
  /\ NoBlock \notin Block
  /\ Parent \in [Block -> Block \cup {NoBlock}]
  /\ \A c \in Chain : c \in Seq(Block) /\ c # <<>>
  /\ \A c \in Chain : \A i \in 1..Len(c) :
       Parent[c[i]] = IF i = 1 THEN NoBlock ELSE c[i-1]

VARIABLE best  \* the node's best chain; best[h+1] is its block at height h

ChainTypeOK == best \in Chain

ChainInit == best \in {c \in Chain : \A d \in Chain : Len(c) <= Len(d)}

(***************************************************************************)
(* getblockhash: the hash at a height of the best chain, NoBlock beyond    *)
(* its tip, where the node answers "Block height out of range".            *)
(***************************************************************************)
NodeBlockHash(h) == IF h + 1 <= Len(best) THEN best[h+1] ELSE NoBlock

(***************************************************************************)
(* The node adopts a strictly longer chain.                                *)
(***************************************************************************)
NewBest == \E c \in Chain : Len(c) > Len(best) /\ best' = c
=============================================================================
