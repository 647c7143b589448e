------------------------- MODULE IndexerProperties --------------------------
(***************************************************************************)
(* What the indexing loop of Indexer.tla is correct for.  Properties with  *)
(* a condition on the environment say so; MCIndexer.tla has the instances. *)
(***************************************************************************)
EXTENDS Indexer

(***************************************************************************)
(* The headers kept are consecutive heights of one chain: each is the      *)
(* child of the one below (updater.rs: next_block is read before the       *)
(* awaits, and the header is written after them).                          *)
(***************************************************************************)
Consecutive ==
  \A h, k \in DOMAIN headers : \A j \in h..k : j \in DOMAIN headers

Linked ==
  \A h \in DOMAIN headers : h + 1 \in DOMAIN headers => Parent[headers[h+1]] = headers[h]

HeadersLinked == Consecutive /\ Linked

(***************************************************************************)
(* What a thread read before an await is still so when it is used after    *)
(* it, if the thread is the only one: the height and the hash it indexes   *)
(* on, the parent check of detect_reorg, and the header compared there     *)
(* (update_index and detect_reorg keep them in locals across every await). *)
(***************************************************************************)
ReadsStayCurrent ==
  \A l \in Loop :
    /\ loop[l].pc \in {"hash", "block", "detect", "utxo", "rune"} =>
         loop[l].height = NextHeight /\ loop[l].prev = PrevBlock
    /\ loop[l].pc \in {"utxo", "rune"} =>
         loop[l].prev \in {NoBlock, Parent[loop[l].block]}
    /\ loop[l].pc = "detect" =>
         /\ loop[l].depth \in 1..(MaxDepth - 1)
         /\ loop[l].height - loop[l].depth \in DOMAIN headers
         /\ loop[l].seen = headers[loop[l].height - loop[l].depth]

(***************************************************************************)
(* There is exactly one change record for each header whose block went     *)
(* through index_rune, and it undoes that very block: a rollback finds     *)
(* everything it has to undo, also after failed attempts, upgrades,        *)
(* pruning and earlier rollbacks (reorg.rs handle_reorg).                  *)
(***************************************************************************)
RecordsMatchHeaders ==
  records = [h \in {k \in DOMAIN headers : IndexesRunes(k)} |-> headers[h]]

(***************************************************************************)
(* The chain that ends in the latest header, from a height.                *)
(***************************************************************************)
IndexedFrom(h) ==
  IF NoHeaders THEN <<>>
  ELSE LET c == CHOOSE d \in Chain : Top(headers) + 1 <= Len(d)
                                     /\ d[Top(headers) + 1] = headers[Top(headers)]
       IN SubSeq(c, h + 1, Top(headers) + 1)

(***************************************************************************)
(* As long as no attempt was cut off half-way, the rune tables hold the    *)
(* blocks of the chain that ends in the latest header, each exactly once   *)
(* and in order: nothing is applied twice by a retry and rollbacks undo    *)
(* neither too little nor too much (index_rune and handle_reorg).          *)
(***************************************************************************)
RuneLedgerMatchesChain ==
  IndexRunes /\ intact => runeLog = IndexedFrom(FirstRuneHeight)

(***************************************************************************)
(* Outputs of the blocks of c that no later block of c spends.             *)
(***************************************************************************)
Unspent(c) ==
  {o \in Outpoint : \E i \in 1..Len(c) : /\ o \in Creates[c[i]]
                                         /\ \A j \in i+1..Len(c) : o \notin Spends[c[j]]}

(* No chain the node can have had before was another one.                  *)
NeverReorganised ==
  \A c \in Chain : Len(c) < Len(best) => SubSeq(best, 1, Len(c)) = c

(***************************************************************************)
(* Until the node's chain is reorganised, the UTXO table is the set of     *)
(* unspent outputs of the indexed blocks, or it is ahead of the headers by *)
(* some removals, or by all, of one next block: a retried block leaves the *)
(* same keys behind (index_utxo_entries and commit; handle_reorg does not  *)
(* touch the table).                                                       *)
(***************************************************************************)
UtxoMatchesChain ==
  LET now == IndexedFrom(FirstHeight)
      following == {b \in Block : IF NoHeaders THEN TRUE ELSE Parent[b] = PrevBlock}
  IN NeverReorganised =>
       \/ utxo = Unspent(now)
       \/ \E b \in following :
            \/ utxo = Unspent(Append(now, b))
            \/ \E met \in SUBSET Spends[b] : utxo = Unspent(now) \ met

(***************************************************************************)
(* A subscriber that is told of a block was told of the block's parent     *)
(* before, unless the block is the first it hears of: no block is skipped, *)
(* also when the chain is reorganised between two notifications            *)
(* (the loop over subscribers in update_index).                            *)
(***************************************************************************)
NotificationsLinked ==
  \A s \in Subscriber : \A i \in 2..Len(told[s]) :
    \E j \in 1..i-1 : told[s][j] = Parent[told[s][i]]

(***************************************************************************)
(* The block that thread l indexes has left the best chain while it waits  *)
(* for a commitment: what tx_commits_to_rune unwraps may not be there.     *)
(***************************************************************************)
Orphaned(l) == loop[l].pc = "rune" /\ NodeBlockHash(loop[l].height) # loop[l].block

(***************************************************************************)
(* Without a stop, an upgrade or a failed call of detect_reorg, and with   *)
(* reorganisations within reach, an index thread ends in one case only,    *)
(* which is that the block it is indexing is orphaned during the lookup of *)
(* a commitment.  The headers that prune_change_record keeps are enough    *)
(* for detect_reorg, also after one reorganisation has shortened the       *)
(* window.                                                                 *)
(***************************************************************************)
ThreadSurvives ==
  [][\A l \in Loop : loop[l].pc \in Await /\ loop'[l].pc \in Ended => Orphaned(l)]_vars

(***************************************************************************)
(* Once a block is indexed there is always a latest block: get_latest_block*)
(* (api.rs) never fails its expect("No block found") again.                *)
(***************************************************************************)
LatestStaysKnown == [][~ NoHeaders => DOMAIN headers' # {}]_vars

(***************************************************************************)
(* The index holds what the promised window on the chain holds, step by    *)
(* step (ChainView.tla).                                                   *)
(***************************************************************************)
View == INSTANCE ChainView WITH view <- headers, Window <- MaxDepth

ImplementsChainView == View!Spec

(***************************************************************************)
(* The latest indexed block is the tip of the node's best chain, which may *)
(* be lower than the first height.                                         *)
(***************************************************************************)
CaughtUp ==
  IF Len(best) <= FirstHeight THEN NoHeaders
  ELSE ~ NoHeaders /\ Top(headers) + 1 = Len(best) /\ headers[Top(headers)] = best[Len(best)]

(***************************************************************************)
(* A header below the first rune height is not of the best chain.          *)
(* handle_reorg removes no header there, so detect_reorg finds the same    *)
(* fork in every cycle.                                                    *)
(***************************************************************************)
Unremovable == \E h \in DOMAIN headers : ~ IndexesRunes(h) /\ NodeBlockHash(h) # headers[h]

Panicked == \A l \in Loop : loop[l].pc = "panicked"

(***************************************************************************)
(* Once started, the index reaches the tip of the node's best chain and    *)
(* stays there when the node has settled, whatever reorganisations within  *)
(* reach came before and however often calls failed, with two exceptions:  *)
(* the thread panicked (ThreadSurvives says when) and nobody started it    *)
(* again, or a reorganisation went below the first rune height.            *)
(* (update_index sets its timer again after every cycle.)  Assumed of the  *)
(* node's answers is what Fairness says: behind the proxy of this          *)
(* repository the hash of the next block may never come (StaysFresh of     *)
(* ProxiedIndexer.tla).                                                    *)
(***************************************************************************)
Converges ==
  <>(\E l \in Loop : loop[l].pc = "timer") => <>[]CaughtUp \/ <>[]Panicked \/ <>[]Unremovable

-----------------------------------------------------------------------------
(* What the repository says and the code does not do: each is the property *)
(* of a run that finds a counterexample.                                   *)

(***************************************************************************)
(* updater.rs:291 asserts that with a full UTXO index no input is without  *)
(* an entry.                                                               *)
(***************************************************************************)
AssertionHolds == \A l \in Loop : loop[l].pc # "panicked"

(***************************************************************************)
(* reorg.rs:128-132 logs "successfully rolled back state to height         *)
(* {height - depth}": after a rollback the UTXO table is the one of the    *)
(* blocks that are left.                                                   *)
(***************************************************************************)
RollbackRestoresOutputs ==
  [][Cardinality(DOMAIN headers') < Cardinality(DOMAIN headers) =>
       utxo' = Unspent(IndexedFrom(FirstHeight))']_vars
=============================================================================
