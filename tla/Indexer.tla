------------------------------ MODULE Indexer -------------------------------
(***************************************************************************)
(* The indexing loop of the canister (src/indexer/src/index/updater.rs),   *)
(* its reorganisation handling (index/reorg.rs) and the controller's       *)
(* endpoints that start, stop and upgrade it (api.rs).                     *)
(*                                                                         *)
(* The canister runs one message at a time and gives up control only at an *)
(* await, so an action is the code from one await to the next.  Whatever   *)
(* was written before an await stays written: a trap in a callback undoes  *)
(* that callback only, and an upgrade keeps stable memory as it is.        *)
(*                                                                         *)
(* Nothing in the code stops start() from being called twice, so there may *)
(* be several index threads; Loop is the set of those that can run at the  *)
(* same time.                                                              *)
(*                                                                         *)
(* What a block writes is abstracted to two ledgers.  The rune tables are  *)
(* the sequence of blocks whose effects they hold (RuneLedger.tla models   *)
(* the tables themselves, with the two statistic rows that index_rune      *)
(* writes first), and "intact" turns FALSE once they hold part of a block  *)
(* only.  The UTXO table is the set of outpoints it has.                   *)
(***************************************************************************)
EXTENDS BitcoinChain, FiniteSets

CONSTANTS
  Loop,              \* the index threads that may exist at the same time
  Subscriber,        \* canisters to notify
  SubscriberLists,   \* the values config.subscribers may be given
  MaxDepth,          \* MAX_RECOVERABLE_REORG_DEPTH
  FirstHeight,       \* Index::get_first_index_height
  FirstRuneHeight,   \* Index::first_rune_height
  IndexRunes,        \* config.index_runes
  IndexUtxo,         \* config.index_inscriptions, index_addresses or index_sats
  Outpoint,          \* outputs of transactions
  Spends,            \* Spends[b]: outputs of earlier blocks that b spends
  Creates,           \* Creates[b]: outputs of b that b does not spend itself
  Commits,           \* blocks with an etching whose commitment is looked up
  Touches,           \* those of them that write rune tables before the lookup
  Fallible,          \* the calls that may fail: see Call
  MaxInterventions   \* bound on stops and upgrades together

(***************************************************************************)
(* The inter-canister calls and HTTPS outcalls of an index thread.  A      *)
(* failure is an error reply after make_single_request's retries, or an    *)
(* answer that does not parse; "inputs" is the latter only, for the call   *)
(* is repeated until it is answered.  (The assumption below reads          *)
(* Index::from_config: indexing starts at height 0, at the first           *)
(* inscription height, or at the first rune height, by what is indexed.)   *)
(***************************************************************************)
Call == {"hash", "block", "detect", "inputs", "commitment", "notify"}

ASSUME IndexerAssumption ==
  /\ SubscriberLists \subseteq Seq(Subscriber) /\ SubscriberLists # {}
  /\ MaxDepth \in Nat /\ MaxDepth >= 2
  /\ FirstHeight \in Nat /\ FirstRuneHeight \in Nat
  /\ IndexRunes \in BOOLEAN /\ IndexUtxo \in BOOLEAN
  /\ IndexUtxo => FirstHeight <= FirstRuneHeight
  /\ ~ IndexUtxo => IndexRunes /\ FirstHeight = FirstRuneHeight
  /\ Spends \in [Block -> SUBSET Outpoint]
  /\ Creates \in [Block -> SUBSET Outpoint]
  /\ \A b \in Block : Spends[b] \cap Creates[b] = {}
  /\ Touches \subseteq Commits /\ Commits \subseteq Block
  /\ Fallible \subseteq Call
  /\ MaxInterventions \in Nat

VARIABLES
  headers,        \* HEIGHT_TO_BLOCK_HEADER: height -> block
  records,        \* HEIGHT_TO_CHANGE_RECORD_RUNE: height -> block it undoes
  runeLog,        \* the blocks whose effects the rune tables hold, in order
  intact,         \* no part of a block is in the rune tables
  utxo,           \* the keys of OUTPOINT_TO_UTXO_ENTRY
  subscribers,    \* config.subscribers
  shutting,       \* SHUTTING_DOWN
  loop,           \* the state of each index thread
  told,           \* per subscriber, the blocks it was notified of
  interventions   \* stops and upgrades so far

stable == <<headers, records, runeLog, intact, utxo>>
vars == <<best, headers, records, runeLog, intact, utxo, subscribers,
          shutting, loop, told, interventions>>

(***************************************************************************)
(* The await a thread is suspended at.  "timer" is the ten-second timer    *)
(* set by update_index; "off" is a thread that ended by a return and       *)
(* "panicked" one whose callback trapped: neither runs again.              *)
(***************************************************************************)
Await == {"timer", "hash", "block", "detect", "utxo", "rune", "notify"}
Ended == {"off", "panicked"}

LoopState ==
  [pc     : Await \cup Ended,
   height : Nat,                     \* height being indexed
   prev   : Block \cup {NoBlock},    \* index_prev_blockhash
   block  : Block \cup {NoBlock},    \* block_hash, then the block itself
   depth  : Nat,                     \* of detect_reorg
   seen   : Block \cup {NoBlock},    \* index_block_hash of detect_reorg
   subs   : Seq(Subscriber),         \* subscribers captured by start()
   next   : Nat]                     \* the subscriber being notified

TablesOK ==
  /\ DOMAIN headers \subseteq Nat /\ \A h \in DOMAIN headers : headers[h] \in Block
  /\ DOMAIN records \subseteq Nat /\ \A h \in DOMAIN records : records[h] \in Block
  /\ runeLog \in Seq(Block) /\ intact \in BOOLEAN
  /\ utxo \subseteq Outpoint

LoopsOK ==
  /\ loop \in [Loop -> LoopState]
  /\ \A l \in Loop :
       /\ loop[l].pc \in Await \ {"timer", "hash"} => loop[l].block \in Block
       /\ loop[l].pc = "notify" => loop[l].next \in 1..Len(loop[l].subs)

TypeOK ==
  /\ ChainTypeOK
  /\ TablesOK
  /\ LoopsOK
  /\ subscribers \in SubscriberLists
  /\ shutting \in BOOLEAN
  /\ told \in [Subscriber -> Seq(Block)]
  /\ interventions \in 0..MaxInterventions

-----------------------------------------------------------------------------
(* Index queries (index.rs).                                               *)

NoHeaders == DOMAIN headers = {}

Top(v) == CHOOSE h \in DOMAIN v : \A k \in DOMAIN v : k <= h

(***************************************************************************)
(* next_block: the height after the latest header, and that header's hash. *)
(***************************************************************************)
NextHeight == IF NoHeaders THEN FirstHeight ELSE Top(headers) + 1
PrevBlock == IF NoHeaders THEN NoBlock ELSE headers[Top(headers)]

(* Index::have_full_utxo_index *)
FullUtxo == FirstHeight = 0

IndexesRunes(h) == IndexRunes /\ h >= FirstRuneHeight

-----------------------------------------------------------------------------
(* The ends of a cycle of update_index.                                    *)

Idle(pc, subs) ==
  [pc |-> pc, height |-> 0, prev |-> NoBlock, block |-> NoBlock, depth |-> 0,
   seen |-> NoBlock, subs |-> subs, next |-> 0]

(***************************************************************************)
(* The end of the closure: set the timer again unless shutting down.       *)
(***************************************************************************)
Rearmed(l) == IF shutting THEN Idle("off", <<>>) ELSE Idle("timer", loop[l].subs)

Rearm(l) == loop' = [loop EXCEPT ![l] = Rearmed(l)]
Return(l) == loop' = [loop EXCEPT ![l] = Idle("off", <<>>)]
Panic(l) == loop' = [loop EXCEPT ![l] = Idle("panicked", <<>>)]

-----------------------------------------------------------------------------
(* index_block, and what update_index does when it succeeds.               *)

(* Bug: the window is one header short.                                    *)
Bug_Pruned(map, h) == [k \in {j \in DOMAIN map : j > h - MaxDepth + 1} |-> map[k]]

(***************************************************************************)
(* prune_change_record(h) and then mem_insert_block_header(h).             *)
(***************************************************************************)
Pruned(map, h) == [k \in {j \in DOMAIN map : j > h - MaxDepth} |-> map[k]]

Put(map, h, b) == [k \in DOMAIN map \cup {h} |-> IF k = h THEN b ELSE map[k]]

(* Bug: index_rune asks for the next height again instead of taking height.*)
Bug_BlockIndexed(l, b) ==
  LET h == loop[l].height IN
  /\ records' = Pruned(Put(records, NextHeight, b), h)
  /\ runeLog' = Append(runeLog, b)
  /\ headers' = Put(Pruned(headers, h), h, b)
  /\ Rearm(l)

(***************************************************************************)
(* index_block returned Ok: the change record of the block is in place if  *)
(* runes are indexed, the window is pruned, the header goes in and the     *)
(* first subscriber is called.                                             *)
(***************************************************************************)
BlockIndexed(l, b) ==
  LET h == loop[l].height IN
  /\ records' = Pruned(IF IndexesRunes(h) THEN Put(records, h, b) ELSE records, h)
  /\ runeLog' = IF IndexesRunes(h) THEN Append(runeLog, b) ELSE runeLog
  /\ headers' = Put(Pruned(headers, h), h, b)
  /\ loop' = [loop EXCEPT ![l] =
                IF loop[l].subs = <<>>
                THEN Rearmed(l)
                ELSE [@ EXCEPT !.pc = "notify", !.block = b, !.next = 1,
                               !.depth = 0, !.seen = NoBlock]]

(***************************************************************************)
(* index_rune(b): either it runs through, or it is suspended at the lookup *)
(* of an etching's commitment, with what it wrote before that in place.    *)
(* Two threads inside index_rune leave tables that fit no chain.           *)
(***************************************************************************)
IndexRuneBlock(l, b) ==
  /\ \/ /\ ~ (IndexesRunes(loop[l].height) /\ b \in Commits)
        /\ BlockIndexed(l, b)
     \/ /\ IndexesRunes(loop[l].height) /\ b \in Commits
        /\ loop' = [loop EXCEPT ![l].pc = "rune", ![l].block = b]
        /\ UNCHANGED <<headers, records, runeLog>>
  /\ intact' = (intact /\ \A m \in Loop \ {l} : loop[m].pc # "rune")

(***************************************************************************)
(* index_utxo_entries(b): the entries of spent outputs are removed as they *)
(* are met, an input without an entry is fetched from the node, which      *)
(* suspends the thread with some entries removed, and the new entries are  *)
(* committed at the end.  With a full UTXO index a missing entry fails     *)
(* assert!(!index.have_full_utxo_index()).                                 *)
(***************************************************************************)
IndexBlock(l, b) ==
  LET missing == Spends[b] \ utxo IN
  \/ /\ ~ IndexUtxo
     /\ IndexRuneBlock(l, b)
     /\ UNCHANGED utxo
  \/ /\ IndexUtxo /\ missing = {}
     /\ utxo' = (utxo \ Spends[b]) \cup Creates[b]
     /\ IndexRuneBlock(l, b)
  \/ /\ IndexUtxo /\ missing # {} /\ FullUtxo
     /\ Panic(l)
     /\ UNCHANGED stable
  \/ /\ IndexUtxo /\ missing # {} /\ ~ FullUtxo
     /\ \E met \in SUBSET Spends[b] : utxo' = utxo \ met
     /\ loop' = [loop EXCEPT ![l].pc = "utxo", ![l].block = b]
     /\ UNCHANGED <<headers, records, runeLog, intact>>

-----------------------------------------------------------------------------
(* detect_reorg and handle_reorg (index/reorg.rs).                         *)

(* Bug: the last depth is not tried.                                       *)
Bug_Probe(l, b, depth) ==
  LET h == loop[l].height - depth IN
  IF depth >= MaxDepth - 1 \/ h \notin DOMAIN headers
  THEN Return(l)
  ELSE loop' = [loop EXCEPT ![l].pc = "detect", ![l].block = b,
                            ![l].depth = depth, ![l].seen = headers[h]]

(***************************************************************************)
(* One round of the loop of detect_reorg up to its await: read the header  *)
(* at height - depth and ask the node for its hash there.  Running out of  *)
(* depths or of headers is Unrecoverable; a height below zero panics.      *)
(***************************************************************************)
Probe(l, b, depth) ==
  LET h == loop[l].height - depth IN
  \/ /\ depth >= MaxDepth
     /\ Return(l)
  \/ /\ depth < MaxDepth /\ h < 0
     /\ Panic(l)
  \/ /\ depth < MaxDepth /\ h >= 0 /\ h \notin DOMAIN headers
     /\ Return(l)
  \/ /\ depth < MaxDepth /\ h >= 0 /\ h \in DOMAIN headers
     /\ loop' = [loop EXCEPT ![l].pc = "detect", ![l].block = b,
                             ![l].depth = depth, ![l].seen = headers[h]]

(* Bugs: the range of heights ends, or begins, one too early.              *)
Bug_RolledBackShort(l) ==
  {h \in (loop[l].height - loop[l].depth + 1)..(loop[l].height - 2) : IndexesRunes(h)}

Bug_RolledBackFork(l) ==
  {h \in (loop[l].height - loop[l].depth)..(loop[l].height - 1) : IndexesRunes(h)}

(***************************************************************************)
(* handle_reorg: newest first, undo the change record of every height      *)
(* above the fork and remove its record and header.  All of it sits under  *)
(* index_runes && h >= first_rune_height; the UTXO table is left alone.    *)
(***************************************************************************)
RolledBack(l) ==
  {h \in (loop[l].height - loop[l].depth + 1)..(loop[l].height - 1) : IndexesRunes(h)}

Without(map, hs) == [k \in DOMAIN map \ hs |-> map[k]]

(* Bug: the change records are removed but not applied.                    *)
Bug_HandleReorgKeepsTables(l) ==
  /\ records' = Without(records, RolledBack(l))
  /\ headers' = Without(headers, RolledBack(l))
  /\ UNCHANGED runeLog
  /\ Rearm(l)

(* Bug: the block is asked for again without reading next_block again.     *)
Bug_HandleReorgRetries(l) ==
  /\ runeLog' = SubSeq(runeLog, 1, Len(runeLog) - Cardinality(RolledBack(l)))
  /\ records' = Without(records, RolledBack(l))
  /\ headers' = Without(headers, RolledBack(l))
  /\ loop' = [loop EXCEPT ![l].pc = "hash"]

HandleReorg(l) ==
  LET undone == Cardinality(DOMAIN records \cap RolledBack(l)) IN
  /\ runeLog' = IF undone <= Len(runeLog)
                THEN SubSeq(runeLog, 1, Len(runeLog) - undone)
                ELSE <<>>
  /\ records' = Without(records, RolledBack(l))
  /\ headers' = Without(headers, RolledBack(l))
  /\ Rearm(l)

-----------------------------------------------------------------------------
(* The steps of an index thread.                                           *)

(***************************************************************************)
(* The timer fires: read the next block and ask the node for its hash.     *)
(***************************************************************************)
Fire(l) ==
  /\ loop[l].pc = "timer"
  /\ loop' = [loop EXCEPT ![l].pc = "hash", ![l].height = NextHeight,
                          ![l].prev = PrevBlock]
  /\ UNCHANGED <<best, stable, subscribers, shutting, told, interventions>>

(* Bug: the answer None is taken for a hash.                               *)
Bug_HashFound(l) ==
  /\ loop[l].pc = "hash"
  /\ loop' = [loop EXCEPT ![l].pc = "block",
                          ![l].block = NodeBlockHash(loop[l].height)]
  /\ UNCHANGED <<best, stable, subscribers, shutting, told, interventions>>

(***************************************************************************)
(* get_block_hash answered Ok(Some(hash)): ask for the block.              *)
(***************************************************************************)
HashFound(l) ==
  /\ loop[l].pc = "hash"
  /\ NodeBlockHash(loop[l].height) # NoBlock
  /\ loop' = [loop EXCEPT ![l].pc = "block",
                          ![l].block = NodeBlockHash(loop[l].height)]
  /\ UNCHANGED <<best, stable, subscribers, shutting, told, interventions>>

(***************************************************************************)
(* get_block_hash answered Ok(None): the node has no such block yet, or    *)
(* the call failed (bitcoin_api.rs turns every RPC error into None).       *)
(***************************************************************************)
HashMissing(l) ==
  /\ loop[l].pc = "hash"
  /\ NodeBlockHash(loop[l].height) = NoBlock \/ "hash" \in Fallible
  /\ Rearm(l)
  /\ UNCHANGED <<best, stable, subscribers, shutting, told, interventions>>

(* Bug: the parent is not compared.                                        *)
Bug_BlockFits(l) ==
  /\ loop[l].pc = "block"
  /\ IndexBlock(l, loop[l].block)
  /\ UNCHANGED <<best, subscribers, shutting, told, interventions>>

(***************************************************************************)
(* get_block answered with the block of that hash, and its parent is the   *)
(* block the index ends in, or the index is empty: index it.               *)
(***************************************************************************)
BlockFits(l) ==
  /\ loop[l].pc = "block"
  /\ loop[l].prev \in {NoBlock, Parent[loop[l].block]}
  /\ IndexBlock(l, loop[l].block)
  /\ UNCHANGED <<best, subscribers, shutting, told, interventions>>

(***************************************************************************)
(* get_block answered with a block whose parent is another one: look for   *)
(* the fork.                                                               *)
(***************************************************************************)
BlockForks(l) ==
  /\ loop[l].pc = "block"
  /\ loop[l].prev \notin {NoBlock, Parent[loop[l].block]}
  /\ Probe(l, loop[l].block, 1)
  /\ UNCHANGED <<best, stable, subscribers, shutting, told, interventions>>

BlockFails(l) ==
  /\ loop[l].pc = "block"
  /\ "block" \in Fallible
  /\ Rearm(l)
  /\ UNCHANGED <<best, stable, subscribers, shutting, told, interventions>>

(***************************************************************************)
(* The node's block at height - depth is the one the index has: roll back. *)
(***************************************************************************)
ForkFound(l) ==
  /\ loop[l].pc = "detect"
  /\ NodeBlockHash(loop[l].height - loop[l].depth) = loop[l].seen
  /\ HandleReorg(l)
  /\ UNCHANGED <<best, intact, utxo, subscribers, shutting, told, interventions>>

(***************************************************************************)
(* The node's block there is another one: one deeper.                      *)
(***************************************************************************)
ForkDeeper(l) ==
  /\ loop[l].pc = "detect"
  /\ NodeBlockHash(loop[l].height - loop[l].depth) \notin {NoBlock, loop[l].seen}
  /\ Probe(l, loop[l].block, loop[l].depth + 1)
  /\ UNCHANGED <<best, stable, subscribers, shutting, told, interventions>>

(***************************************************************************)
(* No answer: Unrecoverable, and update_index returns without a timer.     *)
(***************************************************************************)
ForkFails(l) ==
  /\ loop[l].pc = "detect"
  /\ \/ NodeBlockHash(loop[l].height - loop[l].depth) = NoBlock
     \/ "detect" \in Fallible
  /\ Return(l)
  /\ UNCHANGED <<best, stable, subscribers, shutting, told, interventions>>

(* Bug: the new entries are not committed after the wait.                  *)
Bug_InputsFetched(l) ==
  /\ loop[l].pc = "utxo"
  /\ IndexRuneBlock(l, loop[l].block)
  /\ UNCHANGED <<best, utxo, subscribers, shutting, told, interventions>>

(***************************************************************************)
(* get_raw_transaction_info_forever answered for the missing inputs.  It   *)
(* retries for ever, so a call that fails is a longer wait.                *)
(***************************************************************************)
InputsFetched(l) ==
  /\ loop[l].pc = "utxo"
  /\ utxo' = (utxo \ Spends[loop[l].block]) \cup Creates[loop[l].block]
  /\ IndexRuneBlock(l, loop[l].block)
  /\ UNCHANGED <<best, subscribers, shutting, told, interventions>>

(***************************************************************************)
(* It answered with a transaction that does not decode or has no such      *)
(* output: index_block returns the error, and the entries removed so far   *)
(* stay away.                                                              *)
(***************************************************************************)
InputsFail(l) ==
  /\ loop[l].pc = "utxo"
  /\ "inputs" \in Fallible
  /\ Rearm(l)
  /\ UNCHANGED <<best, stable, subscribers, shutting, told, interventions>>

(***************************************************************************)
(* tx_commits_to_rune was answered, and the rest of the block is indexed.  *)
(***************************************************************************)
CommitmentChecked(l) ==
  /\ loop[l].pc = "rune"
  /\ BlockIndexed(l, loop[l].block)
  /\ UNCHANGED <<best, intact, utxo, subscribers, shutting, told, interventions>>

(* Bug: an error of index_block ends the thread.                           *)
Bug_CommitmentFails(l) ==
  /\ loop[l].pc = "rune"
  /\ "commitment" \in Fallible
  /\ Return(l)
  /\ UNCHANGED <<best, stable, subscribers, shutting, told, interventions>>

(***************************************************************************)
(* tx_commits_to_rune failed: index_block returns the error, which is      *)
(* logged, and the same height is tried again in the next cycle.           *)
(***************************************************************************)
CommitmentFails(l) ==
  /\ loop[l].pc = "rune"
  /\ "commitment" \in Fallible
  /\ intact' = (intact /\ loop[l].block \notin Touches)
  /\ Rearm(l)
  /\ UNCHANGED <<best, headers, records, runeLog, utxo, subscribers, shutting,
                 told, interventions>>

(***************************************************************************)
(* tx_commits_to_rune unwraps the block of the commit transaction and      *)
(* subtracts its height from the height being indexed.  Once the block     *)
(* being indexed has left the best chain, the commit transaction may be    *)
(* unconfirmed or higher up, and the callback panics.                      *)
(***************************************************************************)
CommitmentPanics(l) ==
  /\ loop[l].pc = "rune"
  /\ NodeBlockHash(loop[l].height) # loop[l].block
  /\ intact' = (intact /\ loop[l].block \notin Touches)
  /\ Panic(l)
  /\ UNCHANGED <<best, headers, records, runeLog, utxo, subscribers, shutting,
                 told, interventions>>

(***************************************************************************)
(* notify_new_block returned, delivered or not (errors are only logged):   *)
(* call the next subscriber, or end the cycle after the last.              *)
(***************************************************************************)
Notified(l) ==
  LET s == loop[l].subs[loop[l].next] IN
  /\ loop[l].pc = "notify"
  /\ \/ told' = [told EXCEPT ![s] = Append(@, loop[l].block)]
     \/ "notify" \in Fallible /\ UNCHANGED told
  /\ IF loop[l].next < Len(loop[l].subs)
     THEN loop' = [loop EXCEPT ![l].next = @ + 1]
     ELSE Rearm(l)
  /\ UNCHANGED <<best, stable, subscribers, shutting, interventions>>

Step(l) ==
  \/ Fire(l)
  \/ HashFound(l) \/ HashMissing(l)
  \/ BlockFits(l) \/ BlockForks(l) \/ BlockFails(l)
  \/ ForkFound(l) \/ ForkDeeper(l) \/ ForkFails(l)
  \/ InputsFetched(l) \/ InputsFail(l)
  \/ CommitmentChecked(l) \/ CommitmentFails(l) \/ CommitmentPanics(l)
  \/ Notified(l)

-----------------------------------------------------------------------------
(* The controller (api.rs).                                                *)

(***************************************************************************)
(* start(): clear the flag and set a timer, with the subscribers of now.   *)
(***************************************************************************)
Start(l) ==
  /\ loop[l].pc \in Ended
  /\ shutting' = FALSE
  /\ loop' = [loop EXCEPT ![l] = Idle("timer", subscribers)]
  /\ UNCHANGED <<best, stable, subscribers, told, interventions>>

(***************************************************************************)
(* stop(): set the flag and return; no thread is waited for.               *)
(***************************************************************************)
Stop ==
  /\ ~ shutting
  /\ interventions < MaxInterventions
  /\ interventions' = interventions + 1
  /\ shutting' = TRUE
  /\ UNCHANGED <<best, stable, subscribers, loop, told>>

(***************************************************************************)
(* post_upgrade: stable memory stays, heap memory (the flag) and every     *)
(* timer and suspended call are gone; subscribers may be replaced.  An     *)
(* index_rune cut short leaves what it wrote.                              *)
(***************************************************************************)
Upgrade ==
  /\ interventions < MaxInterventions
  /\ interventions' = interventions + 1
  /\ subscribers' \in SubscriberLists
  /\ shutting' = FALSE
  /\ intact' = (intact /\ \A l \in Loop :
                            loop[l].pc = "rune" => loop[l].block \notin Touches)
  /\ loop' = [l \in Loop |-> Idle("off", <<>>)]
  /\ UNCHANGED <<best, headers, records, runeLog, utxo, told>>

-----------------------------------------------------------------------------
Init ==
  /\ ChainInit
  /\ headers = [h \in {} |-> NoBlock] /\ records = [h \in {} |-> NoBlock]
  /\ runeLog = <<>> /\ intact = TRUE /\ utxo = {}
  /\ subscribers \in SubscriberLists
  /\ shutting = FALSE
  /\ loop = [l \in Loop |-> Idle("off", <<>>)]
  /\ told = [s \in Subscriber |-> <<>>]
  /\ interventions = 0

NodeStep ==
  /\ NewBest
  /\ UNCHANGED <<stable, subscribers, shutting, loop, told, interventions>>

Next ==
  \/ NodeStep
  \/ \E l \in Loop : Step(l) \/ Start(l)
  \/ Stop
  \/ Upgrade

Spec == Init /\ [][Next]_vars

(***************************************************************************)
(* Fairness.  The Internet Computer runs due timers and delivers every     *)
(* response, so each thread keeps taking steps; a call that can fail does  *)
(* not fail for ever when it is made again and again.  The latter is an    *)
(* assumption about the node and the proxy, and ProxiedIndexer.tla, which  *)
(* has no use for it, shows that this proxy may break it for hashes.       *)
(***************************************************************************)
Fairness ==
  \A l \in Loop :
    /\ WF_vars(Step(l))
    /\ SF_vars(HashFound(l))
    /\ SF_vars(BlockFits(l) \/ BlockForks(l))
    /\ SF_vars(InputsFetched(l))
    /\ SF_vars(CommitmentChecked(l))

FairSpec == Spec /\ Fairness
=============================================================================
