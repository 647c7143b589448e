# A TLA+ model of the Bitcoin indexer canister

## 1. The system

The repository holds a canister for the Internet Computer that follows a Bitcoin
node and keeps tables of runes, inscriptions and unspent outputs, and an HTTP
proxy between the canister's HTTPS outcalls and the node.

| component | source | state | operations | talks to |
|---|---|---|---|---|
| indexing loop | `index/updater.rs` | the locals of a suspended cycle; the timer | one cycle per block: hash, block, fork check, index, prune, header, notify | node (through `rpc.rs`), stable maps, subscribers |
| reorganisation handling | `index/reorg.rs` | none of its own | `detect_reorg`, `handle_reorg`, `prune_change_record` | node, stable maps |
| rune indexing | `index/updater/rune_updater.rs` | the `RuneUpdater` of a block: burned, change record, count | edicts, mints, etchings, burns per transaction; `update` per block | stable maps; node, for the commitment of an etching |
| UTXO and inscription indexing | `index/updater.rs`, `index/updater/inscription_updater.rs`, `index/utxo_entry.rs` | cache of a block's outputs; counters | inputs, sat ranges, inscriptions, `commit` | stable maps; node, for inputs older than the index |
| stable maps | `index.rs`, `index/entry.rs`, `memory.rs` | everything that survives an upgrade | one function per map and operation | - |
| queries | `api.rs`, `index.rs` | - | read-only, between any two steps of the loop | stable maps; node, for inscription details |
| controller endpoints | `api.rs`, `config.rs` | `SHUTTING_DOWN`, the configuration | `start`, `stop`, `set_bitcoin_rpc_url`, `post_upgrade` | the loop |
| JSON-RPC client | `rpc.rs` | the parts of an answer received so far | calls split into byte ranges, retries | proxy |
| proxy | `bitcoin-rpc-proxy/` | an LRU cache of answers | forward, cut out a range, cache | node |
| notifications | `notifier.rs` | - | `new_block_detected` on each subscriber | subscribers |
| logs | `logs/` | ring buffers of log entries | append, serve over HTTP | - |
| inscription parsing | `inscriptions/` | - | witness to envelopes to inscriptions | - |

How they interact. `start()` sets a timer; when it fires, `update_index` reads
the next height and the latest hash from the header map and then awaits, one
after the other, the hash at that height, the block, possibly one hash per depth
of a reorganisation, the transactions of unknown inputs, the commitment of every
etching, and each subscriber. Every await gives up control: queries,
`stop()`, a second `start()` and an upgrade run there, and what was written
before an await stays written even if the callback after it traps. Each call to
the node is an HTTPS outcall that every replica of the subnet makes for itself
through the proxy.

What is hard: state kept in locals across awaits; attempts at a block that fail
half-way and are repeated on the tables they left; reorganisations that
have to undo exactly what was done, from a pruned window; replicas that get
different replies; ranges of one reply cut out of different replies; and a loop
whose only motor is a timer that every path has to set again.

What makes each part correct: the index is a window on one chain of the node and
reaches its tip; rune tables are those of the indexed chain, also after
rollbacks, and conserve supply; change records are exactly those of the headers;
inscriptions stay on their sats, outputs and addresses are those of the chain, and
what a query puts together over several blocks is of one inscription; what is
revealed in a script is what is read from it;
the ranges of a reply meet; the replicas agree; subscribers miss no block.
`PROJECT.json` lists the hazards line by line.

## 2. The modules

| module | models | kind |
|---|---|---|
| `BitcoinChain` | the node's block tree and best chain | environment |
| `ChainView` | the promised window on one chain | abstract specification |
| `Indexer` | `update_index`, `index_block`, `reorg.rs`, `start`, `stop`, `post_upgrade` | state machine |
| `IndexerProperties` | its properties, and the refinement of `ChainView` | properties |
| `ProxiedIndexer` | `Indexer` behind the proxy's cache | composition |
| `Maps` | stable maps as functions | helpers |
| `RuneTables` | `rune_updater.rs`, the undo part of `reorg.rs`, `RuneEntry` | operators |
| `RuneLedger` | `index_rune` with its suspensions, `handle_reorg` on the real tables | state machine |
| `Envelope` | `envelope.rs`, the reading half of `tag.rs` | operators |
| `Inscription` | `inscription.rs`, `inscription_id.rs`, the writing half of `tag.rs`, the lookups of `media.rs` | operators |
| `RevealTx` | a transaction's tapscripts in the making, and what is read in them | state machine |
| `InscriptionTables` | `index_utxo_entries`, sats, `inscription_updater.rs`, `commit`, on the envelopes of `Envelope` | operators |
| `InscriptionLedger` | blocks indexed one after the other, waiting for inputs, cut off | state machine |
| `InscriptionQueries` | `inscription_info` with its awaits, on top of it | state machine |
| `RpcClient` | `make_rpc`, `make_single_request`, the replicas' outcalls, the proxy | state machine |
| `IndexerProofs`, `IndexerChainProofs`, `IndexerLedgerProofs`, `IndexerNotifyProofs` | theorems about `Indexer` | proofs |
| `RuneLedgerProofs` | theorems about entries, indexes and numbers of runes | proofs |
| `RuneReplayProofs` | that `RuneLedger`'s tables are a function of the indexed chain | proofs |
| `RpcClientProofs` | theorems about `RpcClient` | proofs |
| `Folding` | what a fold of the community modules computes, with the step as a parameter | proofs |
| `MC*` | the instances that TLC checks | instances |

### Indexer

An action is the code from one await to the next. `loop[l]` is the suspended
closure of index thread `l`: where it waits (`pc`), the height and hash it read
(`height`, `prev`), the block, the depth and header of `detect_reorg`, and the
subscribers that `start()` captured. There may be several threads, because
nothing in `start()` refuses a second one.

| code | action |
|---|---|
| the timer, `next_block` | `Fire` |
| `get_block_hash` answers, `None` or fails | `HashFound`, `HashMissing` |
| `get_block` answers, fails | `BlockFits`, `BlockForks`, `BlockFails` |
| a round of `detect_reorg` | `ForkFound` (with all of `handle_reorg`), `ForkDeeper`, `ForkFails` |
| `index_utxo_entries` waiting for unknown inputs: they arrive, the lookup fails | `InputsFetched`, `InputsFail` |
| `index_rune` waiting for a commitment | `CommitmentChecked`, `CommitmentFails`, `CommitmentPanics` |
| `notify_new_block` | `Notified` |
| `start`, `stop`, `post_upgrade` | `Start`, `Stop`, `Upgrade` |

What a block writes is abstracted to two ledgers: the sequence of blocks in the
rune tables, and the set of keys of the UTXO table. `intact` turns `FALSE` once
an attempt that had written to the rune tables was cut off. The two statistic
rows that `index_rune` writes before its first await do not count: the retry
writes the same rows again.

### RuneTables and RuneLedger

`RuneTables` has the seven rune maps as one record of functions and each piece
of `RuneUpdater` as an operator on it: unallocated runes, mints, edicts, etching
with or without name, the three ways of burning, the change record, and `Undo`.
A transaction is what `Runestone::decipher` makes of it (the `ordinals` crate is
external). `RuneLedger` runs them with the suspension at each commitment lookup,
cuts attempts off, and rolls back. After a cut-off the same block may come again, or
another one that the node has by then at that height, or blocks may be rolled back.
Four history variables, `cutOffs`, `tried`, `cutAt` and `moved`, record which of
these happened, and no action but `CutOff`, for its bound, depends on them; the
properties use them to say until when they hold. Rune amounts stay far below
128 bits.

### Envelope, Inscription and RevealTx

A script is the sequence of instructions that the `bitcoin` crate yields, with a
mark where it does not decode. `ParserStep` is what the code does with one
instruction in each place it may be in, the two `accept`s included; it is folded
over the script. `RevealTx` grows scripts one instruction, field or inscription at
a time and compares the parser with definitions by position in the script
(`HeaderAt`, `RunsTo`, `Begins`), and what `Inscription::new` was given with what is
read back from the reveal script. Two things it states as they are: `stuttered` is not reset
by an envelope that is found, so that the envelope after a stuttering one is
marked too, and empty metadata is read back as none, because it makes no chunk.

### InscriptionTables, InscriptionLedger and InscriptionQueries

A sat range is flattened to its sats, so that the sat of an inscription can be
compared with the sat at its satpoint: `index_transaction_sats` and
`index_inscriptions` compute these independently.

| code | action |
|---|---|
| `index_block` to its first await or its end | `BeginBlock` |
| heights below the first one indexed | `SkipBlock` |
| the transaction of an unknown input arrives | `Fetched` |
| the header is written | `EndBlock` |
| an upgrade or an error while the call waits | `CutOff` |
| `inscription_info` to its first `get_transaction`, and after each | `Ask`, `GotReveal`, `GotOutput`, `GotDelegate` |
| `get_transaction` fails | `QueryFails` |

The configuration is chosen in `Init`: with sats and addresses the index is full and
starts at height 0, with neither it starts at the first inscription height and
older inputs are fetched. Then entries are written transaction by transaction and
satpoints only by `commit`, and this is what queries and cut-off calls meet. A full
index does not wait in a block (`OutputsMatchChain`), so what is left of
cut-offs there is the retry that `IndexerFullUtxo` is about.

### RpcClient

One call at a time; the replicas' requests interleave at the proxy between
lookup, answer of the node and put. A body is the version of the reply it comes
from and the bytes it covers. Because all calls ask the same question, the key
of the cache is the range. `ProxiedIndexer` has the other half of the key: it
asks for the hashes of many heights, each in one range.

## 3. The runs

| run | instance | shows |
|---|---|---|
| `IndexerFaults` | 3 chains, two successive forks, inputs older than the index, all calls fallible, 2 stops or upgrades, UTXO index from height 1, runes from 2 | `TypeOK`, `HeadersLinked`, `ReadsStayCurrent`, `RuneLedgerMatchesChain`, `UtxoMatchesChain`, `ImplementsChainView` |
| `IndexerLive` | the same chains and a short fork, runes from height 3, so that the short fork goes below them; commitments looked up in blocks that the node may drop meanwhile; 2 subscribers; fairness | `NotificationsLinked`, `ThreadSurvives`, `Converges` |
| `IndexerThreads` | two threads, one fork, one intervention | `RecordsMatchHeaders`, `LatestStaysKnown` |
| `RuneLedger` | all valid chains of up to 4 blocks from a menu, rollbacks of up to 2, up to 2 attempts cut off, then the same block, another one, or rollbacks | without cut-offs tables those of the chain, supply, numbers, indexes, confirmations, no trap; after cut-offs what is left of these, each under its condition (below) |
| `Inscriptions` | all valid chains of up to 4 blocks from a menu, full and partial index, one cut-off, one query at a time | sats, satpoints, addresses, lists, home table, ids, what waits and what traps, replies with their charms; `EntriesAreForever` |
| `RevealTx` | scripts of up to 5 steps over 2 inputs, batches of 2 | `EnvelopesFound`, `FieldsByPosition`, `RevealedIsReadBack`, `NumbersHaveTheirForms`, `CompleteStays` |
| `RpcClient` | 3 replicas, replies of 2 to 7 bytes in ranges of 3 and 2, 3 versions, 2 failures, 2 calls, cache of 2 | ranges meet, no spurious error, agreement, bounded cache |
| `IndexerFullUtxo` | one chain, full UTXO index, commitment lookups fallible | *violated*: `AssertionHolds` |
| `IndexerRollback` | one fork, nothing fails | *violated*: `RollbackRestoresOutputs` |
| `ProxiedFreshness` | one chain, nothing fails | *violated*: `StaysFresh` |
| `RuneLedgerCutOff` | as `RuneLedger`, one attempt cut off, then rolled back | *violated*: `RollbackRestoresTables` |
| `InscriptionNumbers` | as `Inscriptions`, sats not indexed | *violated*: `NumberFindsInscription` |

Bounds and why they are enough:

- `MaxDepth` is 6 in the code and 4 in the runs. With 4 the depths 1, 2 and 3 are
  tried, a rollback removes up to two blocks, the second reorganisation meets a
  window that the first has shortened, and pruning removes headers. The proofs
  hold for every depth from 2 on.
- Block trees have a second fork that branches off the first, so that a thread
  can meet a reorganisation in the middle of handling another.
- `MaxInterventions` is 2, so that an upgrade can cut off what a thread does
  after a stop and a start.
- `MaxCutOffs` is 2 in `RuneLedger`: one block can be cut off at two of its lookups, or
  two blocks once each, at different heights or on different forks, with blocks and
  rollbacks before, between and after them.
- Rune menus contain each kind of artifact, a mint beyond its cap, an edict
  to all outputs, a burn in each of the three ways, an output spent in the block
  that created it, and a second etching of a name. Inscription menus contain
  inscriptions on first and later inputs, by pointer, on an output without
  value, with each kind of curse, before and after the jubilee, and moves to
  outputs, `OP_RETURN`, fees and lost sats, and parents and delegates. The first
  inscription height is 1 with coinbases at 0 that claim all or lose one sat, so that
  sats are lost below it. Four heights suffice for an inscription to be made, moved,
  and then lost, burned or given to the fee. One cut-off, because a second one meets
  the same tables. One query: it writes nothing.
- In `RevealTx` pushes have at most 2 bytes (520 in the code), indexes and pointers
  2 (4 and 8), so that values below, at and above each width occur. Five steps are
  enough for an envelope that is broken off or nested in another one's header, for a
  field given twice, and for two inscriptions after each other.
- Sizes of 2 to 7 with ranges of 3 and 2 give one, two and three ranges with
  a last range of one and of two bytes. Symmetry over the replicas is sound: no
  action or property tells them apart, and none is temporal.

What `RuneLedger`'s properties say after a cut-off, since a failed attempt leaves its
rows in the tables (`updater.rs:70-76`):

| what follows the cut-off | still holds | does not |
|---|---|---|
| nothing but the same block | `SupplyConserved` as an inequality (units may be lost, none made), unique numbers, `IndexesAgree`, `Confirmable`, `RollbackNeverTraps` | equal tables, numbers without gaps |
| another block at that height | unique numbers, `Confirmable`, `RollbackNeverTraps` | supply: another rune at the same place replaces the entry of the first one, whose balances stay; agreement of the indexes |
| a rollback | entries above the greatest height of a cut-off attempt are gone (`Confirmable`) | the rest; below that height an entry may be far ahead of the latest header, and confirmations wrap |

`CHECK_DEADLOCK FALSE` stands where the instance ends: the menu, the number of
calls, or the last block of a line. The indexing loop itself never
deadlocks, and its runs check that.

Fairness (`IndexerLive`, `ProxiedFreshness`). Weak fairness on each thread's
steps: the Internet Computer fires due timers and delivers a response or an
error to every call. In `IndexerLive` also strong fairness on the success of the
calls that are made again after a failure: a call repeated for ever succeeds now
and then. This is an assumption about what answers the calls, not a fact about the
repository: behind its own proxy the hash of the next block may never come, which
`ProxiedFreshness` shows with weak fairness on the thread alone. The call inside
`detect_reorg` is not repeated by the code, so it cannot be assumed to succeed in
the end: `IndexerLive` does not let it fail, and without that `Converges` does not
hold (a failure there ends the thread). There is no fairness on the node or on the
controller; `Converges` speaks of executions in which the thread was started.

`ThreadSurvives` and `Converges` have two exceptions, which the run reaches and the
properties name. A thread ends if the node drops the block being indexed while it
looks up a commitment (`Orphaned`; `CommitmentPanics` is the step). Then nobody is
left to index (`Panicked`). And a reorganisation that goes below the first rune height
is found in every cycle and removed in none (`Unremovable`), so the loop goes round
for ever.

## 4. What the code does differently from what the repository says

Shown by a run:

- `ProxiedFreshness`: an index at the tip asks for the next height, bitcoind answers
  with an error, the proxy passes it on as 200 because it fits in the range
  (`main.rs:70`), takes it for a success (`main.rs:142`) and caches it. Later
  questions have the same key (`rpc.rs:76-81`), so the index stays where it is until a
  thousand other replies have displaced the entry. With the error not cached
  the property holds.
- `IndexerFullUtxo`: a block retried after its commitment lookup failed does not
  find its own inputs, and `assert!` at `updater.rs:291` ends the thread.
- `IndexerRollback`: `handle_reorg` undoes the rune tables only and reports success; the
  UTXO and inscription tables keep the rows of the orphaned blocks (`reorg.rs:118-125`, where
  a TODO stands).
- `RuneLedgerCutOff`: rows written by an attempt that was cut off are in no
  change record, and a rollback reported as successful leaves them.
- `InscriptionNumbers`: the counts are stored inside
  `if !lost_sat_ranges.is_empty()` (`updater.rs:379-411`), so inscription numbers
  are given out again.

Seen while reading, and modelled as the code has it where a module reaches it:

- `handle_reorg` removes headers only under the condition for runes
  (`reorg.rs:118`): a reorganisation below the first rune height is found and handled
  again in every cycle (`Unremovable` in `Converges`).
- `tx_commits_to_rune` unwraps what the node says of the block being indexed
  (`rune_updater.rs:442-450`). If the node has dropped that block since it was fetched,
  this traps, and the thread has no timer any more (`Orphaned` in `ThreadSurvives`).
- When the node has another block at a height where an attempt was cut off, runes may
  come out of nothing: the entry of another rune replaces the one at the same place in the
  block, and outputs keep balances of the first one under its id (`SupplyConserved`).
- `cur_height - entry.block + 1` (`api.rs:69`) wraps to nearly 2^32 for entries that a
  cut-off attempt left and a later rollback did not remove, until the chain is back at
  their height (`Confirmable`).
- a failed call inside `detect_reorg` counts as an unrecoverable reorganisation
  and ends the thread (`reorg.rs:45-49`), and nothing starts it again.
- `detect_reorg` tries depths below `MAX_RECOVERABLE_REORG_DEPTH` (`reorg.rs:41`).
- `stop()` does not wait for a suspended cycle (`api.rs:320`).
- the lookup of a child iterates over an option, not over the list in it
  (`index.rs:704`): child 0 is found, any other is none (`Wanted`).
- `index.rs:728` unwraps a satpoint that in a partial index an inscription of the
  block being indexed does not have yet, so such a query traps where an error is
  promised. `TrapsOnlyOnNewOnes` says that this is the only case.
- `LostSats` is stored from the inscription updater (`updater.rs:379-411`), which does not count
  below the first inscription height: offsets in the null outpoint are too low by the
  sats lost there. `InscriptionsStayOnTheirSats` and `SatsAccountedFor` hold up to this difference.

## 5. What is proved

All theorems are proved by TLAPS for every value of the constants that satisfies
the named assumptions: `ChainAssumption` (blocks of a chain are linked by their
parents), `IndexerAssumption` (how `Index::from_config` picks the first height,
`MaxDepth >= 2`; a block does not spend an output that it leaves unspent),
`LedgerAssumption` (types; a name of a rune is none that is reserved for a place
in a block), `ChainsFinite` (every block is at some height), `ChainsValid` (on a
valid chain no transaction occurs twice and no output is spent twice), `SpentLater`
(and no output is spent before the transaction that creates it),
`RpcAssumption` (limits of at least two bytes, a positive capacity, an agreement
threshold that the replicas can reach).

Indexing loop (`IndexerProofs`, `IndexerChainProofs`, `IndexerLedgerProofs`,
`IndexerNotifyProofs`):

- `TypeCorrect`. Not inductive alone: that `Top` picks a height needs that the
  heights are bounded (`Bounded`), which every step preserves. `LargestNatural`
  gets the maximum from well-foundedness.
- `RecordsCorrect`, for any number of threads: records and headers are always
  changed together, at the same heights, by `BlockIndexed` and `HandleReorg`.
- `HeadersStayLinked`, `ReadsCurrent`, with one thread. The inductive invariant is
  `ChainInv`, the two properties together with types and bound: that the next
  header fits depends on the parent check made before the awaits, and that
  nothing read became stale depends on the only writer of the headers being the
  thread itself.
- `LatestKnown`, with one thread: a rollback stops above a header that is there.
- `IndexerImplementsChainView`, with one thread: under `ChainInv` every step is
  `First`, `Extend`, `Rollback` or a stutter of `ChainView`. One thread is needed:
  two threads may index the same height.
- `RuneLedgerCorrect`, with one thread. The ledger is compared with the chain of the
  latest header at every step, the block at work included (`LedgerInv`); the
  argument is that the only thread that writes is at the height it read.
- `UtxoCorrect`, with one thread and the UTXO index on. `UtxoInv` says how far a
  cycle has got with the table: nothing of the next block, some of its inputs
  removed, or all of it written. A retry starts from any of these, and
  `UtxoAdded` shows that it ends in the same keys.
- `NotificationsCorrect`, with one thread, each subscriber listed once, no failing
  notification and no upgrade: what a subscriber has heard is a walk along
  parents. A failed call or an upgrade does skip a block, because the code does
  not repeat notifications.

Rune tables (`RuneLedgerProofs`, on `Folding`). Loops over transactions and heights are
folds; the lemma `FoldUnfolds` turns each into a sequence of intermediate states, and an
induction over it (by a least counterexample) carries an invariant from one
transaction to the next. `LedgerCorrect` proves the invariant `Ledger`, without any
assumption about cut-offs and rollbacks. It is a conjunction of

- `Window` and `History`: the heights kept are consecutive and records are of the
  headers; what the history variables say of each other.
- `Traced`, which survives rollbacks after a cut-off. Its core is `Accounted`: every entry
  above `cutAt` whose height is still in the window is listed in the change record of its
  height, which may be that of the updater at work, so that a rollback below its height
  removes it. A rollback leaves a
  cut-off attempt's entries, which is why the bound is `cutAt`.
- `LedgerInv`, as long as no blocks were rolled back after a cut-off (`Forward`). It has
  three parts that hold between two cycles (`Rest`), at every transaction (`Stage`) and
  at every height of a rollback (`UndoRest`): entries are at most one block ahead and the
  change record of a height lists the runes etched there; the row of a height counts the
  runes up to it; an entry is of the transaction at its place on the chain. None is
  inductive alone: that a rollback leaves the right entries needs the change records, and
  that names stay unique needs the places.

From it follow, each under the condition that the property itself states,

- `ConfirmationsCorrect`: an entry two or more blocks ahead is one that an attempt left
  which was cut off before a rollback, at most at the height of such an attempt;
- `RollbackCorrect`, `NumbersCorrect`: until a rollback follows a cut-off, for any block
  that the node has when a height is tried again;
- `IndexesCorrect`: if that is the same block.

What the tables hold (`RuneReplayProofs`, on `RuneLedgerProofs`). `Replayed` indexes a
chain from nothing, each block in one go. `ReplayInv` compares the ledger with it,
as long as no attempt was cut off, and it is inductive together with `LedgerInv`
(`ReplayCorrect`). Its parts:

- Between two cycles the tables are the replay of the chain of the latest block, as
  far as the window keeps the statistics (`Win`). The indexer reads only the highest
  row of these, so pruning makes no difference to what it does.
- In the middle of a block, which any number of lookups may suspend, the updater and
  that of the replay are twins (`Twins`, `Follows`): they differ in the rows below the
  window only, and every piece of `index_runes` keeps them so.
- Of the same two updaters `Rev` says what the change record has to know so far: each
  output of the tables before the block is still there, or its balance and height are
  in the record; each entry still has its count of mints, or the record has the old
  one; and all other outputs and entries are listed as new. `UndoBack` turns this,
  at the end of a block, into `Undo(Pure(b), record, h) = Pure(Parent[b])`, and
  `Returns` keeps it for every height of the window.
- `UndoneWin` walks a rollback down these records, from the tables of one block to
  those of its parent. No bound on its depth other than that of the code is needed.
- `Fine` is what a replay is like: outputs with balances are those with heights, of a
  transaction of the chain at that height, and unspent; what is etched is on the chain.
  It is why a block meets none of its own names, transactions or outputs in the tables,
  and there `SpentLater` and `ChainsValid` are needed: an output that a block creates
  and spends is listed both as removed and as new, and the order in which
  `handle_reorg` undoes the two then matters.

From it follow

- `TablesCorrect`: after every cycle the tables are those of the indexed chain;
- `UnspentCorrect`: balances are of unspent outputs of that chain, at their heights.

JSON-RPC client and proxy (`RpcClientProofs`):

- `RpcTypeCorrect`, `CacheStaysBounded`. `TypeInv` adds to the types that keys
  are unique and partial responses are of a reply that is not empty, without
  which the next range would not be one, and that requests exist only in an
  outcall. `RefreshedCache` and `CachedCache` say what the two operations on the
  cache leave.
- `SecondAttemptAgrees`, by `AgreeInv`: a range that was answered is cached, and
  from the second attempt on the cache is all that the replicas see. The
  argument is that `put` evicts before it inserts, so the key just put is there.
- `RangesMeet`, by `WholeInv`: while the reply stays the same, all that is in the
  cache or on the way is cut out of it, and what was received ends where the
  range asked for begins; a later range lies within the reply.
- `UnchangingReplyIsReceived`, by `SureInv` on top of it: without failures all
  answers are equal, so the replicas agree, and what is received parses.

Only model-checked: liveness (`Converges`), which the prover has no means for, and the
action property `ThreadSurvives`, which depends on the reorganisations of the instance's
tree being within reach; what rune balances amount to (`SupplyConserved`, a sum over
outputs, and `RuneLedger`'s `TypeOK`, whose balances are positive because of how edicts
divide what there is); the inscription tables and the
parser, which is written with `RECURSIVE`-free folds but whose properties compare
two definitions by induction over scripts.

## 6. What is not modelled, and why

- Byte encodings of stable values; candid types; sat names and lots, pure
  arithmetic; teleburn addresses.
- The canister's logs: no table of the index depends on them.
- CBOR and UTF-8 decoding, brotli, the content of MP4 files and of the regular
  expression of `hidden()`: what they find is an input (`HiddenContent`, one body in the
  runs of inscriptions; the files of `Inscription::new`).
- Reorganisations in `InscriptionLedger`: the code does not roll these tables back, which
  `IndexerRollback` shows on the UTXO table.
- 128-bit overflow: the code checks its arithmetic and amounts of real runes
  stay below it.
- The queries of rune tables read and format; where they compute from several maps, a
  property says what they return (`Confirmable`).
- Eviction of a block hash from the proxy's cache in `ProxiedIndexer`; the cache
  at its limit is in `RpcClient`.
- The cost of outcalls in cycles.

## 7. Plan

Done: the indexing loop with its refinement, the rune and inscription tables with
partial indexes and awaited queries, the parser, the client and the proxy, and the
theorems above. Next, in this order:

1. Proofs: types of balances in `RuneLedger` and with them `SupplyConserved`; the
   ids of `InscriptionLedger`; what two query steps find (`ReplyTellsWhere`).
2. `ProxiedIndexer` with forks: which safety properties survive stale hashes.
3. `CacheBounded` as a library for `ProxiedIndexer`.
