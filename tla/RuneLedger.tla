----------------------------- MODULE RuneLedger -----------------------------
(***************************************************************************)
(* The rune tables as the indexing loop drives them: index_rune of         *)
(* index/updater.rs with its suspension at each commitment lookup, what    *)
(* update_index does after it, and handle_reorg.                           *)
(*                                                                         *)
(* Which blocks come is Indexer.tla's business.  Here any child of the     *)
(* latest block may be indexed and any recoverable number of blocks rolled *)
(* back, which includes all that one index thread does.                    *)
(***************************************************************************)
EXTENDS RuneTables

CONSTANTS
  Block, NoBlock,
  Parent,        \* of each block, NoBlock for those at FirstHeight
  Txs,           \* Txs[b]: the transactions of b in order
  FirstHeight,   \* Index::first_rune_height
  MaxRollback,   \* bound on the blocks that one reorganisation removes
  MaxCutOffs     \* bound on the attempts that are cut off at an await

Tx == DOMAIN Outputs

ASSUME LedgerAssumption ==
  /\ MaxDepth \in Nat /\ MaxDepth >= 2 /\ FirstHeight \in Nat \ {0}
  /\ MaxRollback \in Nat /\ MaxCutOffs \in Nat
  /\ NoBlock \notin Block /\ Parent \in [Block -> Block \cup {NoBlock}]
  /\ Txs \in [Block -> Seq(Tx)]
  /\ Outputs \in [Tx -> Seq({"pay", "op_return"})]
  /\ Inputs \in [Tx -> SUBSET (Tx \X Nat)]
  /\ Etchable \subseteq Tx
  /\ Commitment \in [Tx -> {"none", "yes", "no"}]
  /\ \A tx \in Tx :
       /\ Artifact[tx].kind \in {"none", "runestone", "cenotaph"}
       /\ Artifact[tx].kind = "cenotaph" =>
            \A e \in Artifact[tx].etching : e.name # {}
       /\ \A e \in Artifact[tx].etching : e.name \subseteq {0} \X Nat
       /\ \A v \in Artifact[tx].pointer : v < Len(Outputs[tx])
       /\ \A i \in 1..Len(Artifact[tx].edicts) :
            Artifact[tx].edicts[i].output <= Len(Outputs[tx])

(***************************************************************************)
(* The blocks from FirstHeight to b.  Every block is at some height above  *)
(* FirstHeight, and on a valid chain no transaction occurs twice, no       *)
(* output is spent twice, and none before it is created.                   *)
(***************************************************************************)
ChainTo[b \in Block] ==
  IF Parent[b] = NoBlock THEN <<b>> ELSE Append(ChainTo[Parent[b]], b)

ASSUME ChainsFinite ==
  \A b \in Block :
    /\ ChainTo[b] \in Seq(Block)
    /\ ChainTo[b] = IF Parent[b] = NoBlock THEN <<b>> ELSE Append(ChainTo[Parent[b]], b)

ASSUME ChainsValid ==
  \A b \in Block : LET c == ChainTo[b] IN
    \A i, j \in DOMAIN c : \A k \in DOMAIN Txs[c[i]], l \in DOMAIN Txs[c[j]] :
      <<i, k>> # <<j, l>> =>
        /\ Txs[c[i]][k] # Txs[c[j]][l]
        /\ Inputs[Txs[c[i]][k]] \cap Inputs[Txs[c[j]][l]] = {}

ASSUME SpentLater ==
  \A b \in Block : LET c == ChainTo[b] IN
    \A i, j \in DOMAIN c : \A k \in DOMAIN Txs[c[i]], l \in DOMAIN Txs[c[j]] :
      (\E o \in Inputs[Txs[c[i]][k]] : o[1] = Txs[c[j]][l]) => j < i \/ (j = i /\ l < k)

VARIABLES
  tables,    \* the rune tables (RuneTables.tla)
  records,   \* HEIGHT_TO_CHANGE_RECORD_RUNE
  headers,   \* HEIGHT_TO_BLOCK_HEADER
  block,     \* the block being indexed, NoBlock between cycles
  updater,   \* its RuneUpdater, in the memory of the suspended call
  cutOffs,   \* attempts cut off so far
  tried,     \* the block cut off last, until one is indexed or rolled back
  cutAt,     \* the greatest height at which an attempt was cut off
  moved      \* how the chain has moved after one

(***************************************************************************)
(* The last four are no data of the program: they are what a later state   *)
(* depends on.  "tip" is in moved once another block was indexed at a      *)
(* height where an attempt was cut off, "back" once blocks were rolled     *)
(* back after an attempt was cut off.                                      *)
(***************************************************************************)
vars == <<tables, records, headers, block, updater, cutOffs, tried, cutAt, moved>>

Top == Max(DOMAIN headers)
NextHeight == IF headers = EmptyMap THEN FirstHeight ELSE Top + 1
Latest == IF headers = EmptyMap THEN NoBlock ELSE headers[Top]

NoUpdater == EmptyMap

(* The updater and the tables it works on, together and apart.             *)
Joined == Put(updater, "t", tables)
Apart(s) == Except(s, {"t"})

-----------------------------------------------------------------------------
(***************************************************************************)
(* index_rune has got as far as s: it waits for a commitment, or it ends   *)
(* and update_index prunes the window and adds the header.                 *)
(***************************************************************************)
Suspended(b, s) ==
  /\ s.at # 0
  /\ tables' = s.t
  /\ block' = b /\ updater' = Apart(s)
  /\ UNCHANGED <<records, headers, cutOffs, tried, cutAt>>

(* RuneUpdater::update traps, and the step does not happen, if a burned     *)
(* rune has no entry.                                                      *)
Done(s0, b) ==
  LET s == Updated(s0)
      h == s.height
  IN
  /\ s0.at = 0 /\ Burnable(s0)
  /\ tables' = PrunedTables(s.t, h)
  /\ records' = Pruned(Put(records, h, s.record), h)
  /\ headers' = Put(Pruned(headers, h), h, b)
  /\ block' = NoBlock /\ updater' = NoUpdater /\ tried' = NoBlock
  /\ UNCHANGED <<cutOffs, cutAt>>

Reached(b, s) == Suspended(b, s) \/ Done(s, b)

(***************************************************************************)
(* index_rune begins with the block after the latest one.  The node may    *)
(* have another one there than when an attempt was cut off.                *)
(***************************************************************************)
IndexRune(b) ==
  /\ block = NoBlock
  /\ Parent[b] = Latest
  /\ moved' = IF tried \in {NoBlock, b} THEN moved ELSE moved \cup {"tip"}
  /\ Reached(b, IndexTxs(Started(tables, NextHeight), Txs[b], 0))

(***************************************************************************)
(* The node has answered the lookup.                                       *)
(***************************************************************************)
Answered ==
  /\ block # NoBlock
  /\ Reached(block, Continue(Joined, Txs[block]))
  /\ UNCHANGED moved

(***************************************************************************)
(* The lookup failed, its callback trapped, or an upgrade dropped it: the  *)
(* updater is lost with its change record, and the tables stay.            *)
(***************************************************************************)
CutOff ==
  /\ block # NoBlock
  /\ cutOffs < MaxCutOffs /\ cutOffs' = cutOffs + 1
  /\ block' = NoBlock /\ updater' = NoUpdater
  /\ tried' = block /\ cutAt' = IF NextHeight > cutAt THEN NextHeight ELSE cutAt
  /\ UNCHANGED <<tables, records, headers, moved>>

(***************************************************************************)
(* The loop of handle_reorg over the heights above the fork f, newest      *)
(* first, with Step for its body.                                          *)
(***************************************************************************)
UndoneBy(Step(_, _), f) ==
  FoldLeft(LAMBDA t, n : Step(t, Top + 1 - n), tables, [n \in 1..(Top - f) |-> n])

(***************************************************************************)
(* Bugs in handle_reorg: created outputs go before spent ones come back;   *)
(* mints are not reset; the name, the entry or the count stays.            *)
(***************************************************************************)
Bug_UndoneSwapped(f) ==
  UndoneBy(LAMBDA t, h :
    LET cleared == [t EXCEPT !.balances = Except(@, records[h].added),
                             !.heights = Except(@, records[h].added)]
    IN Undo(cleared, [records[h] EXCEPT !.added = {}], h), f)

Bug_UndoneKeepsMints(f) ==
  UndoneBy(LAMBDA t, h : Undo(t, [records[h] EXCEPT !.mints = EmptyMap], h), f)

Bug_UndoneKeepsNames(f) ==
  UndoneBy(LAMBDA t, h : [Undo(t, records[h], h) EXCEPT !.ids = t.ids], f)

Bug_UndoneKeepsEntries(f) ==
  UndoneBy(LAMBDA t, h : [Undo(t, records[h], h) EXCEPT !.entries = t.entries], f)

Bug_UndoneKeepsCount(f) ==
  UndoneBy(LAMBDA t, h : [Undo(t, records[h], h) EXCEPT !.runes = t.runes], f)

(***************************************************************************)
(* handle_reorg back to the fork f: undo every change record above it.     *)
(***************************************************************************)
Undone(f) == UndoneBy(LAMBDA t, h : Undo(t, records[h], h), f)

MovesBack ==
  /\ moved' = IF cutOffs = 0 THEN moved ELSE moved \cup {"back"}
  /\ tried' = NoBlock
  /\ UNCHANGED <<block, updater, cutOffs, cutAt>>

(* Bug: the change records stay.                                           *)
Bug_HandleReorg(f) ==
  /\ block = NoBlock
  /\ f < Top /\ Top - f <= MaxDepth - 2 /\ Top - f <= MaxRollback
  /\ \A h \in (f + 1)..Top : Undoable(tables, records[h])
  /\ tables' = Undone(f)
  /\ headers' = Except(headers, (f + 1)..Top)
  /\ UNCHANGED records
  /\ MovesBack

(***************************************************************************)
(* The rollback as a step.  It traps, and so changes nothing, if it does   *)
(* not find an entry.                                                      *)
(***************************************************************************)
HandleReorg(f) ==
  /\ block = NoBlock
  /\ f < Top /\ Top - f <= MaxDepth - 2 /\ Top - f <= MaxRollback
  /\ \A h \in (f + 1)..Top : Undoable(tables, records[h])
  /\ tables' = Undone(f)
  /\ records' = Except(records, (f + 1)..Top)
  /\ headers' = Except(headers, (f + 1)..Top)
  /\ MovesBack

-----------------------------------------------------------------------------
Init ==
  /\ tables = NoTables
  /\ records = EmptyMap /\ headers = EmptyMap
  /\ block = NoBlock /\ updater = NoUpdater /\ cutOffs = 0
  /\ tried = NoBlock /\ cutAt = 0 /\ moved = {}

Next ==
  \/ \E b \in Block : IndexRune(b)
  \/ Answered
  \/ CutOff
  \/ \E f \in DOMAIN headers : HandleReorg(f)

Spec == Init /\ [][Next]_vars

-----------------------------------------------------------------------------
(* Properties.                                                             *)

Outpoint == Tx \X Nat
RuneId == Nat \X Nat

TypeOK ==
  /\ DOMAIN tables = DOMAIN NoTables
  /\ DOMAIN tables.balances \subseteq Outpoint
  /\ DOMAIN tables.heights \subseteq Outpoint
  /\ \A o \in DOMAIN tables.balances :
       /\ DOMAIN tables.balances[o] \subseteq RuneId
       /\ \A id \in DOMAIN tables.balances[o] : tables.balances[o][id] \in Nat \ {0}
  /\ DOMAIN tables.entries \subseteq RuneId
  /\ DOMAIN tables.etchings \subseteq Tx
  /\ DOMAIN headers \subseteq Nat /\ DOMAIN records = DOMAIN headers
  /\ block = NoBlock \/ block \in Block
  /\ tried = NoBlock \/ tried \in Block
  /\ block # NoBlock => updater.at \in 1..Len(Txs[block])
  /\ cutOffs \in 0..MaxCutOffs /\ cutAt \in Nat /\ moved \subseteq {"tip", "back"}

(***************************************************************************)
(* The tables a chain gives when each of its blocks is indexed in one go   *)
(* and nothing is rolled back.                                             *)
(***************************************************************************)
Indexed == IF Latest = NoBlock THEN <<>> ELSE ChainTo[Latest]

IndexWhole(t, h, b) ==
  LET Answer(s, i) == IF s.at = 0 THEN s ELSE Continue(s, Txs[b])
  IN Updated(FoldLeftDomain(Answer, IndexTxs(Started(t, h), Txs[b], 0), Txs[b])).t

Replayed(chain) ==
  FoldLeftDomain(LAMBDA t, i : IndexWhole(t, FirstHeight + i - 1, chain[i]), NoTables, chain)

InWindow(m, heights) == [h \in DOMAIN m \cap heights |-> m[h]]

Expected(chain, heights) ==
  LET t == Replayed(chain)
  IN [t EXCEPT !.runes = InWindow(@, heights), !.reserved = InWindow(@, heights)]

(* Between two cycles, if no attempt was cut off.                          *)
Clean == block = NoBlock /\ cutOffs = 0

(***************************************************************************)
(* After every cycle the tables are those of the indexed chain, as if the  *)
(* blocks rolled back had never been: balances, entries with their counts, *)
(* the name index and the statistics (handle_reorg undoes exactly what     *)
(* index_rune and update did).                                             *)
(***************************************************************************)
TablesMatchChain ==
  Clean => tables = Expected(Indexed, DOMAIN headers)

Held(id) ==
  FoldSet(LAMBDA o, n : n + At(tables.balances[o], id), 0, DOMAIN tables.balances)

(***************************************************************************)
(* Every unit of a rune that was premined or minted is held by an output   *)
(* or burned (edicts, pointer, cenotaphs and OP_RETURN in index_runes).  A *)
(* block that is indexed again after it was cut off may lose units, since  *)
(* index_block leaves what the first attempt wrote, but as long as it is   *)
(* the same block and nothing is rolled back it creates none out of        *)
(* nothing.  Without these two conditions it does: another block may have  *)
(* another rune at the same place, whose entry replaces the first one's    *)
(* while outputs keep the first one's balances under the same id.          *)
(***************************************************************************)
SupplyConserved ==
  block = NoBlock /\ moved = {} =>
    \A id \in DOMAIN tables.entries :
      LET found == Held(id) + tables.entries[id].burned
          supply == Supply(tables.entries[id])
      IN found <= supply /\ (Clean => found = supply)

(***************************************************************************)
(* Every change record can be undone: handle_reorg unwraps the entry of    *)
(* each rune that was minted or burned at a height of the window, and      *)
(* trapping there would end the index thread for good.  This is so until   *)
(* blocks are rolled back after an attempt was cut off.                    *)
(***************************************************************************)
RollbackNeverTraps ==
  "back" \notin moved => \A h \in DOMAIN records : Undoable(tables, records[h])

Before(i, j) == i[1] < j[1] \/ (i[1] = j[1] /\ i[2] < j[2])

(***************************************************************************)
(* Runes are numbered from 0 in the order of their etchings without a gap, *)
(* also after reorganisations (the row of HEIGHT_TO_STATISTIC_RUNES with   *)
(* the highest height is taken for the count).  Attempts that were cut off *)
(* leave gaps, also if another block follows, but no two runes share a     *)
(* number until blocks are rolled back after such an attempt.              *)
(***************************************************************************)
NumbersDense ==
  LET Number(id) == tables.entries[id].number
      ids == DOMAIN tables.entries
  IN
  /\ "back" \notin moved => \A i, j \in ids : i # j => Number(i) # Number(j)
  /\ cutOffs = 0 =>
       /\ {Number(id) : id \in ids} = 0..Cardinality(ids) - 1
       /\ \A i, j \in ids : Before(i, j) => Number(i) < Number(j)

(***************************************************************************)
(* The tables by name, by id and by transaction are about the same runes   *)
(* (create_rune_entry writes three of them and handle_reorg clears them),  *)
(* also in the middle of a block and after attempts that were cut off, if  *)
(* the same block comes again and nothing is rolled back.                  *)
(***************************************************************************)
IndexesAgree ==
  moved = {} =>
    /\ \A r \in DOMAIN tables.ids :
         /\ tables.ids[r] \in DOMAIN tables.entries
         /\ tables.entries[tables.ids[r]].rune = r
    /\ \A id \in DOMAIN tables.entries :
         LET e == tables.entries[id] IN
         /\ e.rune \in DOMAIN tables.ids /\ tables.ids[e.rune] = id
         /\ e.tx \in DOMAIN tables.etchings /\ tables.etchings[e.tx] = e.rune

Spent(chain) ==
  UNION {UNION {Inputs[Txs[chain[i]][j]] : j \in DOMAIN Txs[chain[i]]} : i \in DOMAIN chain}

(***************************************************************************)
(* Runes are held by outputs of the indexed chain that it does not spend,  *)
(* each known at the height of its block (get_rune_balances_for_outputs    *)
(* counts confirmations from it).                                          *)
(***************************************************************************)
BalancesAreUnspent ==
  Clean =>
    /\ DOMAIN tables.balances = DOMAIN tables.heights
    /\ DOMAIN tables.balances \cap Spent(Indexed) = {}
    /\ \A o \in DOMAIN tables.heights :
         LET i == tables.heights[o] - FirstHeight + 1 IN
         i \in DOMAIN Indexed /\ o[1] \in ToSet(Txs[Indexed[i]])

(***************************************************************************)
(* get_etching, get_rune and get_rune_by_id compute                        *)
(* cur_height - entry.block + 1 in u32, so an entry must not be two blocks *)
(* ahead of the latest header.  A query between two awaits may find one of *)
(* the next block.  Further up, where the subtraction wraps to nearly      *)
(* 2^32, are only entries that an attempt left which was cut off before    *)
(* blocks were rolled back: a rollback removes all others, and the wrong   *)
(* answers end when the chain is back at the height of the attempt.        *)
(***************************************************************************)
Confirmable ==
  \A id \in DOMAIN tables.entries :
    \/ tables.entries[id].block <= NextHeight
    \/ "back" \in moved /\ tables.entries[id].block <= cutAt

-----------------------------------------------------------------------------
(* What the repository says and the code does not do.                      *)

(***************************************************************************)
(* reorg.rs:128-132 logs "successfully rolled back state to height         *)
(* {height - depth}": after a rollback to height f the rune tables are     *)
(* those of the chain up to f.                                             *)
(***************************************************************************)
RollbackRestoresTables ==
  [][\A f \in DOMAIN headers : HandleReorg(f) =>
       tables' = Expected(ChainTo[headers[f]], DOMAIN headers')]_vars
=============================================================================
