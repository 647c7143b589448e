----------------------------- MODULE RuneTables -----------------------------
(***************************************************************************)
(* The rune tables in stable memory and what indexing a transaction, a     *)
(* block and a rollback do to them: src/indexer/src/index/updater/         *)
(* rune_updater.rs, the rune part of index/reorg.rs and RuneEntry of       *)
(* index/entry.rs, as operators on values.  RuneLedger.tla is the machine  *)
(* that applies them.                                                      *)
(*                                                                         *)
(* An optional value is a set of at most one element.  A balance map is a  *)
(* function from the rune ids it has to amounts.  A named rune is          *)
(* <<0, k>>; Rune::reserved(h, i) is <<h, i>>, and heights start at 1.     *)
(***************************************************************************)
EXTENDS Integers, Sequences, FiniteSets, SequencesExt, Maps

CONSTANTS
  Inputs,     \* Inputs[tx]: the outpoints tx spends, each <<tx, vout>>
  Outputs,    \* Outputs[tx]: for each output "pay" or "op_return"
  Artifact,   \* Artifact[tx]: Runestone::decipher(tx)
  Etchable,   \* transactions whose rune name is long enough and not reserved
  Commitment, \* Commitment[tx]: "none" in its witness, or the node's "yes", "no"
  MaxDepth    \* MAX_RECOVERABLE_REORG_DEPTH

(* mem_statistic_runes and mem_statistic_reserved_runes: the highest row.  *)
LastRow(m) == IF DOMAIN m = {} THEN 0 ELSE m[Max(DOMAIN m)]

(* The value 0 of RuneId: in an edict, the rune this transaction etches.   *)
ThisRune == <<0, 0>>

NoTables ==
  [balances |-> EmptyMap,   \* OUTPOINT_TO_RUNE_BALANCES
   heights  |-> EmptyMap,   \* OUTPOINT_TO_HEIGHT
   entries  |-> EmptyMap,   \* RUNE_ID_TO_RUNE_ENTRY
   ids      |-> EmptyMap,   \* RUNE_TO_RUNE_ID
   etchings |-> EmptyMap,   \* TRANSACTION_ID_TO_RUNE
   runes    |-> EmptyMap,   \* HEIGHT_TO_STATISTIC_RUNES
   reserved |-> EmptyMap]   \* HEIGHT_TO_STATISTIC_RESERVED_RUNES

NoRecord ==
  [removed |-> EmptyMap,    \* outpoint -> its balances and height
   added   |-> {},          \* outpoints
   burned  |-> EmptyMap,    \* rune id -> burned before the block
   mints   |-> EmptyMap,    \* rune id -> mints before the block
   etched  |-> {}]          \* <<rune, id, tx>>

(***************************************************************************)
(* The rune tables and the RuneUpdater of a block at height h that is      *)
(* being indexed.  "at" is the transaction a lookup of its commitment is   *)
(* under way for, 0 if none is, and "left" its unallocated runes.          *)
(***************************************************************************)
Started(tables, h) ==
  [t |-> [tables EXCEPT !.runes = Put(@, h, LastRow(@)),
                        !.reserved = Put(@, h, LastRow(@))],
   height |-> h, runes |-> LastRow(tables.runes), burned |-> EmptyMap,
   record |-> NoRecord, at |-> 0, left |-> EmptyMap]

-----------------------------------------------------------------------------
(* RuneEntry.                                                              *)

(***************************************************************************)
(* start() is the largest of Starts, end() the least of Ends.              *)
(***************************************************************************)
Starts(e, terms) == {e.block + n : n \in terms.offset.from} \cup terms.height.from
Ends(e, terms) == {e.block + n : n \in terms.offset.to} \cup terms.height.to

Mintable(e, h) ==
  \E terms \in e.terms :
    /\ \A n \in Starts(e, terms) : h >= n
    /\ \A n \in Ends(e, terms) : h < n
    /\ e.mints < terms.cap

(* What one mint is worth; no terms, no amount.                            *)
MintAmount(e) == IF e.terms = {} THEN 0 ELSE (CHOOSE terms \in e.terms : TRUE).amount

Supply(e) == e.premine + e.mints * MintAmount(e)

-----------------------------------------------------------------------------
(* Edicts: how the runes left over are given to the outputs.               *)

(* Bug: nothing is allocated, but the output gets an entry.                *)
Bug_Allocate(a, id, n, vout) ==
  [left |-> [a.left EXCEPT ![id] = @ - n],
   out  |-> [a.out EXCEPT ![vout] = Plus(@, id, n)]]

(***************************************************************************)
(* The closure "allocate": a is the unallocated runes and, per output,     *)
(* the allocated ones.                                                     *)
(***************************************************************************)
Allocate(a, id, n, vout) ==
  IF n = 0 THEN a
  ELSE [left |-> [a.left EXCEPT ![id] = @ - n],
        out  |-> [a.out EXCEPT ![vout] = Plus(@, id, n)]]

Pays(tx) == {v \in 0..Len(Outputs[tx]) - 1 : Outputs[tx][v + 1] = "pay"}

Destinations(tx) == SetToSortSeq(Pays(tx), <)

(***************************************************************************)
(* An edict to all destinations: an equal share each and the remainder to  *)
(* the first ones, or the amount to each until there is no more.           *)
(***************************************************************************)
AllocateToAll(a, id, amount, ds) ==
  LET balance == a.left[id]
      Equal(b, j) == Allocate(b, id, (balance \div Len(ds))
                                     + (IF j <= balance % Len(ds) THEN 1 ELSE 0), ds[j])
      Amount(b, j) == Allocate(b, id, Min({amount, b.left[id]}), ds[j])
  IN IF ds = <<>> THEN a
     ELSE IF amount = 0 THEN FoldLeftDomain(Equal, a, ds)
     ELSE FoldLeftDomain(Amount, a, ds)

(***************************************************************************)
(* One edict.  It is void if its rune is not among the unallocated ones,   *)
(* or is "this rune" and none was etched.                                  *)
(***************************************************************************)
ApplyEdict(a, e, etched, tx) ==
  LET ids == (IF e.id = ThisRune THEN etched ELSE {e.id}) \cap DOMAIN a.left
      id == CHOOSE i \in ids : TRUE
  IN IF ids = {} THEN a
     ELSE IF e.output = Len(Outputs[tx])
          THEN AllocateToAll(a, id, e.amount, Destinations(tx))
     ELSE Allocate(a, id, IF e.amount = 0 THEN a.left[id] ELSE Min({e.amount, a.left[id]}),
                   e.output)

(***************************************************************************)
(* All edicts of a runestone, from the unallocated runes.                  *)
(***************************************************************************)
ApplyEdicts(left, edicts, etched, tx) ==
  FoldLeft(LAMBDA a, e : ApplyEdict(a, e, etched, tx),
           [left |-> left, out |-> [v \in 0..Len(Outputs[tx]) - 1 |-> EmptyMap]],
           edicts)

-----------------------------------------------------------------------------
(* index_runes, up to the lookup of the commitment.                        *)

(* The runes of some outputs together.                                     *)
Gathered(balances, spent) ==
  FoldSet(LAMBDA o, m : [k \in DOMAIN m \cup DOMAIN balances[o] |->
                           At(m, k) + At(balances[o], k)],
          EmptyMap, spent)

(* Bug: the spent outputs are read and recorded, not removed.              *)
Bug_Unallocated(s, tx) ==
  LET spent == Inputs[tx] \cap DOMAIN s.t.balances
  IN [s EXCEPT
       !.left = Gathered(s.t.balances, spent),
       !.record.removed = Override(@, [o \in spent |->
          [balances |-> s.t.balances[o], height |-> s.t.heights[o]]])]

(***************************************************************************)
(* unallocated(): take the balances of the outputs spent out of the tables *)
(* and into the change record.                                             *)
(***************************************************************************)
Unallocated(s, tx) ==
  LET spent == Inputs[tx] \cap DOMAIN s.t.balances
  IN [s EXCEPT
       !.left = Gathered(s.t.balances, spent),
       !.t.balances = Except(@, spent),
       !.t.heights = Except(@, spent),
       !.record.removed = Override(@, [o \in spent |->
          [balances |-> s.t.balances[o], height |-> s.t.heights[o]]])]

(* The rune that tx mints, if it is there and its terms allow it.          *)
Minted(entries, h, tx) ==
  {id \in Artifact[tx].mint \cap DOMAIN entries : Mintable(entries[id], h)}

(***************************************************************************)
(* mint(): count the mint in the entry, and have its amount to allocate.   *)
(***************************************************************************)
MintRune(s, tx) ==
  LET ids == Minted(s.t.entries, s.height, tx)
      id == CHOOSE i \in ids : TRUE
  IN IF ids = {} THEN s
     ELSE [s EXCEPT !.left = Plus(@, id, MintAmount(s.t.entries[id])),
                    !.t.entries[id].mints = @ + 1,
                    !.record.mints = PutNew(@, id, s.t.entries[id].mints)]

(***************************************************************************)
(* etched(): a named rune needs a valid name that is free, and its         *)
(* commitment; a rune without a name gets a reserved one.                  *)
(***************************************************************************)
Names(tx) == UNION {e.name : e \in Artifact[tx].etching}

NameIsFree(s, tx) == tx \in Etchable /\ Names(tx) \cap DOMAIN s.t.ids = {}

NeedsLookup(s, tx) == Names(tx) # {} /\ NameIsFree(s, tx) /\ Commitment[tx] # "none"

(* A runestone's etching without a name takes the next reserved one.       *)
IsReserved(tx) == Artifact[tx].etching # {} /\ Names(tx) = {}

Reserve(s) == [s EXCEPT !.t.reserved = Put(@, s.height, LastRow(@) + 1)]

-----------------------------------------------------------------------------
(* index_runes, from there on.                                             *)

(***************************************************************************)
(* create_rune_entry: the number is the count of runes so far.  A cenotaph *)
(* etches a rune without premine and terms.                                *)
(***************************************************************************)
CreateRuneEntry(s, tx, id, rune) ==
  LET etching == CHOOSE e \in Artifact[tx].etching : TRUE
      plain == Artifact[tx].kind = "cenotaph"
      entry == [block |-> s.height, tx |-> tx, rune |-> rune, number |-> s.runes,
                burned |-> 0, mints |-> 0,
                premine |-> IF plain THEN 0 ELSE etching.premine,
                terms |-> IF plain THEN {} ELSE etching.terms]
  IN [s EXCEPT
       !.t.ids = Put(@, rune, id),
       !.t.etchings = Put(@, tx, rune),
       !.t.runes = Put(@, s.height, s.runes + 1),
       !.t.entries = Put(@, id, entry),
       !.runes = @ + 1,
       !.record.etched = @ \cup {<<rune, id, tx>>}]

(***************************************************************************)
(* What is not allocated by edicts goes to the runestone's pointer or else *)
(* to the first destination; it is burned if there is none, or if the      *)
(* artifact is a cenotaph.                                                 *)
(***************************************************************************)
DefaultOutput(tx) ==
  IF Artifact[tx].kind = "cenotaph" THEN {}
  ELSE IF Artifact[tx].pointer # {} THEN Artifact[tx].pointer
  ELSE IF Pays(tx) = {} THEN {} ELSE {Min(Pays(tx))}

AllocateRest(a, tx) ==
  FoldSet(LAMBDA id, b : FoldSet(LAMBDA v, c : Allocate(c, id, c.left[id], v),
                                 b, DefaultOutput(tx)),
          a, DOMAIN a.left)

(***************************************************************************)
(* The premine is there to allocate, then come the edicts, then the rest.  *)
(***************************************************************************)
Allocation(unallocated, id, tx, rune) ==
  LET stone == Artifact[tx].kind = "runestone"
      etched == IF rune = {} THEN {} ELSE {id}
      left == IF stone /\ rune # {}
              THEN Plus(unallocated, id, (CHOOSE e \in Artifact[tx].etching : TRUE).premine)
              ELSE unallocated
  IN AllocateRest(ApplyEdicts(left, IF stone THEN Artifact[tx].edicts ELSE <<>>,
                              etched, tx), tx)

(***************************************************************************)
(* What was allocated to an OP_RETURN output, or to none, is burned; the   *)
(* other outputs get their balances.                                       *)
(***************************************************************************)
Burnt(burned, a, tx) ==
  LET Kept(id, m) == Plus(m, id, a.left[id])
      Output(v, m) == FoldSet(LAMBDA id, n : Plus(n, id, a.out[v][id]), m, DOMAIN a.out[v])
      kept == {id \in DOMAIN a.left : a.left[id] > 0 \/ Artifact[tx].kind = "cenotaph"}
  IN FoldSet(Output, FoldSet(Kept, burned, kept), DOMAIN a.out \ Pays(tx))

Settle(s, a, tx) ==
  LET new == {<<tx, v>> : v \in {w \in Pays(tx) : DOMAIN a.out[w] # {}}}
  IN [s EXCEPT
       !.t.balances = Override(@, [o \in new |-> a.out[o[2]]]),
       !.t.heights = Override(@, [o \in new |-> s.height]),
       !.record.added = @ \cup new,
       !.burned = Burnt(@, a, tx),
       !.at = 0, !.left = EmptyMap]

(***************************************************************************)
(* The rest of index_runes: rune is the name etched, if any.               *)
(***************************************************************************)
FinishTx(s, i, tx, rune) ==
  LET id == <<s.height, i>>
  IN Settle(IF rune = {} THEN s
            ELSE CreateRuneEntry(s, tx, id, CHOOSE r \in rune : TRUE),
            Allocation(s.left, id, tx, rune), tx)

(***************************************************************************)
(* index_runes for the i-th transaction of a block, from 0: it runs to its *)
(* end, or is suspended at the lookup.                                     *)
(***************************************************************************)
AfterMint(s, i, tx) ==
  IF NeedsLookup(s, tx) THEN [s EXCEPT !.at = i + 1]
  ELSE FinishTx(IF IsReserved(tx) THEN Reserve(s) ELSE s, i, tx,
                IF IsReserved(tx) THEN {<<s.height, i>>} ELSE {})

IndexTx(s, i, tx) == AfterMint(MintRune(Unallocated(s, tx), tx), i, tx)

(***************************************************************************)
(* The transactions of a block from the i-th on, up to the next lookup.    *)
(***************************************************************************)
IndexTxs(s0, txs, i) ==
  FoldLeftDomain(LAMBDA s, j : IF j <= i \/ s.at # 0 THEN s ELSE IndexTx(s, j - 1, txs[j]),
                 s0, txs)

(***************************************************************************)
(* A lookup is answered: finish its transaction and go on.                 *)
(***************************************************************************)
Continue(s, txs) ==
  LET tx == txs[s.at]
      rune == IF Commitment[tx] = "yes" THEN Names(tx) ELSE {}
  IN IndexTxs(FinishTx(s, s.at - 1, tx, rune), txs, s.at)

(***************************************************************************)
(* RuneUpdater::update: burned amounts go into the entries, and the change *)
(* record is complete.  It unwraps the entries of all burned runes.        *)
(***************************************************************************)
Burnable(s) == DOMAIN s.burned \subseteq DOMAIN s.t.entries

Updated(s) ==
  [s EXCEPT
    !.t.entries = [id \in DOMAIN @ |->
                     IF id \in DOMAIN s.burned
                     THEN [s.t.entries[id] EXCEPT !.burned = @ + s.burned[id]]
                     ELSE s.t.entries[id]],
    !.record.burned = [id \in DOMAIN s.burned |-> s.t.entries[id].burned]]

-----------------------------------------------------------------------------
(* Rollback and pruning.                                                   *)

(***************************************************************************)
(* The part of handle_reorg for one height and its change record: spent    *)
(* outputs come back before created ones go, counts are reset, and then    *)
(* the runes etched there are removed.                                     *)
(***************************************************************************)
Undo(t, record, h) ==
  LET restored == Override(t.balances, [o \in DOMAIN record.removed |->
                                          record.removed[o].balances])
      heights == Override(t.heights, [o \in DOMAIN record.removed |->
                                        record.removed[o].height])
      reset == [id \in DOMAIN t.entries |->
                 [t.entries[id] EXCEPT
                   !.burned = IF id \in DOMAIN record.burned THEN record.burned[id] ELSE @,
                   !.mints = IF id \in DOMAIN record.mints THEN record.mints[id] ELSE @]]
  IN [balances |-> Except(restored, record.added),
      heights  |-> Except(heights, record.added),
      entries  |-> Except(reset, {e[2] : e \in record.etched}),
      ids      |-> Except(t.ids, {e[1] : e \in record.etched}),
      etchings |-> Except(t.etchings, {e[3] : e \in record.etched}),
      runes    |-> Except(t.runes, {h}),
      reserved |-> Except(t.reserved, {h})]

(***************************************************************************)
(* handle_reorg finds the entries it unwraps.  Those it has removed by     *)
(* then were etched further up than the runes a record mentions.           *)
(***************************************************************************)
Undoable(t, record) == DOMAIN record.burned \cup DOMAIN record.mints \subseteq DOMAIN t.entries

(***************************************************************************)
(* prune_change_record(h).                                                 *)
(***************************************************************************)
Pruned(m, h) == [k \in {j \in DOMAIN m : j > h - MaxDepth} |-> m[k]]

PrunedTables(t, h) ==
  [t EXCEPT !.runes = Pruned(@, h), !.reserved = Pruned(@, h)]
=============================================================================
