------------------------- MODULE InscriptionTables --------------------------
(***************************************************************************)
(* The UTXO, sat, address and inscription tables in stable memory and what *)
(* indexing a block does to them: index_utxo_entries, index_transaction_   *)
(* sats and commit of src/indexer/src/index/updater.rs and                 *)
(* updater/inscription_updater.rs, as operators on values.                 *)
(* InscriptionLedger.tla is the machine that applies them.                 *)
(*                                                                         *)
(* With sats or addresses indexed every input has an entry (a full UTXO    *)
(* index).  Otherwise the blocks below the first inscription height are    *)
(* not indexed, and an input that has no entry is fetched from the node:   *)
(* the only await.  What is in stable memory by then stays there.          *)
(*                                                                         *)
(* Sat ranges are flattened to the sequence of their sats, so the value of *)
(* an output is the length of that sequence.  An optional value is a set   *)
(* of at most one element.  A script is one of a few names.                *)
(***************************************************************************)
EXTENDS Inscription

CONSTANTS
  FirstHeight,    \* Chain::first_inscription_height
  Subsidy,        \* of a block, the same at every height
  JubileeHeight,  \* Chain::jubilee_height
  HomeLimit       \* how many inscriptions the home table keeps: 100

VARIABLE
  index           \* Index: what is indexed besides inscriptions, [sats, addresses]

(* Index::from_config.                                                     *)
FirstIndexHeight == IF index.sats \/ index.addresses THEN 0 ELSE FirstHeight

HaveFullUtxoIndex == FirstIndexHeight = 0

(* What an output is made of when sats are not indexed.                    *)
NoSat == -1

(* Those of the txid that is all zeros; the index -1 stands for u32::MAX.  *)
NullOutPoint == <<[i \in 1..TxidLen |-> 0], -1>>
UnboundOutPoint == <<[i \in 1..TxidLen |-> 0], 0>>
IsSpecial(o) == o \in {NullOutPoint, UnboundOutPoint}

OpReturn == "op_return"

(* What UtxoEntry holds; its byte encoding is left out.                    *)
EmptyEntry == [sats |-> <<>>, script |-> "", inscriptions |-> <<>>]

Merged(a, b) ==
  [a EXCEPT !.sats = @ \o b.sats, !.inscriptions = @ \o b.inscriptions]

NoTables ==
  [utxos      |-> EmptyMap,  \* OUTPOINT_TO_UTXO_ENTRY
   addresses  |-> {},        \* SCRIPT_PUBKEY_TO_OUTPOINTS, as pairs
   sats       |-> EmptyMap,  \* SAT_TO_SATPOINT, a satpoint being <<outpoint, offset>>
   inscribed  |-> {},        \* SAT_TO_SEQUENCE_NUMBERS, as pairs
   entries    |-> EmptyMap,  \* SEQUENCE_NUMBER_TO_INSCRIPTION_ENTRY
   ids        |-> EmptyMap,  \* INSCRIPTION_ID_TO_SEQUENCE_NUMBER
   numbers    |-> EmptyMap,  \* INSCRIPTION_NUMBER_TO_SEQUENCE_NUMBER
   children   |-> {},        \* SEQUENCE_NUMBER_TO_CHILDRENS, as pairs
   satpoints  |-> EmptyMap,  \* SEQUENCE_NUMBER_TO_SATPOINT
   home       |-> {},        \* the keys of HOME_INSCRIPTIONS
   last       |-> EmptyMap,  \* HEIGHT_TO_LAST_SEQUENCE_NUMBER
   counts     |-> EmptyMap]  \* STATISTIC_TO_COUNT

(* Bug: as many as there are ids.                                          *)
Bug_NextSequenceNumber(t) == Cardinality(DOMAIN t.ids)

NextSequenceNumber(t) == IF DOMAIN t.entries = {} THEN 0 ELSE Max(DOMAIN t.entries) + 1

StartingSat(h) == h * Subsidy

(* Not Sat::common: the first sat of a block.                              *)
Rare(sat) == sat % Subsidy = 0

(***************************************************************************)
(* The InscriptionUpdater and the locals of index_utxo_entries, with the   *)
(* tables they work on; how many steps are done (Steps below), the entries *)
(* of the inputs so far and the outpoint that is fetched.                  *)
(***************************************************************************)
Started(t, h) ==
  [t        |-> t,
   height   |-> h,
   cache    |-> EmptyMap,                        \* utxo_cache
   blessed  |-> At(t.counts, "blessed"),
   cursed   |-> At(t.counts, "cursed"),
   unbound  |-> At(t.counts, "unbound"),
   lost     |-> At(t.counts, "lost"),
   next     |-> NextSequenceNumber(t),
   homes    |-> Cardinality(t.home),             \* home_inscription_count
   reward   |-> Subsidy,
   flotsam  |-> <<>>,
   coinbase |-> IF index.sats                     \* coinbase_inputs
                THEN [i \in 1..Subsidy |-> StartingSat(h) + i - 1] ELSE <<>>,
   leftover |-> <<>>,                            \* lost_sat_ranges
   done     |-> 0,
   ins      |-> <<>>,                            \* input_utxo_entries
   waiting  |-> {}]

-----------------------------------------------------------------------------
(* Transactions: [id, inputs, outputs, witnesses].  An output is a value   *)
(* and a script; the envelopes are read from the witnesses.  The coinbase  *)
(* has no inputs.                                                          *)

IsCoinbase(tx) == tx.inputs = <<>>

(* The value of the first n outputs.                                       *)
ValueOf(tx, n) == FoldLeft(LAMBDA sum, out : sum + out.value, 0, SubSeq(tx.outputs, 1, n))

TotalOutput(tx) == ValueOf(tx, Len(tx.outputs))

-----------------------------------------------------------------------------
(* The inputs of a transaction.                                            *)

(* Bug: the addresses keep the outputs that are spent.                     *)
Bug_InputTaken(u, o) ==
  IF o \in DOMAIN u.cache
  THEN [u EXCEPT !.ins = Append(@, u.cache[o]), !.cache = Except(@, {o})]
  ELSE [u EXCEPT !.ins = Append(@, u.t.utxos[o]), !.t.utxos = Except(@, {o})]

(* From the cache, or from the UTXO table and the address table.           *)
InputTaken(u, o) ==
  IF o \in DOMAIN u.cache
  THEN [u EXCEPT !.ins = Append(@, u.cache[o]), !.cache = Except(@, {o})]
  ELSE [u EXCEPT !.ins = Append(@, u.t.utxos[o]), !.t.utxos = Except(@, {o}),
                 !.t.addresses = @ \ {<<u.t.utxos[o].script, o>>}]

NewStep(u) == [u EXCEPT !.done = @ + 1]

(* If it is in neither the call waits for the node.                        *)
WithInput(u, o) ==
  IF o \in DOMAIN u.cache \cup DOMAIN u.t.utxos THEN NewStep(InputTaken(u, o))
  ELSE [u EXCEPT !.waiting = {o}]

(* The node's answer: the value only, since addresses are not indexed.     *)
WithFetched(u, out) ==
  NewStep([u EXCEPT !.ins = Append(@, [EmptyEntry EXCEPT !.sats = [i \in 1..out.value |-> NoSat]]),
                    !.waiting = {}])

-----------------------------------------------------------------------------
(* index_transaction_sats.                                                 *)

(* Bug: what the outputs get is taken from the end.                        *)
Bug_OutputSats(tx, sats, v) ==
  IF index.sats
  THEN SubSeq(Reverse(sats), ValueOf(tx, v - 1) + 1, ValueOf(tx, v))
  ELSE [i \in 1..tx.outputs[v].value |-> NoSat]

(* First in, first out.                                                    *)
OutputSats(tx, sats, v) ==
  IF index.sats
  THEN SubSeq(sats, ValueOf(tx, v - 1) + 1, ValueOf(tx, v))
  ELSE [i \in 1..tx.outputs[v].value |-> NoSat]

OutPointOf(tx, v) == <<tx.id, v - 1>>

OutputEntry(tx, sats, v) ==
  [sats |-> OutputSats(tx, sats, v), script |-> IF index.addresses THEN tx.outputs[v].script ELSE "",
   inscriptions |-> <<>>]

(* Where the rare sats among those of an outpoint are, the first at "from". *)
RareSats(sats, o, from) ==
  LET rare == {i \in DOMAIN sats : sats[i] # NoSat /\ Rare(sats[i])} IN
  [s \in {sats[i] : i \in rare} |->
     <<o, from + (CHOOSE i \in rare : sats[i] = s) - 1>>]

(* A new output goes into the cache and its rare sats are recorded.        *)
AddOutput(u, tx, sats, v) ==
  LET entry == OutputEntry(tx, sats, v)
      o == OutPointOf(tx, v)
  IN
  [u EXCEPT !.cache = Put(@, o, entry),
            !.t.sats = Override(@, RareSats(entry.sats, o, 0))]

(***************************************************************************)
(* The outputs, and what they leave: fees go to the coinbase, and what the *)
(* coinbase leaves is lost.                                                *)
(***************************************************************************)
Created(u, tx, sats) ==
  LET added == FoldLeft(LAMBDA acc, v : AddOutput(acc, tx, sats, v), u,
                        [v \in 1..Len(tx.outputs) |-> v])
      rest == SubSeq(sats, TotalOutput(tx) + 1, Len(sats))
  IN
  CASE ~ index.sats -> added
    [] index.sats /\ IsCoinbase(tx) -> [added EXCEPT !.leftover = @ \o rest]
    [] index.sats /\ ~ IsCoinbase(tx) -> [added EXCEPT !.coinbase = @ \o rest]

-----------------------------------------------------------------------------
(* index_inscriptions.                                                     *)

(* Sequence number and offset of the inscriptions on an input, oldest first. *)
Transferred(entry) == SortSeq(entry.inscriptions, LAMBDA a, b : a[1] < b[1])

(* The value of the inputs before the i-th.                                *)
InputBase(ins, i) == FoldLeft(LAMBDA sum, e : sum + Len(e.sats), 0, SubSeq(ins, 1, i - 1))

OldOnes(t, ins, i) ==
  LET found == Transferred(ins[i]) IN
  [k \in DOMAIN found |->
     [offset |-> InputBase(ins, i) + found[k][2],
      id |-> t.entries[found[k][1]].id, seq |-> {found[k][1]}, envelope |-> 0]]

(* The pointer of an envelope, if it points into the outputs.              *)
NewOffset(e, base, total) ==
  LET inside == {p \in PointerOf(e.payload) : p < total} IN
  IF inside = {} THEN base ELSE CHOOSE p \in inside : TRUE

EnvelopesIn(es, i) ==
  SelectSeq([k \in DOMAIN es |-> k], LAMBDA k : es[k].input = i - 1)

(* Bug: inscriptions are counted per input.                                *)
Bug_NewOnes(ins, tx, es, i) ==
  LET found == EnvelopesIn(es, i) IN
  [j \in DOMAIN found |->
     [offset |-> NewOffset(es[found[j]], InputBase(ins, i), TotalOutput(tx)),
      id |-> [txid |-> tx.id, index |-> j - 1], seq |-> {}, envelope |-> found[j]]]

NewOnes(ins, tx, es, i) ==
  LET found == EnvelopesIn(es, i) IN
  [j \in DOMAIN found |->
     [offset |-> NewOffset(es[found[j]], InputBase(ins, i), TotalOutput(tx)),
      id |-> [txid |-> tx.id, index |-> found[j] - 1], seq |-> {}, envelope |-> found[j]]]

(***************************************************************************)
(* The inscriptions a transaction moves and makes, in the order in which   *)
(* the code comes upon them.                                               *)
(***************************************************************************)
Floating(t, ins, tx, es) ==
  FlattenSeq([i \in DOMAIN ins |-> OldOnes(t, ins, i) \o NewOnes(ins, tx, es, i)])

(* inscribed_offsets when the k-th is looked at.                           *)
InscribedBefore(all, k, offset) == {j \in 1..k - 1 : all[j].offset = offset}

CursedOrVindicated(entry) == entry.number < 0 \/ "vindicated" \in entry.charms

(* The sat is inscribed: a curse unless by one inscription, itself cursed. *)
Reinscribes(t, all, k, base) ==
  LET before == InscribedBefore(all, k, base) IN
  /\ before # {}
  /\ \/ Cardinality(before) > 1
     \/ ~ CursedOrVindicated(t.entries[t.ids[all[Min(before)].id]])

IsCursed(t, all, k, e, base) ==
  \/ e.payload.unrecognized_even_field
  \/ e.payload.duplicate_field \/ e.payload.incomplete_field
  \/ e.input # 0 \/ e.offset # 0
  \/ e.payload.pointer # {} \/ e.pushnum \/ e.stutter
  \/ Reinscribes(t, all, k, base)

(* The flotsam of an old inscription, and of a new one.                    *)
OldFlotsam(f) == [offset |-> f.offset, id |-> f.id, seq |-> f.seq]

NewFlotsam(t, h, ins, es, all, k) ==
  LET f == all[k]
      e == es[f.envelope]
      curse == IsCursed(t, all, k, e, InputBase(ins, e.input + 1))
  IN
  [offset |-> f.offset, id |-> f.id, seq |-> {},
   cursed |-> curse /\ h < JubileeHeight,
   vindicated |-> curse /\ h >= JubileeHeight,
   unbound |-> Len(ins[e.input + 1].sats) = 0 \/ e.payload.unrecognized_even_field,
   reinscription |-> InscribedBefore(all, k, f.offset) # {},
   hidden |-> Hidden(e.payload),
   parents |-> ToSet(ParentsOf(e.payload)) \cap {all[j].id : j \in DOMAIN all}]

Flotsam(t, h, ins, es, all) ==
  [k \in DOMAIN all |->
     IF all[k].seq # {} THEN OldFlotsam(all[k]) ELSE NewFlotsam(t, h, ins, es, all, k)]

(* sort_by_key, which is stable: the flotsam in the order of its offsets.  *)
ByOffset(all) ==
  LET before(i, j) == \/ all[i].offset < all[j].offset
                      \/ all[i].offset = all[j].offset /\ i < j
      order == SortSeq([k \in DOMAIN all |-> k], before)
  IN [k \in DOMAIN all |-> all[order[k]]]

-----------------------------------------------------------------------------
(* update_inscription_location.                                            *)

(* calculate_sat: the sat at an offset of what the inputs hold.            *)
SatAt(sats, offset) == IF index.sats THEN {sats[offset + 1]} ELSE {}

(* An inscription is written to the entry of an outpoint; those of special *)
(* outpoints are made when first needed.                                   *)
Pushed(u, seq, satpoint) ==
  LET o == satpoint[1]
      entry == IF o \in DOMAIN u.cache THEN u.cache[o] ELSE EmptyEntry
  IN
  [u EXCEPT !.cache = Put(@, o, [entry EXCEPT !.inscriptions =
                                   Append(@, <<seq, satpoint[2]>>)])]

(* Bug: an inscription is not marked when it is burned later.              *)
Bug_Moved(u, f, satpoint, burned) == Pushed(u, CHOOSE seq \in f.seq : TRUE, satpoint)

(* Origin::Old.                                                            *)
Moved(u, f, satpoint, burned) ==
  LET seq == CHOOSE seq \in f.seq : TRUE
      marked == IF burned THEN [u EXCEPT !.t.entries[seq].charms = @ \cup {"burned"}] ELSE u
  IN Pushed(marked, seq, satpoint)

CharmsOf(f, satpoint, burned) ==
  {c \in {"cursed", "reinscription", "burned", "lost", "unbound", "vindicated"} :
     CASE c = "cursed" -> f.cursed
       [] c = "reinscription" -> f.reinscription
       [] c = "burned" -> burned
       [] c = "lost" -> satpoint[1] = NullOutPoint
       [] c = "unbound" -> f.unbound
       [] c = "vindicated" -> f.vindicated}

(* Bug: the table grows by one more before the oldest leaves.              *)
Bug_HomeAdded(u, seq) ==
  IF u.homes > HomeLimit
  THEN [u EXCEPT !.t.home = (@ \cup {seq}) \ {Min(@ \cup {seq})}]
  ELSE [u EXCEPT !.t.home = @ \cup {seq}, !.homes = @ + 1]

(* A visible inscription is shown, instead of the oldest one shown if      *)
(* there are enough.                                                       *)
HomeAdded(u, seq) ==
  IF u.homes = HomeLimit
  THEN [u EXCEPT !.t.home = (@ \cup {seq}) \ {Min(@ \cup {seq})}]
  ELSE [u EXCEPT !.t.home = @ \cup {seq}, !.homes = @ + 1]

(* Origin::New.  An unbound inscription goes to an offset of its own.      *)
Made(u, f, sats, satpoint, burned) ==
  LET seq == u.next
      number == IF f.cursed THEN -(u.cursed + 1) ELSE u.blessed
      sat == IF f.unbound THEN {} ELSE SatAt(sats, f.offset)
      parents == {u.t.ids[p] : p \in f.parents}
      entry == [id |-> f.id, number |-> number, height |-> u.height, sat |-> sat,
                parents |-> parents, charms |-> CharmsOf(f, satpoint, burned),
                hidden |-> f.hidden]
      numbered ==
        [u EXCEPT !.next = seq + 1,
                  !.cursed = IF f.cursed THEN @ + 1 ELSE @,
                  !.blessed = IF f.cursed THEN @ ELSE @ + 1,
                  !.unbound = IF f.unbound THEN @ + 1 ELSE @,
                  !.t.numbers = Put(@, number, seq),
                  !.t.inscribed = @ \cup {<<s, seq>> : s \in sat},
                  !.t.children = @ \cup {<<p, seq>> : p \in parents},
                  !.t.entries = Put(@, seq, entry),
                  !.t.ids = Put(@, f.id, seq)]
  IN
  Pushed(IF f.hidden THEN numbered ELSE HomeAdded(numbered, seq), seq,
         IF f.unbound THEN <<UnboundOutPoint, u.unbound>> ELSE satpoint)

Located(u, f, sats, satpoint, burned) ==
  IF f.seq # {} THEN Moved(u, f, satpoint, burned) ELSE Made(u, f, sats, satpoint, burned)

(* The output an offset falls into.                                        *)
OutputAt(tx, offset) ==
  CHOOSE v \in DOMAIN tx.outputs : ValueOf(tx, v - 1) <= offset /\ offset < ValueOf(tx, v)

InOutput(u, f, tx, sats, v) ==
  Located(u, f, sats, <<OutPointOf(tx, v), f.offset - ValueOf(tx, v - 1)>>,
          tx.outputs[v].script = OpReturn)

(* What lies beyond the coinbase's outputs is lost.                        *)
Lost(u, f, tx, sats) ==
  Located(u, f, sats, <<NullOutPoint, u.lost + f.offset - TotalOutput(tx)>>, FALSE)

(* Bug: the subsidy is left out of the offset in the coinbase.             *)
Bug_PaidAsFee(u, f, tx) ==
  [f EXCEPT !.offset = u.reward - Subsidy + f.offset - TotalOutput(tx)]

(* What goes to the fee comes in after what the coinbase has already.      *)
PaidAsFee(u, f, tx) == [f EXCEPT !.offset = u.reward + f.offset - TotalOutput(tx)]

(* All the flotsam in the order of its offsets to where it falls.          *)
Settled(u, tx, sats, flotsam) ==
  LET total == TotalOutput(tx)
      inside == SelectSeq(flotsam, LAMBDA f : f.offset < total)
      beyond == SelectSeq(flotsam, LAMBDA f : f.offset >= total)
      placed == FoldLeft(LAMBDA acc, f : InOutput(acc, f, tx, sats, OutputAt(tx, f.offset)),
                         u, inside)
  IN
  IF IsCoinbase(tx)
  THEN [FoldLeft(LAMBDA acc, f : Lost(acc, f, tx, sats), placed, beyond)
          EXCEPT !.lost = @ + u.reward - total]
  ELSE [placed EXCEPT !.flotsam = @ \o [k \in DOMAIN beyond |-> PaidAsFee(u, beyond[k], tx)],
                      !.reward = @ + Len(sats) - total]

(* index_inscriptions; the coinbase takes the flotsam of all the others.   *)
IndexInscriptions(u, tx, ins, sats) ==
  LET es == FromTransaction(tx.witnesses)
      own == Flotsam(u.t, u.height, ins, es, Floating(u.t, ins, tx, es))
  IN Settled(u, tx, sats, ByOffset(IF IsCoinbase(tx) THEN own \o u.flotsam ELSE own))

(***************************************************************************)
(* A transaction once its inputs are there.  Inscriptions are indexed from *)
(* FirstHeight on.                                                         *)
(***************************************************************************)
IndexTx(u, tx) ==
  LET sats == IF IsCoinbase(tx) THEN u.coinbase
              ELSE FlattenSeq([i \in DOMAIN u.ins |-> u.ins[i].sats])
      created == Created([u EXCEPT !.ins = <<>>], tx, sats)
  IN NewStep(IF u.height < FirstHeight THEN created
             ELSE IndexInscriptions(created, tx, u.ins, sats))

-----------------------------------------------------------------------------
(* index_utxo_entries.                                                     *)

(* Bug: the sats lost in a block replace those lost before.                *)
Bug_Stored(t, cache, o) == cache[o]

(* commit: an entry of a special outpoint is added to what is there.       *)
Stored(t, cache, o) ==
  IF IsSpecial(o) /\ o \in DOMAIN t.utxos THEN Merged(t.utxos[o], cache[o]) ELSE cache[o]

(* Bug: special outpoints are skipped.                                     *)
Bug_SatPointsOf(written) ==
  LET all == UNION {{<<i[1], <<o, i[2]>>>> : i \in ToSet(written[o].inscriptions)} :
                    o \in {o \in DOMAIN written : ~ IsSpecial(o)}}
  IN [seq \in {p[1] : p \in all} |-> (CHOOSE p \in all : p[1] = seq)[2]]

SatPointsOf(written) ==
  LET all == UNION {{<<i[1], <<o, i[2]>>>> : i \in ToSet(written[o].inscriptions)} :
                    o \in DOMAIN written}
  IN [seq \in {p[1] : p \in all} |-> (CHOOSE p \in all : p[1] = seq)[2]]

Committed(t, cache) ==
  LET written == [o \in DOMAIN cache |-> Stored(t, cache, o)] IN
  [t EXCEPT !.utxos = Override(@, written),
            !.addresses = IF index.addresses
                          THEN @ \cup {<<written[o].script, o>> : o \in DOMAIN written} ELSE @,
            !.satpoints = Override(@, SatPointsOf(written))]

(* The lost sats join the null outpoint, and only then are the counts      *)
(* stored.                                                                 *)
WithLostSats(u) ==
  LET lost == At(u.t.counts, "lost")
      entry == IF NullOutPoint \in DOMAIN u.cache THEN u.cache[NullOutPoint] ELSE EmptyEntry
      counts == [lost |-> u.lost, cursed |-> u.cursed, blessed |-> u.blessed,
                 unbound |-> u.unbound]
  IN
  IF u.leftover = <<>> THEN u
  ELSE [u EXCEPT !.cache = Put(@, NullOutPoint, Merged(entry, [EmptyEntry EXCEPT !.sats = u.leftover])),
                 !.t.sats = Override(@, RareSats(u.leftover, NullOutPoint, lost)),
                 !.t.counts = counts]

(* Bug: the last sequence number is stored, not the next one.              *)
Bug_WithLast(u) == [u EXCEPT !.t.last = Put(@, u.height, Max({0, u.next - 1}))]

(* Bug: it is stored at heights without inscriptions, too.                 *)
Bug_AlwaysLast(u) == [u EXCEPT !.t.last = Put(@, u.height, u.next)]

(* Where the inscriptions of the block end.                                *)
WithLast(u) ==
  IF u.height < FirstHeight THEN u ELSE [u EXCEPT !.t.last = Put(@, u.height, u.next)]

Finished(u) ==
  LET counted == WithLostSats(WithLast(u)) IN
  NewStep([counted EXCEPT !.t = Committed(counted.t, counted.cache)])

(* A block: the coinbase is first in it but indexed last.  The steps are   *)
(* the inputs of each transaction, its rest (0), and the end.              *)
InOrder(block) == Append(Tail(block), Head(block))

Steps(block) ==
  LET txs == InOrder(block) IN
  Append(FlattenSeq([k \in DOMAIN txs |->
                       Append([i \in DOMAIN txs[k].inputs |-> <<k, i>>], <<k, 0>>)]),
         <<0, 0>>)

StepDone(u, block, step) ==
  LET tx == InOrder(block)[step[1]] IN
  CASE u.waiting # {} -> u
    [] u.waiting = {} /\ step[1] = 0 -> Finished(u)
    [] u.waiting = {} /\ step[1] # 0 /\ step[2] = 0 -> IndexTx(u, tx)
    [] u.waiting = {} /\ step[1] # 0 /\ step[2] # 0 -> WithInput(u, tx.inputs[step[2]])

(* As far as it goes without an answer of the node.                        *)
Run(u, block) ==
  LET steps == Steps(block) IN
  FoldLeft(LAMBDA acc, step : StepDone(acc, block, step), u,
           SubSeq(steps, u.done + 1, Len(steps)))

RunToEnd(u, block) == u.done = Len(Steps(block))
=============================================================================
