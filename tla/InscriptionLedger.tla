------------------------- MODULE InscriptionLedger --------------------------
(***************************************************************************)
(* The inscription tables as blocks are indexed one after the other.       *)
(*                                                                         *)
(* A block is indexed in one go unless an input has to be fetched from the *)
(* node.  The call may be cut off while it waits, there or afterwards for  *)
(* index_rune (an upgrade, a trap): what is written stays, and the block   *)
(* is indexed again.  A full UTXO index does not survive that              *)
(* (IndexerFullUtxo.cfg), so cut-offs are those of a partial one.          *)
(* Reorganisations are not here: handle_reorg does not touch these tables  *)
(* (IndexerRollback.cfg).                                                  *)
(***************************************************************************)
EXTENDS InscriptionTables

CONSTANTS
  Configs,    \* the values of index
  Menu,       \* Menu[h + 1]: the blocks that may come at height h
  MaxLength,  \* bound on the chain
  MaxCutOffs  \* bound on the calls cut off

(* A transaction's id depends on the scripts that are revealed in it, so   *)
(* none of them can name it.                                               *)
TxType(tx) ==
  /\ tx.inputs \in Seq(Seq(Nat) \X Nat) /\ DOMAIN tx.inputs = DOMAIN tx.witnesses
  /\ \A v \in DOMAIN tx.outputs :
       tx.outputs[v].value \in Nat /\ tx.outputs[v].script \in STRING
  /\ \A k \in DOMAIN FromTransaction(tx.witnesses) :
       \A p \in ToSet(ParentsOf(FromTransaction(tx.witnesses)[k].payload)) : p.txid # tx.id

ASSUME InscriptionAssumption ==
  /\ Configs \subseteq [sats : BOOLEAN, addresses : BOOLEAN]
  /\ Subsidy \in Nat \ {0} /\ HomeLimit \in Nat \ {0}
  /\ {FirstHeight, JubileeHeight, MaxLength, MaxCutOffs} \subseteq Nat
  /\ \A h \in DOMAIN Menu : \A block \in Menu[h] :
       block # <<>> /\ \A i \in DOMAIN block :
         TxType(block[i]) /\ (IsCoinbase(block[i]) <=> i = 1)

VARIABLES
  tables,  \* see NoTables
  chain,   \* the blocks up to the last one indexed
  call,    \* of index_block: NoCall, or the block and what Started has
  cut      \* the blocks whose calls were cut off

vars == <<index, tables, chain, call, cut>>

NoCall == [block |-> <<>>]

Height == Len(chain)

-----------------------------------------------------------------------------
(***************************************************************************)
(* What a valid block is: each transaction spends outputs that are there,  *)
(* not burned, and no more than they hold, and the coinbase pays no more   *)
(* than the subsidy and the fees.  u is the outputs with their values.     *)
(***************************************************************************)
OutputsOf(tx) ==
  [o \in {OutPointOf(tx, v) : v \in DOMAIN tx.outputs} |->
     tx.outputs[o[2] + 1]]

InputValue(u, tx) == FoldLeft(LAMBDA sum, o : sum + u[o].value, 0, tx.inputs)

Spendable(u, tx) ==
  /\ \A i, j \in DOMAIN tx.inputs : tx.inputs[i] = tx.inputs[j] => i = j
  /\ \A o \in ToSet(tx.inputs) : o \in DOMAIN u /\ u[o].script # OpReturn
  /\ TotalOutput(tx) <= InputValue(u, tx)

(* Outputs and fees after the transactions so far, if all are valid.       *)
Apply(s, tx) ==
  IF ~ s.valid \/ ~ Spendable(s.u, tx) THEN [s EXCEPT !.valid = FALSE]
  ELSE [valid |-> TRUE,
        u |-> Override(Except(s.u, ToSet(tx.inputs)), OutputsOf(tx)),
        fees |-> s.fees + InputValue(s.u, tx) - TotalOutput(tx)]

AfterBlock(u, block) ==
  LET s == FoldLeft(Apply, [valid |-> TRUE, u |-> u, fees |-> 0], Tail(block)) IN
  [valid |-> s.valid /\ TotalOutput(Head(block)) <= Subsidy + s.fees,
   u |-> Override(s.u, OutputsOf(Head(block)))]

(* The unspent outputs after the first n blocks of the chain.              *)
UnspentAfter(n) ==
  FoldLeft(LAMBDA u, block : AfterBlock(u, block).u, EmptyMap, SubSeq(chain, 1, n))

Unspent == UnspentAfter(Height)

(* The next block, which is the one cut off if one was.                    *)
IsNextBlock(block) ==
  /\ Height < MaxLength
  /\ AfterBlock(Unspent, block).valid
  /\ \A b \in ToSet(cut) : b \in Menu[Height + 1] => b = block

(* A transaction of the chain or of a block that is or was being indexed.  *)
Transaction(txid) ==
  CHOOSE tx \in UNION {ToSet(b) : b \in ToSet(chain) \cup ToSet(cut) \cup {call.block}} :
    tx.id = txid

OutputOnNode(o) == OutputsOf(Transaction(o[1]))[o]

-----------------------------------------------------------------------------
Runs(u, block) ==
  /\ call' = [block |-> block, u |-> u]
  /\ tables' = u.t

(* index_block, up to the first await.                                     *)
BeginBlock(block) ==
  /\ call = NoCall
  /\ FirstIndexHeight <= Height
  /\ IsNextBlock(block)
  /\ Runs(Run(Started(tables, Height), block), block)
  /\ UNCHANGED <<index, chain, cut>>

(* The loop starts at the first index height.                              *)
SkipBlock(block) ==
  /\ Height < FirstIndexHeight
  /\ IsNextBlock(block)
  /\ chain' = Append(chain, block)
  /\ UNCHANGED <<index, tables, call, cut>>

(* get_raw_transaction_info_forever returns; the assert before it holds.   *)
Fetched ==
  /\ call # NoCall /\ call.u.waiting # {}
  /\ ~ HaveFullUtxoIndex
  /\ \E o \in call.u.waiting :
       Runs(Run(WithFetched(call.u, OutputOnNode(o)), call.block), call.block)
  /\ UNCHANGED <<index, chain, cut>>

(* The header is inserted.                                                 *)
EndBlock ==
  /\ call # NoCall /\ RunToEnd(call.u, call.block)
  /\ chain' = Append(chain, call.block)
  /\ call' = NoCall
  /\ UNCHANGED <<index, tables, cut>>

CutOff ==
  /\ call # NoCall
  /\ ~ HaveFullUtxoIndex
  /\ Len(cut) < MaxCutOffs
  /\ call' = NoCall
  /\ cut' = Append(cut, call.block)
  /\ UNCHANGED <<index, tables, chain>>

Init ==
  /\ index \in Configs
  /\ tables = NoTables
  /\ chain = <<>>
  /\ call = NoCall
  /\ cut = <<>>

Next ==
  \/ Height < Len(Menu) /\ \E block \in Menu[Height + 1] : BeginBlock(block) \/ SkipBlock(block)
  \/ Fetched
  \/ EndBlock
  \/ CutOff

Spec == Init /\ [][Next]_vars

-----------------------------------------------------------------------------
(* Synchronous queries.                                                    *)

(* get_inscriptions_in_block, as sequence numbers.                         *)
InscriptionsIn(h) ==
  IF h \notin DOMAIN tables.last THEN {}
  ELSE At(tables.last, IF h = 0 THEN 0 ELSE h - 1) .. tables.last[h] - 1

(* inscriptions_on_output, as satpoint and sequence number.                *)
OnOutput(o) ==
  IF o \notin DOMAIN tables.utxos THEN <<>>
  ELSE LET found == Transferred(tables.utxos[o]) IN
       [k \in DOMAIN found |-> <<<<o, found[k][2]>>, found[k][1]>>]

-----------------------------------------------------------------------------
(* Properties.                                                             *)

Seqs == DOMAIN tables.entries

(* Between blocks; and no block was indexed twice.                         *)
Idle == call = NoCall
Clean == Idle /\ cut = <<>>

UtxoType ==
  [sats : Seq(-1..MaxLength * Subsidy - 1), script : STRING,
   inscriptions : Seq(Nat \X Nat)]

TypeOK ==
  /\ \A o \in DOMAIN tables.utxos : tables.utxos[o] \in UtxoType
  /\ Seqs = 0..Cardinality(Seqs) - 1
  /\ DOMAIN tables.satpoints \subseteq Seqs
  /\ \A seq \in Seqs : tables.entries[seq].number \in Int
  /\ tables.home \subseteq Seqs
  /\ Idle => DOMAIN tables.last \ {Height} = FirstHeight..Height - 1

(***************************************************************************)
(* The sats lost below the first inscription height.  LostSats is stored   *)
(* from the inscription updater, which does not count them, so offsets in  *)
(* the null outpoint are too low by as many.                               *)
(***************************************************************************)
LostBelow ==
  LET n == Min({FirstHeight, Height})
      u == UnspentAfter(n)
  IN n * Subsidy - FoldFunction(+, 0, [o \in DOMAIN u |-> u[o].value])

Position(satpoint) ==
  satpoint[2] + 1 + IF satpoint[1] = NullOutPoint THEN LostBelow ELSE 0

(***************************************************************************)
(* An inscription stays on its sat: the sat of its entry is found at its   *)
(* satpoint, through transfers, pointers, fees that go to the coinbase and *)
(* lost sats.  Two computations of the code have to agree on this,         *)
(* index_transaction_sats with sats and index_inscriptions with offsets.   *)
(* In the null outpoint they differ by the sats lost below the first       *)
(* inscription height, and by no more.                                     *)
(***************************************************************************)
InscriptionsStayOnTheirSats ==
  Idle => \A seq \in Seqs : \A sat \in tables.entries[seq].sat :
    LET at == tables.satpoints[seq] IN
    tables.utxos[at[1]].sats[Position(at)] = sat

(***************************************************************************)
(* An inscription is listed at most at one place of one output, and that   *)
(* is its satpoint, even while a block is being indexed and after calls    *)
(* were cut off; otherwise at exactly one (push_inscription and commit     *)
(* against SEQUENCE_NUMBER_TO_SATPOINT, and inscriptions_on_output).       *)
(***************************************************************************)
EachInOnePlace ==
  \A seq \in Seqs :
    LET listed == UNION {{<<o, k>> : k \in {k \in DOMAIN OnOutput(o) : OnOutput(o)[k][2] = seq}} :
                         o \in DOMAIN tables.utxos}
    IN
    /\ Cardinality(listed) <= 1
    /\ \A p \in listed : tables.satpoints[seq] = OnOutput(p[1])[p[2]][1]
    /\ Clean => listed # {}

(***************************************************************************)
(* Every sat mined is in one unspent output or lost, and SAT_TO_SATPOINT   *)
(* says where the rare ones are (index_transaction_sats, the coinbase that *)
(* is indexed last, the null outpoint); of those lost below the first      *)
(* inscription height it may say something else.                           *)
(***************************************************************************)
SatsAccountedFor ==
  Idle /\ index.sats =>
    LET all == UNION {{<<o, i>> : i \in DOMAIN tables.utxos[o].sats} : o \in DOMAIN tables.utxos}
        Sat(p) == tables.utxos[p[1]].sats[p[2]]
        early == {<<NullOutPoint, i>> : i \in 1..LostBelow}
    IN
    /\ {Sat(p) : p \in all} = 0..Height * Subsidy - 1
    /\ Cardinality(all) = Height * Subsidy
    /\ \A p \in all \ early : Rare(Sat(p)) =>
         tables.sats[Sat(p)][1] = p[1] /\ Position(tables.sats[Sat(p)]) = p[2]

(***************************************************************************)
(* get_inscriptions_in_block lists, for every height, the inscriptions     *)
(* made when that block was indexed, however often, and no others.         *)
(***************************************************************************)
BlocksListTheirInscriptions ==
  Idle => \A h \in 0..Height - 1 :
    InscriptionsIn(h) = {seq \in Seqs : tables.entries[seq].height = h}

(***************************************************************************)
(* The table of outputs has exactly the unspent ones made since the first  *)
(* indexed height and the special ones, and an address lists exactly its   *)
(* outputs; within a block, a full index has every input, so the assert    *)
(* before the fetch of an input never fails (the cache, the table and what *)
(* removes from them).                                                     *)
(***************************************************************************)
OutputsMatchChain ==
  /\ Clean =>
       LET made == {tx.id : tx \in UNION {ToSet(chain[h]) : h \in FirstIndexHeight + 1..Height}}
           known == {o \in DOMAIN Unspent : o[1] \in made}
       IN
       /\ {o \in DOMAIN tables.utxos : ~ IsSpecial(o)} = known
       /\ \A o \in known : Len(tables.utxos[o].sats) = Unspent[o].value
       /\ tables.addresses =
            IF ~ index.addresses THEN {}
            ELSE {<<IF IsSpecial(o) THEN "" ELSE Unspent[o].script, o>> : o \in DOMAIN tables.utxos}
  /\ ~ Idle /\ HaveFullUtxoIndex => call.u.waiting = {}

(***************************************************************************)
(* The home table holds the newest visible inscriptions, HomeLimit of them *)
(* if there are as many (home_inscription_count, read again each block).   *)
(***************************************************************************)
HomeIsNewest ==
  LET visible == {seq \in Seqs : ~ tables.entries[seq].hidden} IN
  tables.home = {seq \in visible : Cardinality({s \in visible : s > seq}) < HomeLimit}

(***************************************************************************)
(* An id leads to the envelope its inscription was made from: the index    *)
(* counts over all inputs as from_transaction does when the reveal is read *)
(* again, the inscription is as hidden as that payload, and its parents    *)
(* are among those the payload names, and older (inscription_updater.rs    *)
(* against inscription_info).                                              *)
(***************************************************************************)
IdsLeadToEnvelopes ==
  Clean => \A seq \in Seqs :
    LET entry == tables.entries[seq]
        es == FromTransaction(Transaction(entry.id.txid).witnesses)
        payload == es[entry.id.index + 1].payload
    IN
    /\ tables.ids[entry.id] = seq
    /\ entry.id.index < Len(es)
    /\ entry.hidden = Hidden(payload)
    /\ \A p \in entry.parents :
         /\ p < seq /\ tables.entries[p].id \in ToSet(ParentsOf(payload))
         /\ <<p, seq>> \in tables.children

(***************************************************************************)
(* What is known of an inscription is never overwritten: an entry keeps    *)
(* its id, number, sat and parents through retried blocks, and its charms  *)
(* only grow by being burned (next_sequence_number, read again each time   *)
(* from the table).                                                        *)
(***************************************************************************)
EntriesAreForever ==
  [][\A seq \in Seqs :
       /\ seq \in DOMAIN tables'.entries
       /\ LET was == tables.entries[seq]
              is == tables'.entries[seq]
          IN is = was \/ is = [was EXCEPT !.charms = @ \cup {"burned"}]]_vars

(***************************************************************************)
(* README.md:81: a query by inscription number finds the inscription that  *)
(* has this number.                                                        *)
(***************************************************************************)
NumberFindsInscription ==
  \A seq \in Seqs : tables.numbers[tables.entries[seq].number] = seq
=============================================================================
