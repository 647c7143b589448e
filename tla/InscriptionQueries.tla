------------------------- MODULE InscriptionQueries -------------------------
(***************************************************************************)
(* get_inscription_info while blocks are indexed: inscription_info of      *)
(* src/indexer/src/index.rs, which reads some tables, waits for the node,  *)
(* reads others, waits again, and composes its reply from all of it.       *)
(***************************************************************************)
EXTENDS InscriptionLedger

CONSTANT MaxChildren  \* how many relatives a reply lists: 4

ASSUME QueryAssumption == MaxChildren \in Nat

VARIABLE
  query  \* the one call of inscription_info, see the actions

queryVars == <<vars, query>>

NoQuery == [stage |-> "none"]

-----------------------------------------------------------------------------
(* InscriptionQuery.  A sat is asked for only if sats are indexed.         *)
Key ==
  [kind : {"id"}, value : DOMAIN tables.ids]
  \cup [kind : {"number"}, value : DOMAIN tables.numbers]
  \cup [kind : {"sat"}, value : IF index.sats THEN {p[1] : p \in tables.inscribed} ELSE {}]

Found(key) ==
  CASE key.kind = "id" -> tables.ids[key.value]
    [] key.kind = "number" -> tables.numbers[key.value]
    [] key.kind = "sat" -> Min({p[2] : p \in {p \in tables.inscribed : p[1] = key.value}})

ChildrenOf(seq) == {p[2] : p \in {p \in tables.children : p[1] = seq}}

(* The option holds one list, so the child asked for is its first one if   *)
(* the number is 0, and none otherwise.                                    *)
Wanted(seq, child) ==
  IF child = {} THEN {seq}
  ELSE IF child = {0} /\ ChildrenOf(seq) # {} THEN {Min(ChildrenOf(seq))} ELSE {}

(* The first of the relatives, and their ids.                              *)
Few(seqs) == {s \in seqs : Cardinality({r \in seqs : r < s}) < MaxChildren}

IdsOf(seqs) == {tables.entries[s].id : s \in seqs}

(* Up to the first get_transaction.                                        *)
Ask(key, child) ==
  /\ query = NoQuery
  /\ \E seq \in Wanted(Found(key), child) :
       query' = [stage |-> "reveal", seq |-> seq, entry |-> tables.entries[seq]]
  /\ UNCHANGED vars

(* The envelopes of a transaction the node has.                            *)
Envelopes(txid) == FromTransaction(Transaction(txid).witnesses)

HasEnvelope(id) == id.index < Len(Envelopes(id.txid))

(* The reveal is there: the satpoint is unwrapped, and its output fetched  *)
(* unless it is special.                                                   *)
GotReveal ==
  /\ query.stage = "reveal"
  /\ query' =
       CASE ~ HasEnvelope(query.entry.id) -> NoQuery
         [] HasEnvelope(query.entry.id) /\ query.seq \notin DOMAIN tables.satpoints ->
              [stage |-> "trapped", seq |-> query.seq]
         [] HasEnvelope(query.entry.id) /\ query.seq \in DOMAIN tables.satpoints ->
              [stage |-> "output", seq |-> query.seq, entry |-> query.entry,
               satpoint |-> tables.satpoints[query.seq]]
  /\ UNCHANGED vars

ShownCharms(entry, satpoint) ==
  entry.charms \cup IF satpoint[1] = NullOutPoint THEN {"lost"} ELSE {}

(* inscription_exists.                                                     *)
Delegates(id) ==
  DelegateOf(Envelopes(id.txid)[id.index + 1].payload) \cap DOMAIN tables.ids

(* The output is there, or there is none: the reply, but for the type of a *)
(* delegate.                                                               *)
GotOutput ==
  LET seq == query.seq
      at == query.satpoint
      delegates == Delegates(query.entry.id)
  IN
  /\ query.stage = "output"
  /\ query' =
       [stage |-> IF delegates = {} THEN "replied" ELSE "delegate", delegates |-> delegates,
        seq |-> seq, id |-> query.entry.id, satpoint |-> at,
        output |-> IF IsSpecial(at[1]) THEN {} ELSE {OutputOnNode(at[1])},
        previous |-> IdsOf({seq - 1} \cap 0..seq),
        next |-> IdsOf({seq + 1} \cap Seqs),
        children |-> IdsOf(Few(ChildrenOf(seq))),
        parents |-> IdsOf(Few(query.entry.parents)),
        charms |-> ShownCharms(query.entry, at)]
  /\ UNCHANGED vars

(* get_inscription_by_id, which unwraps the envelope.                      *)
GotDelegate ==
  /\ query.stage = "delegate"
  /\ \E id \in query.delegates :
       query' = [query EXCEPT !.stage = IF HasEnvelope(id) THEN "replied" ELSE "trapped"]
  /\ UNCHANGED vars

(* get_transaction returns an error, and so does the query.                *)
QueryFails ==
  /\ query.stage \in {"reveal", "output"}
  /\ query' = NoQuery
  /\ UNCHANGED vars

(* A step of the ledger; a call that is over is forgotten.                 *)
LedgerStep ==
  /\ Next
  /\ query' = IF query.stage \in {"replied", "trapped"} THEN NoQuery ELSE query

QueryInit == Init /\ query = NoQuery

QueryNext ==
  \/ LedgerStep
  \/ \E key \in Key : \E child \in {{}, {0}, {1}} : Ask(key, child)
  \/ GotReveal
  \/ GotOutput
  \/ GotDelegate
  \/ QueryFails

QuerySpec == QueryInit /\ [][QueryNext]_queryVars

-----------------------------------------------------------------------------
(* Properties.                                                             *)

(***************************************************************************)
(* A reply is of one inscription although it was put together over several *)
(* blocks: its satpoint lies inside the output shown, it is lost exactly   *)
(* if it is at the null outpoint, it is shown as burned only if the output *)
(* is an OP_RETURN, and the inscription before it and its parents are      *)
(* those it has now; the one after it and its children are among those it  *)
(* has now, as more may have come since.  If nothing it read has changed,  *)
(* it is shown as burned exactly if that is where it is, whether it was    *)
(* made there or moved there.  In a partial index an entry may be marked   *)
(* while its satpoint is still the old one.                                *)
(***************************************************************************)
ReplyTellsWhere ==
  query.stage = "replied" =>
    LET at == query.satpoint[1]
        isCurrent ==
          /\ query.satpoint = tables.satpoints[query.seq]
          /\ query.charms = ShownCharms(tables.entries[query.seq], query.satpoint)
        isBurned == \E out \in query.output : out.script = OpReturn
    IN
    /\ \A out \in query.output : query.satpoint[2] < out.value
    /\ HaveFullUtxoIndex /\ at # UnboundOutPoint =>
         /\ "lost" \in query.charms <=> at = NullOutPoint
         /\ "burned" \in query.charms => isBurned
    /\ Clean /\ isCurrent /\ at # UnboundOutPoint => ("burned" \in query.charms <=> isBurned)
    /\ query.id = tables.entries[query.seq].id
    /\ query.previous = IdsOf({query.seq - 1} \cap 0..query.seq)
    /\ query.next \subseteq IdsOf({query.seq + 1} \cap Seqs)
    /\ query.parents = IdsOf(Few(tables.entries[query.seq].parents))
    /\ query.children \subseteq IdsOf(Few(ChildrenOf(query.seq)))

(***************************************************************************)
(* A query traps only for want of a satpoint, in a partial index, and only *)
(* if the inscription is of the block being indexed or of a call that was  *)
(* cut off: a delegate, a neighbour or a settled inscription is always     *)
(* there, whatever blocks are indexed while the query waits (entries are   *)
(* written as transactions are indexed, satpoints by commit).              *)
(***************************************************************************)
TrapsOnlyOnNewOnes ==
  query.stage = "trapped" =>
    /\ ~ HaveFullUtxoIndex
    /\ query.seq \notin DOMAIN tables.satpoints
    /\ cut # <<>> \/ (~ Idle /\ tables.entries[query.seq].height = Height)
=============================================================================
