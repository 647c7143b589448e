-------------------------- MODULE RuneLedgerProofs --------------------------
(***************************************************************************)
(* Proofs about the rune tables, for every block tree, every transaction   *)
(* and every number of lookups, attempts and rollbacks.  What edicts do to *)
(* balances plays no part in them: a step counts by its entries, names,    *)
(* etchings, rows and change record.                                       *)
(***************************************************************************)
EXTENDS RuneLedger, FiniteSetTheorems, TLAPS

TableFields == {"balances", "heights", "entries", "ids", "etchings", "runes", "reserved"}
EntryFields == {"block", "tx", "rune", "number", "burned", "mints", "premine", "terms"}
RecordFields == {"removed", "added", "burned", "mints", "etched"}
UpdaterFields == {"height", "runes", "burned", "record", "at", "left"}

ShapedTables(t) ==
  /\ DOMAIN t = TableFields
  /\ \A id \in DOMAIN t.entries : DOMAIN t.entries[id] = EntryFields

Shaped(s) ==
  /\ DOMAIN s = UpdaterFields \cup {"t"}
  /\ ShapedTables(s.t)
  /\ DOMAIN s.record = RecordFields

(* The part of the entries that does not change while a rune exists.       *)
Lasting(t) ==
  [id \in DOMAIN t.entries |->
     [block |-> t.entries[id].block, tx |-> t.entries[id].tx,
      rune |-> t.entries[id].rune, number |-> t.entries[id].number]]

-----------------------------------------------------------------------------
(* One transaction etches no rune, or one.                                 *)

Quiet(s, r) ==
  /\ Shaped(r) /\ r.height = s.height /\ r.runes = s.runes
  /\ r.t.ids = s.t.ids /\ r.t.etchings = s.t.etchings /\ r.t.runes = s.t.runes
  /\ Lasting(r.t) = Lasting(s.t)
  /\ r.record.etched = s.record.etched /\ r.record.burned = s.record.burned
  /\ DOMAIN r.record.mints \subseteq DOMAIN s.record.mints \cup DOMAIN s.t.entries

Etches(s, r, id, tx, rune) ==
  /\ Shaped(r) /\ r.height = s.height /\ r.runes = s.runes + 1
  /\ r.t.ids = Put(s.t.ids, rune, id) /\ r.t.etchings = Put(s.t.etchings, tx, rune)
  /\ r.t.runes = Put(s.t.runes, s.height, s.runes + 1)
  /\ Lasting(r.t) = Put(Lasting(s.t), id, [block |-> s.height, tx |-> tx,
                                            rune |-> rune, number |-> s.runes])
  /\ r.record.etched = s.record.etched \cup {<<rune, id, tx>>}
  /\ r.record.burned = s.record.burned
  /\ DOMAIN r.record.mints \subseteq DOMAIN s.record.mints \cup DOMAIN s.t.entries \cup {id}

LEMMA UnallocatedQuiet ==
  ASSUME NEW s, Shaped(s), NEW tx
  PROVE  Quiet(s, Unallocated(s, tx)) /\ Unallocated(s, tx).at = s.at
BY DEF Quiet, Shaped, ShapedTables, TableFields, RecordFields, UpdaterFields, Lasting, Unallocated

LEMMA MintQuiet ==
  ASSUME NEW s, Shaped(s), NEW tx
  PROVE  Quiet(s, MintRune(s, tx)) /\ MintRune(s, tx).at = s.at
BY ZenonT(60) DEF Quiet, Shaped, ShapedTables, TableFields, EntryFields, RecordFields, UpdaterFields,
       Lasting, MintRune, Minted, PutNew, Put

LEMMA ReserveQuiet ==
  ASSUME NEW s, Shaped(s)
  PROVE  Quiet(s, Reserve(s)) /\ Reserve(s).at = s.at
BY DEF Quiet, Shaped, ShapedTables, TableFields, RecordFields, UpdaterFields, Lasting, Reserve

LEMMA SettleQuiet ==
  ASSUME NEW s, Shaped(s), NEW a, NEW tx
  PROVE  Quiet(s, Settle(s, a, tx)) /\ Settle(s, a, tx).at = 0
BY DEF Quiet, Shaped, ShapedTables, TableFields, RecordFields, UpdaterFields, Lasting, Settle

LEMMA QuietQuiet ==
  ASSUME NEW s, NEW q, NEW r, Quiet(s, q), Quiet(q, r)
  PROVE  Quiet(s, r)
BY DEF Quiet, Lasting

LEMMA CreateEtches ==
  ASSUME NEW s, Shaped(s), NEW tx, NEW id, NEW rune
  PROVE  Etches(s, CreateRuneEntry(s, tx, id, rune), id, tx, rune)
BY ZenonT(60) DEF Etches, Shaped, ShapedTables, TableFields, EntryFields, RecordFields, UpdaterFields,
       Lasting, CreateRuneEntry, Put

LEMMA QuietEtches ==
  ASSUME NEW s, NEW p, NEW q, NEW r, NEW tx, NEW id, NEW rune,
         Quiet(s, p), Etches(p, q, id, tx, rune), Quiet(q, r)
  PROVE  Etches(s, r, id, tx, rune)
<1>1. DOMAIN p.t.entries = DOMAIN s.t.entries /\ DOMAIN q.t.entries = DOMAIN p.t.entries \cup {id}
  <2>1. /\ DOMAIN Lasting(s.t) = DOMAIN s.t.entries
        /\ DOMAIN Lasting(p.t) = DOMAIN p.t.entries
        /\ DOMAIN Lasting(q.t) = DOMAIN q.t.entries
    BY DEF Lasting
  <2>2. DOMAIN Lasting(q.t) = DOMAIN Lasting(p.t) \cup {id}
    BY DEF Etches, Put
  <2>3. Lasting(p.t) = Lasting(s.t)
    BY DEF Quiet
  <2> QED
    BY <2>1, <2>2, <2>3
<1>2. DOMAIN r.record.mints \subseteq DOMAIN s.record.mints \cup DOMAIN s.t.entries \cup {id}
  BY <1>1 DEF Quiet, Etches
<1> QED
  BY <1>2 DEF Quiet, Etches

(***************************************************************************)
(* The two halves of index_runes.                                          *)
(***************************************************************************)
LEMMA FinishMoves ==
  ASSUME NEW s, Shaped(s), NEW i, NEW tx, NEW rune
  PROVE  LET r == FinishTx(s, i, tx, rune) IN
         /\ r.at = 0
         /\ rune = {} => Quiet(s, r)
         /\ rune # {} => \E n \in rune : Etches(s, r, <<s.height, i>>, tx, n)
<1> DEFINE id == <<s.height, i>>
           a == Allocation(s.left, id, tx, rune)
           n == CHOOSE n \in rune : TRUE
           q == IF rune = {} THEN s ELSE CreateRuneEntry(s, tx, id, n)
<1>1. FinishTx(s, i, tx, rune) = Settle(q, a, tx)
  BY DEF FinishTx
<1>2. CASE rune = {}
  <2>1. q = s
    BY <1>2
  <2> HIDE DEF q, a
  <2> QED
    BY <1>1, <1>2, <2>1, SettleQuiet
<1>3. CASE rune # {}
  <2>1. n \in rune /\ q = CreateRuneEntry(s, tx, id, n)
    BY <1>3
  <2> HIDE DEF n, q, a, id
  <2>2. Etches(s, q, id, tx, n)
    BY <2>1, CreateEtches
  <2>3. Shaped(q)
    BY <2>2 DEF Etches
  <2>4. Quiet(q, Settle(q, a, tx)) /\ Settle(q, a, tx).at = 0
    BY <2>3, SettleQuiet
  <2>5. Quiet(s, s)
    BY DEF Quiet
  <2>6. Etches(s, Settle(q, a, tx), id, tx, n)
    BY <2>2, <2>4, <2>5, QuietEtches
  <2> QED
    BY <1>1, <2>1, <2>4, <2>6 DEF id
<1> QED
  BY <1>2, <1>3

(***************************************************************************)
(* A transaction ends, waits for its commitment with a name that is free,  *)
(* or etches a rune without a name.                                        *)
(***************************************************************************)
Indexes(s, r, i, tx) ==
  \/ Quiet(s, r) /\ r.at = 0
  \/ /\ Quiet(s, r) /\ r.at = i + 1
     /\ Names(tx) \cap DOMAIN r.t.ids = {}
  \/ /\ Etches(s, r, <<s.height, i>>, tx, <<s.height, i>>) /\ r.at = 0
     /\ Names(tx) = {}

LEMMA IndexTxMoves ==
  ASSUME NEW s, Shaped(s), NEW i, NEW tx
  PROVE  Indexes(s, IndexTx(s, i, tx), i, tx)
<1> DEFINE p == Unallocated(s, tx)
           q == MintRune(p, tx)
           w == Reserve(q)
           id == <<s.height, i>>
<1>1. Quiet(s, p)
  BY UnallocatedQuiet
<1>2. Quiet(p, q)
  BY <1>1, MintQuiet DEF Quiet
<1>3. Quiet(s, q) /\ Shaped(q) /\ q.height = s.height
  BY <1>1, <1>2, QuietQuiet DEF Quiet
<1>4. IndexTx(s, i, tx) = AfterMint(q, i, tx)
  BY DEF IndexTx
<1> HIDE DEF p, q
<1>5. CASE NeedsLookup(q, tx)
  <2> DEFINE r == [q EXCEPT !.at = i + 1]
  <2>1. Quiet(q, r) /\ r.at = i + 1 /\ r.t.ids = q.t.ids
    BY <1>3 DEF Quiet, Shaped, UpdaterFields
  <2>2. Quiet(s, r)
    BY <1>3, <2>1, QuietQuiet
  <2>3. Names(tx) \cap DOMAIN r.t.ids = {}
    BY <1>5, <2>1 DEF NeedsLookup, NameIsFree
  <2>4. AfterMint(q, i, tx) = r
    BY <1>5 DEF AfterMint
  <2> QED
    BY <1>4, <2>1, <2>2, <2>3, <2>4 DEF Indexes
<1>6. CASE ~ NeedsLookup(q, tx) /\ IsReserved(tx)
  <2>1. AfterMint(q, i, tx) = FinishTx(w, i, tx, {id})
    BY <1>3, <1>6 DEF AfterMint
  <2>2. Quiet(s, w) /\ Shaped(w) /\ w.height = s.height
    BY <1>3, ReserveQuiet, QuietQuiet DEF Quiet
  <2> HIDE DEF w
  <2> DEFINE r == FinishTx(w, i, tx, {id})
  <2>3. r.at = 0 /\ Etches(w, r, <<w.height, i>>, tx, id)
    BY <2>2, FinishMoves
  <2> HIDE DEF r
  <2>4. Quiet(r, r)
    BY <2>3 DEF Quiet, Etches
  <2>5. Etches(s, r, id, tx, id)
    BY <2>2, <2>3, <2>4, QuietEtches
  <2> QED
    BY <1>4, <1>6, <2>1, <2>3, <2>5 DEF Indexes, IsReserved, r
<1>7. CASE ~ NeedsLookup(q, tx) /\ ~ IsReserved(tx)
  <2> DEFINE r == FinishTx(q, i, tx, {})
  <2>1. AfterMint(q, i, tx) = r
    BY <1>7 DEF AfterMint
  <2>2. r.at = 0 /\ Quiet(q, r)
    BY <1>3, FinishMoves
  <2> HIDE DEF r
  <2>3. Quiet(s, r)
    BY <1>3, <2>2, QuietQuiet
  <2> QED
    BY <1>4, <2>1, <2>2, <2>3 DEF Indexes
<1> QED
  BY <1>5, <1>6, <1>7

-----------------------------------------------------------------------------
(* The loops over transactions and over heights, unfolded.                 *)

TxStep(txs, i, c, x, s) ==
  LET j == [k \in DOMAIN txs |-> k][x]
  IN IF j <= i \/ s.at # 0 THEN s ELSE IndexTx(s, j - 1, txs[j])

(* Max, as an operator of this module. *)
Largest(S) == Max(S)

TxFold == INSTANCE Folding WITH Step <- TxStep, Pick <- Largest

UndoStep(rs, top, f, x, t) ==
  LET h == top + 1 - [n \in 1..(top - f) |-> n][x] IN Undo(t, rs[h], h)

UndoFold == INSTANCE Folding WITH Step <- UndoStep, Pick <- Largest

LEMMA MaxOfInterval ==
  ASSUME NEW m \in Int, NEW n \in Int, m <= n
  PROVE  Max(m..n) = n
BY DEF Max

LEMMA MaxIsElement ==
  ASSUME NEW n \in Nat, NEW s \in SUBSET (1..n), s # {}
  PROVE  Max(s) \in s
<1> DEFINE T == {k \in Nat : n - k \in s}
<1>1. T \subseteq Nat /\ T # {}
  <2>1. PICK x \in s : TRUE
    OBVIOUS
  <2>2. n - x \in Nat /\ n - (n - x) = x
    BY <2>1
  <2> QED
    BY <2>1, <2>2
<1>2. PICK k \in T : \A y \in T : ~ (y < k)
  <2> HIDE DEF T
  <2> QED
    BY <1>1, TxFold!LeastNatural
<1>3. \A y \in s : n - k >= y
  <2> TAKE y \in s
  <2>1. n - y \in T
    BY <1>2
  <2> QED
    BY <1>2, <2>1
<1> QED
  BY <1>2, <1>3 DEF Max

LEMMA LargestFacts ==
  ASSUME NEW n \in Nat
  PROVE  /\ \A j \in 1..n : Largest(1..j) = j
         /\ \A s \in SUBSET (1..n) : s # {} => Largest(s) \in s
<1>1. ASSUME NEW j \in 1..n PROVE Max(1..j) = j
  BY MaxOfInterval
<1>2. ASSUME NEW s \in SUBSET (1..n), s # {} PROVE Max(s) \in s
  BY <1>2, MaxIsElement
<1> QED
  BY <1>1, <1>2 DEF Largest

(* acc[j] is where the loop over the transactions is after the j-th.       *)
Runs(s0, txs, i) ==
  \E acc :
    /\ acc[0] = s0 /\ IndexTxs(s0, txs, i) = acc[Len(txs)]
    /\ \A j \in 1..Len(txs) :
         acc[j] = IF j <= i \/ acc[j-1].at # 0 THEN acc[j-1]
                  ELSE IndexTx(acc[j-1], j - 1, txs[j])

LEMMA IndexTxsRuns ==
  ASSUME NEW s0, NEW txs \in Seq(Tx), NEW i
  PROVE  Runs(s0, txs, i)
<1> DEFINE n == Len(txs)
<1>1. n \in Nat /\ DOMAIN txs = 1..n /\ DOMAIN [k \in DOMAIN txs |-> k] = 1..n
  OBVIOUS
<1>2. IndexTxs(s0, txs, i)
        = TxFold!Fold(txs, i, 0, s0, DOMAIN [k \in DOMAIN txs |-> k])
  BY DEF IndexTxs, FoldLeftDomain, FoldLeft, MapThenFoldSet, TxFold!Fold, TxStep, Largest
<1>3. IndexTxs(s0, txs, i) = TxFold!Fold(txs, i, 0, s0, 1..n)
  BY <1>1, <1>2
<1> HIDE DEF n
<1>4. TxFold!FromLeft(n)
  BY <1>1, LargestFacts DEF TxFold!FromLeft
<1>5. TxFold!Unfolds(txs, i, 0, s0, n)
  BY <1>1, <1>4, TxFold!FoldUnfolds
<1>6. PICK acc : /\ acc[0] = s0
                 /\ \A j \in 1..n : acc[j] = TxStep(txs, i, 0, j, acc[j - 1])
                 /\ TxFold!Fold(txs, i, 0, s0, 1..n) = acc[n]
  BY <1>5 DEF TxFold!Unfolds
<1>7. \A j \in 1..n : acc[j] = IF j <= i \/ acc[j-1].at # 0 THEN acc[j-1]
                                ELSE IndexTx(acc[j-1], j - 1, txs[j])
  BY <1>1, <1>6 DEF TxStep
<1> QED
  BY <1>3, <1>6, <1>7 DEF n, Runs

(* acc[j] is where a rollback is after the j-th height from the top.       *)
RunsBack(f, top, rs) ==
  \E acc :
    /\ acc[0] = tables /\ Undone(f) = acc[top - f]
    /\ \A j \in 1..(top - f) : acc[j] = Undo(acc[j-1], rs[top + 1 - j], top + 1 - j)

LEMMA UndoneRuns ==
  ASSUME NEW f \in Int, Top \in Int, f <= Top
  PROVE  RunsBack(f, Top, records)
<1> DEFINE n == Top - f
<1>1. n \in Nat /\ DOMAIN [k \in 1..(Top - f) |-> k] = 1..n
  OBVIOUS
<1>2. Undone(f) = UndoFold!Fold(records, Top, f, tables, DOMAIN [k \in 1..(Top - f) |-> k])
  BY DEF Undone, UndoneBy, FoldLeft, MapThenFoldSet, UndoFold!Fold, UndoStep, Largest
<1>3. Undone(f) = UndoFold!Fold(records, Top, f, tables, 1..n)
  BY <1>1, <1>2
<1> HIDE DEF n
<1>4. UndoFold!FromLeft(n)
  BY <1>1, LargestFacts DEF UndoFold!FromLeft
<1>5. UndoFold!Unfolds(records, Top, f, tables, n)
  BY <1>1, <1>4, UndoFold!FoldUnfolds
<1>6. PICK acc : /\ acc[0] = tables
                 /\ \A j \in 1..n : acc[j] = UndoStep(records, Top, f, j, acc[j-1])
                 /\ UndoFold!Fold(records, Top, f, tables, 1..n) = acc[n]
  BY <1>5 DEF UndoFold!Unfolds
<1>7. \A j \in 1..n : acc[j] = Undo(acc[j-1], records[Top + 1 - j], Top + 1 - j)
  BY <1>6 DEF UndoStep, n
<1> QED
  BY <1>3, <1>6, <1>7 DEF n, RunsBack

-----------------------------------------------------------------------------
(***************************************************************************)
(* The invariant.  L stands for the lasting part of the entries, and clean *)
(* for "no attempt was cut off".  First, entries and change records: an    *)
(* entry is no further up than the block being indexed, a change record    *)
(* mentions runes of its height or below and, if clean, lists every rune   *)
(* etched at its height.                                                   *)
(***************************************************************************)
Known(L, h) ==
  \A id \in DOMAIN L :
    id \in Nat \X Nat /\ L[id].block = id[1] /\ FirstHeight <= id[1] /\ id[1] <= h

RecordFits(r, h, L) ==
  /\ \A e \in r.etched : e[2][1] = h
  /\ \A id \in DOMAIN r.mints \cup DOMAIN r.burned : id \in DOMAIN L /\ id[1] <= h

Lists(r, h, L) == \A id \in DOMAIN L : id[1] = h => \E e \in r.etched : e[2] = id

Recorded(rs, L, clean) ==
  \A h \in DOMAIN rs : RecordFits(rs[h], h, L) /\ (clean => Lists(rs[h], h, L))

(***************************************************************************)
(* Second, the numbers: each row of HEIGHT_TO_STATISTIC_RUNES bounds the   *)
(* numbers of the runes up to its height and, if clean, counts them.       *)
(***************************************************************************)
Rows(rows, L, clean) ==
  /\ \A id \in DOMAIN L : L[id].number \in Nat
  /\ \A i, j \in DOMAIN L : i # j => L[i].number # L[j].number
  /\ \A h \in DOMAIN rows :
       /\ rows[h] \in Nat
       /\ \A id \in DOMAIN L : id[1] <= h => L[id].number < rows[h]
  /\ clean =>
       /\ \A i, j \in DOMAIN L : Before(i, j) => L[i].number < L[j].number
       /\ \A h \in DOMAIN rows : \A k \in 0..rows[h] - 1 :
            \E id \in DOMAIN L : id[1] <= h /\ L[id].number = k

(***************************************************************************)
(* Third, the indexes: an entry is of the transaction at its place on a    *)
(* chain c, and change records tell its name and transaction.  Unless the  *)
(* state is clean this needs same, that a block that was cut off was       *)
(* always the one that was tried again.                                    *)
(***************************************************************************)
SameTip == "tip" \notin moved

(* Nothing was rolled back after an attempt that was cut off.              *)
Forward == "back" \notin moved

Agree(ids, etchings, L) ==
  /\ \A r \in DOMAIN ids : ids[r] \in DOMAIN L /\ L[ids[r]].rune = r
  /\ \A id \in DOMAIN L :
       /\ L[id].rune \in DOMAIN ids /\ ids[L[id].rune] = id
       /\ L[id].tx \in DOMAIN etchings /\ etchings[L[id].tx] = L[id].rune

InPlace(L, c) ==
  \A id \in DOMAIN L :
    LET i == id[1] - FirstHeight + 1
        txs == Txs[c[i]]
    IN /\ i \in 1..Len(c) /\ id[2] + 1 \in DOMAIN txs
       /\ L[id].tx = txs[id[2] + 1]
       /\ \/ Names(L[id].tx) = {} /\ L[id].rune = id
          \/ L[id].rune \in Names(L[id].tx)

EtchedFits(r, L) ==
  \A e \in r.etched : e[2] \in DOMAIN L /\ L[e[2]].rune = e[1] /\ L[e[2]].tx = e[3]

Listed(rs, L) == \A k \in DOMAIN rs : EtchedFits(rs[k], L)

(***************************************************************************)
(* The three parts between two cycles, with entries up to height h.        *)
(***************************************************************************)
Rest(t, h, rows, rs, c, clean, same) ==
  /\ ShapedTables(t) /\ Known(Lasting(t), h) /\ Recorded(rs, Lasting(t), clean)
  /\ DOMAIN t.runes = rows /\ Rows(t.runes, Lasting(t), clean)
  /\ clean \/ same =>
       /\ Agree(t.ids, t.etchings, Lasting(t)) /\ InPlace(Lasting(t), c)
       /\ clean => Listed(rs, Lasting(t))

(***************************************************************************)
(* And in the middle of block b at height h with change records rs, where  *)
(* transactions up to the n-th have etched.                                *)
(***************************************************************************)
Working(s, h, clean) ==
  /\ Shaped(s) /\ s.height = h
  /\ Known(Lasting(s.t), h)
  /\ RecordFits(s.record, h, Lasting(s.t))
  /\ clean => Lists(s.record, h, Lasting(s.t))

Counting(s, h, n, clean) ==
  /\ h \in DOMAIN s.t.runes /\ s.t.runes[h] = s.runes
  /\ Rows(s.t.runes, Lasting(s.t), clean)
  /\ clean => \A id \in DOMAIN Lasting(s.t) : id[1] = h => id[2] < n

Placed(s, b, clean) ==
  /\ Agree(s.t.ids, s.t.etchings, Lasting(s.t))
  /\ InPlace(Lasting(s.t), ChainTo[b])
  /\ clean => EtchedFits(s.record, Lasting(s.t))

Stage(s, b, h, n, rs, clean, same) ==
  /\ Working(s, h, clean) /\ Counting(s, h, n, clean)
  /\ DOMAIN s.t.runes = DOMAIN rs \cup {h}
  /\ Recorded(rs, Lasting(s.t), clean)
  /\ clean \/ same => Placed(s, b, clean) /\ (clean => Listed(rs, Lasting(s.t)))

(* The loop over the transactions has got past the j-th, or waits.         *)
Reach(s, b, h, j, rs, clean, same) ==
  IF s.at = 0 THEN Stage(s, b, h, j, rs, clean, same)
  ELSE /\ s.at \in 1..j /\ Stage(s, b, h, s.at - 1, rs, clean, same)
       /\ Names(Txs[b][s.at]) \cap DOMAIN s.t.ids = {}

(* What does not change meanwhile.                                         *)
Site(b, h, rs) ==
  /\ b \in Block /\ h \in Nat /\ FirstHeight <= h
  /\ \A k \in DOMAIN rs : k \in Nat /\ k < h
  /\ Len(ChainTo[b]) = h - FirstHeight + 1

(***************************************************************************)
(* The window is an interval of heights and its headers are one chain.     *)
(***************************************************************************)
Window ==
  /\ DOMAIN headers \subseteq Nat /\ DOMAIN records = DOMAIN headers
  /\ DOMAIN headers = {} => headers = EmptyMap
  /\ DOMAIN headers # {} =>
       \E lo, hi \in DOMAIN headers : FirstHeight <= lo /\ DOMAIN headers = lo..hi

OneChain ==
  \A h \in DOMAIN headers :
    /\ headers[h] \in Block
    /\ Len(ChainTo[headers[h]]) = h - FirstHeight + 1
    /\ \A i \in 1..(h - FirstHeight + 1) : ChainTo[headers[h]][i] = Indexed[i]

Progress ==
  /\ block \in Block \cup {NoBlock} /\ tried \in Block \cup {NoBlock}
  /\ cutOffs \in 0..MaxCutOffs
  /\ cutOffs = 0 => tried = NoBlock

Resting ==
  IF tried = NoBlock
  THEN Rest(tables, NextHeight - 1, DOMAIN records, records, Indexed, cutOffs = 0, SameTip)
  ELSE Rest(tables, NextHeight, DOMAIN records \cup {NextHeight}, records, ChainTo[tried],
            FALSE, SameTip)

Busy ==
  /\ Parent[block] = Latest /\ Joined.at # 0
  /\ Reach(Joined, block, NextHeight, Len(Txs[block]), records, cutOffs = 0, SameTip)

LedgerInv ==
  /\ Window /\ OneChain /\ Progress
  /\ block = NoBlock => Resting
  /\ block # NoBlock => Busy

-----------------------------------------------------------------------------
(* What one transaction does to the three parts.                           *)

LEMMA LastingDomain ==
  ASSUME NEW t
  PROVE  DOMAIN Lasting(t) = DOMAIN t.entries
BY DEF Lasting

LEMMA QuietKeeps ==
  ASSUME NEW s, NEW r, NEW h, NEW clean, Quiet(s, r), Working(s, h, clean)
  PROVE  /\ Working(r, h, clean)
         /\ \A n : Counting(s, h, n, clean) => Counting(r, h, n, clean)
         /\ \A b : Placed(s, b, clean) => Placed(r, b, clean)
<1>1. DOMAIN Lasting(s.t) = DOMAIN s.t.entries
  BY LastingDomain
<1>2. Known(Lasting(r.t), h) /\ (clean => Lists(r.record, h, Lasting(r.t)))
  BY DEF Working, Quiet, Lists
<1>3. RecordFits(r.record, h, Lasting(r.t))
  BY <1>1 DEF Working, Quiet, RecordFits, Known
<1> QED
  BY <1>2, <1>3 DEF Working, Quiet, Counting, Placed, EtchedFits

LEMMA EtchWorking ==
  ASSUME NEW s, NEW r, NEW h \in Nat, NEW i \in Nat, NEW clean, NEW tx, NEW rune,
         FirstHeight <= h, Working(s, h, clean), Etches(s, r, <<h, i>>, tx, rune)
  PROVE  Working(r, h, clean)
<1> DEFINE L == Lasting(s.t)
           M == Lasting(r.t)
           id == <<h, i>>
           new == [block |-> s.height, tx |-> tx, rune |-> rune, number |-> s.runes]
<1>1. M = Put(L, id, new) /\ Shaped(r) /\ r.height = h /\ new.block = h
  BY DEF Etches, Working
<1> HIDE DEF new
<1>2. /\ DOMAIN M = DOMAIN L \cup {id} /\ M[id] = new
      /\ \A x \in DOMAIN L : x # id => M[x] = L[x]
  BY <1>1 DEF Put
<1>3. DOMAIN L = DOMAIN s.t.entries
  BY LastingDomain
<1> HIDE DEF L, M
<1>4. Known(M, h)
  <2>1. Known(L, h) /\ id \in Nat \X Nat /\ id[1] = h
    BY DEF Working, L
  <2> QED
    BY <1>1, <1>2, <2>1 DEF Known
<1>5. RecordFits(r.record, h, M)
  <2>1. RecordFits(s.record, h, L) /\ Known(L, h) /\ id[1] = h
    BY DEF Working, L
  <2>2. \A e \in r.record.etched : e[2][1] = h
    <3>1. r.record.etched = s.record.etched \cup {<<rune, id, tx>>}
      BY DEF Etches
    <3> QED
      BY <2>1, <3>1 DEF RecordFits
  <2>3. \A x \in DOMAIN r.record.mints \cup DOMAIN r.record.burned :
          \/ x \in DOMAIN s.record.mints \cup DOMAIN s.record.burned
          \/ x \in DOMAIN L \/ x = id
    BY <1>3 DEF Etches
  <2>4. ASSUME NEW x \in DOMAIN r.record.mints \cup DOMAIN r.record.burned
        PROVE  x \in DOMAIN M /\ x[1] <= h
    <3>1. CASE x \in DOMAIN s.record.mints \cup DOMAIN s.record.burned
      BY <1>2, <2>1, <3>1 DEF RecordFits
    <3>2. CASE x \in DOMAIN L
      BY <1>2, <2>1, <3>2 DEF Known
    <3>3. CASE x = id
      BY <1>2, <2>1, <3>3
    <3> QED
      BY <2>3, <2>4, <3>1, <3>2, <3>3
  <2> QED
    BY <2>2, <2>4 DEF RecordFits
<1>6. ASSUME clean PROVE Lists(r.record, h, M)
  <2>1. r.record.etched = s.record.etched \cup {<<rune, id, tx>>} /\ Lists(s.record, h, L)
    BY <1>6 DEF Etches, Working, L
  <2>2. <<rune, id, tx>> \in r.record.etched /\ <<rune, id, tx>>[2] = id
    BY <2>1
  <2> HIDE DEF id
  <2>3. ASSUME NEW x \in DOMAIN M, x[1] = h PROVE \E e \in r.record.etched : e[2] = x
    <3>1. CASE x = id
      BY <2>2, <3>1
    <3>2. CASE x \in DOMAIN L
      BY <2>1, <2>3, <3>2 DEF Lists
    <3> QED
      BY <1>2, <3>1, <3>2
  <2> QED
    BY <2>3 DEF Lists
<1> QED
  BY <1>1, <1>4, <1>5, <1>6 DEF Working, M

LEMMA EtchCounting ==
  ASSUME NEW s, NEW r, NEW h \in Nat, NEW i \in Nat, NEW n \in Nat, NEW clean, NEW tx, NEW rune,
         n <= i, Working(s, h, clean), Counting(s, h, n, clean),
         \A k \in DOMAIN s.t.runes : k \in Nat /\ k <= h,
         Etches(s, r, <<h, i>>, tx, rune)
  PROVE  Counting(r, h, i + 1, clean)
<1> DEFINE L == Lasting(s.t)
           M == Lasting(r.t)
           id == <<h, i>>
           rows == s.t.runes
           new == [block |-> s.height, tx |-> tx, rune |-> rune, number |-> s.runes]
<1>1. /\ M = Put(L, id, new) /\ r.runes = s.runes + 1 /\ r.t.runes = Put(rows, h, s.runes + 1)
      /\ new.number = s.runes
  BY DEF Etches, Working
<1>2. /\ h \in DOMAIN rows /\ rows[h] = s.runes /\ Rows(rows, L, clean) /\ Known(L, h)
      /\ clean => \A x \in DOMAIN L : x[1] = h => x[2] < n
  BY DEF Counting, Working
<1> HIDE DEF new, L, M
<1>3. /\ DOMAIN M = DOMAIN L \cup {id} /\ M[id].number = s.runes
      /\ \A x \in DOMAIN L : x # id => M[x] = L[x]
  BY <1>1 DEF Put
<1>4. /\ DOMAIN r.t.runes = DOMAIN rows /\ r.t.runes[h] = s.runes + 1
      /\ \A k \in DOMAIN rows : k # h => r.t.runes[k] = rows[k]
  BY <1>1, <1>2 DEF Put
<1>5. /\ s.runes \in Nat /\ id[1] = h /\ id[2] = i
      /\ \A x \in DOMAIN L : /\ x \in Nat \X Nat /\ x[1] \in Nat /\ x[2] \in Nat /\ x[1] <= h
                             /\ L[x].number \in Nat /\ L[x].number < s.runes
  BY <1>2 DEF Rows, Known
<1>6. clean => id \notin DOMAIN L
  BY <1>2, <1>5
<1> HIDE DEF id, rows
<1>7. Rows(r.t.runes, M, clean)
  <2>1. \A x \in DOMAIN M : M[x].number \in Nat
    BY <1>3, <1>5
  <2>2. \A x, y \in DOMAIN M : x # y => M[x].number # M[y].number
    BY <1>2, <1>3, <1>5 DEF Rows
  <2>3. ASSUME NEW k \in DOMAIN r.t.runes
        PROVE  /\ r.t.runes[k] \in Nat
               /\ \A x \in DOMAIN M : x[1] <= k => M[x].number < r.t.runes[k]
    <3>1. CASE k = h
      BY <1>3, <1>4, <1>5, <3>1
    <3>2. CASE k # h
      <4>1. /\ k \in DOMAIN rows /\ r.t.runes[k] = rows[k] /\ rows[k] \in Nat
            /\ \A x \in DOMAIN L : x[1] <= k => L[x].number < rows[k]
        BY <1>2, <1>4, <2>3, <3>2 DEF Rows
      <4>2. ~ (h <= k)
        BY <3>2, <4>1 DEF rows
      <4> QED
        BY <1>3, <1>5, <4>1, <4>2
    <3> QED
      BY <3>1, <3>2
  <2>4. ASSUME clean
        PROVE  \A x, y \in DOMAIN M : Before(x, y) => M[x].number < M[y].number
    BY <1>2, <1>3, <1>5, <1>6, <2>4 DEF Rows, Before
  <2>5. ASSUME clean, NEW k \in DOMAIN r.t.runes, NEW m \in 0..r.t.runes[k] - 1
        PROVE  \E x \in DOMAIN M : x[1] <= k /\ M[x].number = m
    <3>1. CASE k = h /\ m = s.runes
      BY <1>3, <1>5, <3>1
    <3>2. CASE ~ (k = h /\ m = s.runes)
      <4>1. k \in DOMAIN rows /\ m \in 0..rows[k] - 1
        BY <1>2, <1>4, <1>5, <2>5, <3>2
      <4>2. PICK x \in DOMAIN L : x[1] <= k /\ L[x].number = m
        BY <1>2, <2>5, <4>1 DEF Rows
      <4> QED
        BY <1>3, <1>6, <2>5, <4>2
    <3> QED
      BY <3>1, <3>2
  <2> QED
    BY <2>1, <2>2, <2>3, <2>4, <2>5 DEF Rows
<1>8. clean => \A x \in DOMAIN M : x[1] = h => x[2] < i + 1
  BY <1>2, <1>3, <1>5
<1> QED
  BY <1>1, <1>2, <1>4, <1>7, <1>8 DEF Counting, M

(* The name of a rune etched by the i-th transaction of the block, tx.     *)
Named(s, h, i, tx, rune) ==
  \/ Names(tx) = {} /\ rune = <<h, i>>
  \/ rune \in Names(tx) /\ Names(tx) \cap DOMAIN s.t.ids = {}

LEMMA NamesAreNamed ==
  ASSUME NEW tx \in Tx, NEW n \in Names(tx)
  PROVE  n[1] = 0
BY LedgerAssumption DEF Names

LEMMA ChainEnds ==
  ASSUME NEW b \in Block
  PROVE  /\ ChainTo[b] \in Seq(Block) /\ Len(ChainTo[b]) \in Nat /\ Len(ChainTo[b]) >= 1
         /\ ChainTo[b][Len(ChainTo[b])] = b
         /\ \A i \in 1..Len(ChainTo[b]) : ChainTo[b][i] \in Block
         /\ Parent[b] = NoBlock => ChainTo[b] = <<b>>
         /\ Parent[b] # NoBlock => ChainTo[b] = Append(ChainTo[Parent[b]], b)
<1>1. ChainTo[b] \in Seq(Block)
  BY ChainsFinite
<1>2. CASE Parent[b] = NoBlock
  <2>1. ChainTo[b] = <<b>>
    BY <1>2, ChainsFinite
  <2> QED
    BY <1>1, <1>2, <2>1
<1>3. CASE Parent[b] # NoBlock
  <2>1. ChainTo[b] = Append(ChainTo[Parent[b]], b) /\ Parent[b] \in Block
    BY <1>3, ChainsFinite, LedgerAssumption
  <2>2. ChainTo[Parent[b]] \in Seq(Block)
    BY <2>1, ChainsFinite
  <2> QED
    BY <1>1, <1>3, <2>1, <2>2
<1> QED
  BY <1>2, <1>3

LEMMA OncePerChain ==
  ASSUME NEW b \in Block, NEW u \in DOMAIN ChainTo[b], NEW v \in DOMAIN ChainTo[b],
         NEW k \in DOMAIN Txs[ChainTo[b][u]], NEW l \in DOMAIN Txs[ChainTo[b][v]],
         <<u, k>> # <<v, l>>
  PROVE  Txs[ChainTo[b][u]][k] # Txs[ChainTo[b][v]][l]
BY ChainsValid

LEMMA EtchPlaced ==
  ASSUME NEW s, NEW r, NEW b \in Block, NEW h \in Nat, NEW i \in Nat, NEW clean,
         NEW tx, NEW rune,
         FirstHeight <= h, Len(ChainTo[b]) = h - FirstHeight + 1,
         i + 1 \in DOMAIN Txs[b], tx = Txs[b][i + 1],
         Working(s, h, clean), Placed(s, b, clean),
         clean => <<h, i>> \notin DOMAIN Lasting(s.t),
         Named(s, h, i, tx, rune), Etches(s, r, <<h, i>>, tx, rune)
  PROVE  Placed(r, b, clean)
<1> DEFINE L == Lasting(s.t)
           M == Lasting(r.t)
           id == <<h, i>>
           c == ChainTo[b]
           new == [block |-> s.height, tx |-> tx, rune |-> rune, number |-> s.runes]
<1>1. /\ M = Put(L, id, new) /\ r.t.ids = Put(s.t.ids, rune, id)
      /\ r.t.etchings = Put(s.t.etchings, tx, rune)
      /\ r.record.etched = s.record.etched \cup {<<rune, id, tx>>}
      /\ new.tx = tx /\ new.rune = rune
  BY DEF Etches, Working
<1>2. /\ Agree(s.t.ids, s.t.etchings, L) /\ InPlace(L, c) /\ Known(L, h)
      /\ clean => EtchedFits(s.record, L)
  BY DEF Placed, Working
<1>3. /\ FirstHeight \in Nat /\ FirstHeight >= 1 /\ id[1] = h /\ id[2] = i
      /\ tx \in Tx /\ c[h - FirstHeight + 1] = b /\ h - FirstHeight + 1 \in 1..Len(c)
      /\ c \in Seq(Block) /\ i + 1 \in 1..Len(Txs[b])
  BY ChainEnds, LedgerAssumption
<1>4. \A x \in DOMAIN L : /\ x = <<x[1], x[2]>> /\ x[1] \in Nat /\ x[2] \in Nat
                         /\ x[1] - FirstHeight + 1 \in 1..Len(c)
                         /\ x[2] + 1 \in DOMAIN Txs[c[x[1] - FirstHeight + 1]]
                         /\ L[x].tx = Txs[c[x[1] - FirstHeight + 1]][x[2] + 1]
  BY <1>2 DEF InPlace, Known
<1>5. \A x \in DOMAIN L : x # id => L[x].tx # tx
  <2> SUFFICES ASSUME NEW x \in DOMAIN L, x # id PROVE L[x].tx # tx
    OBVIOUS
  <2> DEFINE u == x[1] - FirstHeight + 1
             v == h - FirstHeight + 1
  <2>1. u \in DOMAIN c /\ v \in DOMAIN c /\ x[2] + 1 \in DOMAIN Txs[c[u]] /\ i + 1 \in DOMAIN Txs[c[v]]
    BY SMTT(30), <1>3, <1>4
  <2>2. <<u, x[2] + 1>> # <<v, i + 1>>
    BY <1>3, <1>4
  <2>3. L[x].tx = Txs[c[u]][x[2] + 1] /\ tx = Txs[c[v]][i + 1]
    BY <1>3, <1>4
  <2> HIDE DEF u, v
  <2> QED
    BY <2>1, <2>2, <2>3, OncePerChain
<1>6. \A x \in DOMAIN L : L[x].tx \in Tx
  <2> SUFFICES ASSUME NEW x \in DOMAIN L PROVE L[x].tx \in Tx
    OBVIOUS
  <2> DEFINE d == c[x[1] - FirstHeight + 1]
  <2>1. d \in Block
    BY <1>4, ChainEnds
  <2>2. Txs[d] \in Seq(Tx) /\ x[2] + 1 \in DOMAIN Txs[d] /\ L[x].tx = Txs[d][x[2] + 1]
    BY <1>4, <2>1, LedgerAssumption
  <2> HIDE DEF d
  <2> QED
    BY <2>2
<1>7. \A x \in DOMAIN L : x # id => L[x].rune # rune
  <2> SUFFICES ASSUME NEW x \in DOMAIN L, x # id PROVE L[x].rune # rune
    OBVIOUS
  <2>1. CASE Names(tx) = {} /\ rune = id
    <3>1. \/ L[x].rune = x
          \/ L[x].rune \in Names(L[x].tx)
      BY <1>2 DEF InPlace
    <3>2. CASE L[x].rune \in Names(L[x].tx)
      <4>1. L[x].rune[1] = 0
        BY <1>6, <3>2, NamesAreNamed
      <4> QED
        BY <1>3, <2>1, <4>1
    <3> QED
      BY <2>1, <3>1, <3>2
  <2>2. CASE rune \in Names(tx) /\ Names(tx) \cap DOMAIN s.t.ids = {}
    BY <1>2, <2>2 DEF Agree
  <2> QED
    BY <2>1, <2>2 DEF Named
<1>8. id \in DOMAIN L => L[id].rune = rune
  <2> SUFFICES ASSUME id \in DOMAIN L PROVE L[id].rune = rune
    OBVIOUS
  <2>1. L[id].tx = tx
    BY <1>3, <1>4
  <2>2. \/ Names(tx) = {} /\ L[id].rune = id
        \/ L[id].rune \in Names(tx)
    BY <1>2, <2>1 DEF InPlace
  <2>3. L[id].rune \in DOMAIN s.t.ids
    BY <1>2 DEF Agree
  <2> QED
    BY <2>2, <2>3 DEF Named
<1> HIDE DEF L, M, id, new, c
<1>9. /\ DOMAIN M = DOMAIN L \cup {id} /\ M[id].rune = rune /\ M[id].tx = tx
      /\ \A x \in DOMAIN L : x # id => M[x] = L[x]
  BY <1>1 DEF Put
<1>10. Agree(r.t.ids, r.t.etchings, M)
  <2>1. ASSUME NEW q \in DOMAIN r.t.ids
        PROVE  r.t.ids[q] \in DOMAIN M /\ M[r.t.ids[q]].rune = q
    <3>1. CASE q = rune
      <4>1. r.t.ids[q] = id
        BY <1>1, <3>1 DEF Put
      <4> QED
        BY <1>9, <3>1, <4>1
    <3>2. CASE q # rune
      <4>1. q \in DOMAIN s.t.ids /\ r.t.ids[q] = s.t.ids[q]
        BY <1>1, <3>2 DEF Put
      <4>2. s.t.ids[q] \in DOMAIN L /\ L[s.t.ids[q]].rune = q
        BY <1>2, <4>1 DEF Agree
      <4> QED
        BY <1>8, <1>9, <3>2, <4>1, <4>2
    <3> QED
      BY <3>1, <3>2
  <2>2. ASSUME NEW x \in DOMAIN M
        PROVE  /\ M[x].rune \in DOMAIN r.t.ids /\ r.t.ids[M[x].rune] = x
               /\ M[x].tx \in DOMAIN r.t.etchings /\ r.t.etchings[M[x].tx] = M[x].rune
    <3>1. CASE x = id
      BY <1>1, <1>9, <3>1 DEF Put
    <3>2. CASE x # id
      <4>1. x \in DOMAIN L /\ M[x] = L[x] /\ L[x].rune # rune /\ L[x].tx # tx
        BY <1>5, <1>7, <1>9, <3>2
      <4>2. /\ L[x].rune \in DOMAIN s.t.ids /\ s.t.ids[L[x].rune] = x
            /\ L[x].tx \in DOMAIN s.t.etchings /\ s.t.etchings[L[x].tx] = L[x].rune
        BY <1>2, <4>1 DEF Agree
      <4> QED
        BY <1>1, <4>1, <4>2 DEF Put
    <3> QED
      BY <3>1, <3>2
  <2> QED
    BY <2>1, <2>2 DEF Agree
<1>11. InPlace(M, c)
  <2> SUFFICES ASSUME NEW x \in DOMAIN M
               PROVE  /\ x[1] - FirstHeight + 1 \in 1..Len(c)
                      /\ x[2] + 1 \in DOMAIN Txs[c[x[1] - FirstHeight + 1]]
                      /\ M[x].tx = Txs[c[x[1] - FirstHeight + 1]][x[2] + 1]
                      /\ \/ Names(M[x].tx) = {} /\ M[x].rune = x
                         \/ M[x].rune \in Names(M[x].tx)
    BY DEF InPlace
  <2>1. CASE x = id
    <3>1. \/ Names(tx) = {} /\ rune = id
          \/ rune \in Names(tx)
      BY DEF Named, id
    <3> QED
      BY <1>3, <1>9, <2>1, <3>1
  <2>2. CASE x # id
    <3>1. x \in DOMAIN L /\ M[x] = L[x]
      BY <1>9, <2>2
    <3> QED
      BY <1>2, <3>1 DEF InPlace
  <2> QED
    BY <2>1, <2>2
<1>12. ASSUME clean PROVE EtchedFits(r.record, M)
  <2>1. id \notin DOMAIN L /\ EtchedFits(s.record, L)
    BY <1>2, <1>12 DEF id, L
  <2> SUFFICES ASSUME NEW e \in r.record.etched
               PROVE  e[2] \in DOMAIN M /\ M[e[2]].rune = e[1] /\ M[e[2]].tx = e[3]
    BY DEF EtchedFits
  <2>2. CASE e = <<rune, id, tx>>
    BY <1>9, <2>2
  <2>3. CASE e \in s.record.etched
    BY <1>9, <2>1, <2>3 DEF EtchedFits
  <2> QED
    BY <1>1, <2>2, <2>3
<1> QED
  BY <1>10, <1>11, <1>12 DEF Placed, M, c

LEMMA QuietStage ==
  ASSUME NEW s, NEW r, NEW b, NEW h, NEW n \in Nat, NEW m \in Nat, NEW rs, NEW clean, NEW same,
         n <= m, Stage(s, b, h, n, rs, clean, same), Quiet(s, r)
  PROVE  Stage(r, b, h, m, rs, clean, same)
<1>1. /\ Working(r, h, clean) /\ Counting(r, h, n, clean)
      /\ clean \/ same => Placed(r, b, clean)
  BY QuietKeeps DEF Stage
<1>2. Lasting(r.t) = Lasting(s.t) /\ r.t.runes = s.t.runes
  BY DEF Quiet
<1>3. Counting(r, h, m, clean)
  <2>1. \A id \in DOMAIN Lasting(r.t) : id[2] \in Nat
    BY <1>1 DEF Working, Known
  <2> QED
    BY <1>1, <2>1 DEF Counting
<1> QED
  BY <1>1, <1>2, <1>3 DEF Stage

LEMMA EtchStage ==
  ASSUME NEW s, NEW r, NEW b, NEW h, NEW i \in Nat, NEW rs, NEW clean, NEW same, NEW rune,
         Site(b, h, rs), Stage(s, b, h, i, rs, clean, same), i + 1 \in DOMAIN Txs[b],
         Named(s, h, i, Txs[b][i + 1], rune),
         Etches(s, r, <<h, i>>, Txs[b][i + 1], rune)
  PROVE  Stage(r, b, h, i + 1, rs, clean, same)
<1> DEFINE L == Lasting(s.t)
           M == Lasting(r.t)
           tx == Txs[b][i + 1]
           id == <<h, i>>
<1>1. /\ h \in Nat /\ b \in Block /\ FirstHeight <= h /\ \A k \in DOMAIN rs : k \in Nat /\ k < h
      /\ Len(ChainTo[b]) = h - FirstHeight + 1
  BY DEF Site
<1>2. /\ Working(s, h, clean) /\ Counting(s, h, i, clean) /\ Recorded(rs, L, clean)
      /\ DOMAIN s.t.runes = DOMAIN rs \cup {h}
      /\ clean \/ same => Placed(s, b, clean) /\ (clean => Listed(rs, L))
  BY DEF Stage
<1>3. Working(r, h, clean)
  BY <1>1, <1>2, EtchWorking
<1>4. Counting(r, h, i + 1, clean) /\ DOMAIN r.t.runes = DOMAIN rs \cup {h}
  <2>1. Counting(r, h, i + 1, clean)
    BY <1>1, <1>2, EtchCounting
  <2>2. r.t.runes = Put(s.t.runes, h, s.runes + 1)
    BY <1>2 DEF Etches, Working
  <2> QED
    BY <1>2, <2>1, <2>2 DEF Put
<1>5. /\ DOMAIN M = DOMAIN L \cup {id} /\ id[1] = h
      /\ \A x \in DOMAIN L : x # id => M[x] = L[x]
  BY DEF Etches, Put
<1>6. Recorded(rs, M, clean)
  <2> SUFFICES ASSUME NEW k \in DOMAIN rs
               PROVE  RecordFits(rs[k], k, M) /\ (clean => Lists(rs[k], k, M))
    BY DEF Recorded
  <2> HIDE DEF M, L, id
  <2>1. RecordFits(rs[k], k, L) /\ (clean => Lists(rs[k], k, L)) /\ k # h
    BY <1>1, <1>2 DEF Recorded
  <2> QED
    BY <1>5, <2>1 DEF RecordFits, Lists
<1>7. ASSUME clean \/ same PROVE Placed(r, b, clean)
  <2>1. clean => id \notin DOMAIN L
    BY <1>2 DEF Counting
  <2> QED
    BY <1>1, <1>2, <1>7, <2>1, EtchPlaced
<1>8. ASSUME clean PROVE Listed(rs, M)
  <2>1. ASSUME NEW k \in DOMAIN rs PROVE EtchedFits(rs[k], M)
    <3> HIDE DEF M, L, id
    <3>1. EtchedFits(rs[k], L) /\ RecordFits(rs[k], k, L) /\ k # h
      BY <1>1, <1>2, <1>8 DEF Recorded, Listed
    <3> QED
      BY <1>5, <3>1 DEF EtchedFits, RecordFits
  <2> QED
    BY <2>1 DEF Listed
<1> QED
  BY <1>3, <1>4, <1>6, <1>7, <1>8 DEF Stage

LEMMA OneMore ==
  ASSUME NEW s, NEW b, NEW h, NEW j \in Nat, NEW rs, NEW clean, NEW same, s.at = 0,
         Site(b, h, rs), Stage(s, b, h, j, rs, clean, same), j + 1 \in DOMAIN Txs[b]
  PROVE  Reach(IndexTx(s, j, Txs[b][j + 1]), b, h, j + 1, rs, clean, same)
<1> DEFINE tx == Txs[b][j + 1]
           r == IndexTx(s, j, tx)
<1>1. Shaped(s) /\ s.height = h
  BY DEF Stage, Working
<1>2. Indexes(s, r, j, tx)
  BY <1>1, IndexTxMoves
<1> SUFFICES Reach(r, b, h, j + 1, rs, clean, same)
  OBVIOUS
<1> HIDE DEF r
<1>3. CASE Quiet(s, r) /\ r.at = 0
  BY <1>3, QuietStage DEF Reach
<1>4. CASE Quiet(s, r) /\ r.at = j + 1 /\ Names(tx) \cap DOMAIN r.t.ids = {}
  <2>1. Stage(r, b, h, j, rs, clean, same)
    BY <1>4, QuietStage
  <2>2. r.at # 0 /\ r.at - 1 = j /\ r.at \in 1..j + 1
    BY <1>4
  <2> QED
    BY <1>4, <2>1, <2>2 DEF Reach
<1>5. CASE Etches(s, r, <<s.height, j>>, tx, <<s.height, j>>) /\ r.at = 0 /\ Names(tx) = {}
  <2>1. Named(s, h, j, tx, <<h, j>>)
    BY <1>5 DEF Named
  <2>2. Stage(r, b, h, j + 1, rs, clean, same)
    BY <1>1, <1>5, <2>1, EtchStage
  <2> QED
    BY <1>5, <2>2 DEF Reach
<1> QED
  BY <1>2, <1>3, <1>4, <1>5 DEF Indexes, r

LEMMA IndexTxsReach ==
  ASSUME NEW s0, NEW b, NEW h, NEW i \in Nat, NEW rs, NEW clean, NEW same, s0.at = 0,
         Site(b, h, rs), Stage(s0, b, h, i, rs, clean, same), i <= Len(Txs[b])
  PROVE  Reach(IndexTxs(s0, Txs[b], i), b, h, Len(Txs[b]), rs, clean, same)
<1> DEFINE n == Len(Txs[b])
<1>1. Txs[b] \in Seq(Tx) /\ n \in Nat /\ DOMAIN Txs[b] = 1..n
  BY LedgerAssumption DEF Site
<1>2. PICK acc : /\ acc[0] = s0 /\ IndexTxs(s0, Txs[b], i) = acc[n]
                 /\ \A j \in 1..n : acc[j] = IF j <= i \/ acc[j-1].at # 0 THEN acc[j-1]
                                             ELSE IndexTx(acc[j-1], j - 1, Txs[b][j])
  <2>1. Runs(s0, Txs[b], i)
    BY <1>1, IndexTxsRuns
  <2> QED
    BY <2>1 DEF Runs
<1> HIDE DEF n
<1> DEFINE P(j) == /\ j <= i => acc[j] = s0
                   /\ i <= j => Reach(acc[j], b, h, j, rs, clean, same)
<1>3. Reach(s0, b, h, i, rs, clean, same)
  BY DEF Reach
<1>4. P(0)
  <2>1. i <= 0 => i = 0
    OBVIOUS
  <2> QED
    BY <1>2, <1>3, <2>1
<1>5. ASSUME NEW j \in Nat, j + 1 <= n, P(j) PROVE P(j + 1)
  <2>1. acc[j + 1] = IF j + 1 <= i \/ acc[j].at # 0 THEN acc[j]
                     ELSE IndexTx(acc[j], j, Txs[b][j + 1])
    <3>1. j + 1 \in 1..n /\ (j + 1) - 1 = j
      BY <1>1, <1>5
    <3> QED
      BY <1>2, <3>1
  <2>2. CASE j + 1 <= i
    <3>1. acc[j + 1] = s0
      BY <1>5, <2>1, <2>2
    <3>2. i <= j + 1 => j + 1 = i
      BY <2>2
    <3> QED
      BY <1>3, <3>1, <3>2
  <2>3. CASE ~ (j + 1 <= i)
    <3>1. i <= j /\ Reach(acc[j], b, h, j, rs, clean, same)
      BY <1>5, <2>3
    <3>2. CASE acc[j].at # 0
      <4>1. acc[j + 1] = acc[j] /\ acc[j].at \in 1..j + 1
        BY <2>1, <3>1, <3>2 DEF Reach
      <4> QED
        BY <2>3, <3>1, <3>2, <4>1 DEF Reach
    <3>3. CASE acc[j].at = 0
      <4>1. Stage(acc[j], b, h, j, rs, clean, same)
        BY <3>1, <3>3 DEF Reach
      <4>2. j + 1 \in DOMAIN Txs[b]
        BY <1>1, <1>5
      <4>3. Reach(IndexTx(acc[j], j, Txs[b][j + 1]), b, h, j + 1, rs, clean, same)
        BY <3>3, <4>1, <4>2, OneMore
      <4> QED
        BY <2>1, <2>3, <3>3, <4>3
    <3> QED
      BY <3>2, <3>3
  <2> QED
    BY <2>2, <2>3
<1>6. P(n)
  <2> DEFINE T == {j \in Nat : j <= n /\ ~ P(j)}
  <2> HIDE DEF P
  <2> SUFFICES ASSUME T # {} PROVE FALSE
    BY <1>1
  <2>1. T \subseteq Nat
    OBVIOUS
  <2>2. PICK x \in T : \A y \in T : ~ (y < x)
    <3> HIDE DEF T
    <3> QED
      BY <2>1, TxFold!LeastNatural
  <2>3. x \in Nat /\ x <= n /\ ~ P(x) /\ x # 0
    BY <1>4, <2>2
  <2>4. x - 1 \in Nat /\ x - 1 <= n /\ (x - 1) + 1 = x /\ x - 1 < x
    BY <1>1, <2>3
  <2>5. P(x - 1)
    BY <2>2, <2>4
  <2>6. P((x - 1) + 1)
    BY <1>5, <2>3, <2>4, <2>5
  <2> QED
    BY <2>3, <2>4, <2>6
<1> QED
  BY <1>1, <1>2, <1>6 DEF n

LEMMA ContinueReach ==
  ASSUME NEW s, NEW b, NEW h, NEW rs, NEW clean, NEW same, Site(b, h, rs),
         s.at # 0, Reach(s, b, h, Len(Txs[b]), rs, clean, same)
  PROVE  Reach(Continue(s, Txs[b]), b, h, Len(Txs[b]), rs, clean, same)
<1> DEFINE n == Len(Txs[b])
           i == s.at - 1
           tx == Txs[b][s.at]
           rune == IF Commitment[tx] = "yes" THEN Names(tx) ELSE {}
           r == FinishTx(s, i, tx, rune)
<1>1. Txs[b] \in Seq(Tx) /\ n \in Nat /\ DOMAIN Txs[b] = 1..n
  BY LedgerAssumption DEF Site
<1>2. /\ s.at \in 1..n /\ Stage(s, b, h, i, rs, clean, same)
      /\ Names(tx) \cap DOMAIN s.t.ids = {}
  BY DEF Reach
<1>3. i \in Nat /\ i + 1 = s.at /\ i + 1 \in DOMAIN Txs[b] /\ s.at \in Nat /\ s.at <= n
  BY <1>1, <1>2
<1>4. Shaped(s) /\ s.height = h
  BY <1>2 DEF Stage, Working
<1>5. Continue(s, Txs[b]) = IndexTxs(r, Txs[b], s.at)
  BY DEF Continue
<1>6. /\ r.at = 0
      /\ rune = {} => Quiet(s, r)
      /\ rune # {} => \E nm \in rune : Etches(s, r, <<h, i>>, tx, nm)
  BY <1>4, FinishMoves
<1>7. rune \subseteq Names(tx)
  OBVIOUS
<1> HIDE DEF rune, r, i, n
<1>8. Stage(r, b, h, i + 1, rs, clean, same)
  <2>1. CASE rune = {}
    BY <1>2, <1>3, <1>6, <2>1, QuietStage
  <2>2. CASE rune # {}
    <3>1. PICK nm \in rune : Etches(s, r, <<h, i>>, tx, nm)
      BY <1>6, <2>2
    <3>2. Named(s, h, i, tx, nm)
      BY <1>2, <1>7 DEF Named
    <3>3. tx = Txs[b][i + 1]
      BY <1>3
    <3> HIDE DEF tx
    <3> QED
      BY <1>2, <1>3, <3>1, <3>2, <3>3, EtchStage
  <2> QED
    BY <2>1, <2>2
<1>9. Reach(IndexTxs(r, Txs[b], s.at), b, h, Len(Txs[b]), rs, clean, same)
  BY <1>3, <1>6, <1>8, IndexTxsReach DEF n
<1> QED
  BY <1>5, <1>9

-----------------------------------------------------------------------------
(* A block is begun.                                                       *)

LEMMA LastRowIs ==
  ASSUME NEW m, NEW lo \in Int, NEW hi \in Int, lo <= hi, DOMAIN m = lo..hi
  PROVE  LastRow(m) = m[hi]
<1>1. Max(DOMAIN m) = hi /\ DOMAIN m # {}
  BY MaxOfInterval
<1> QED
  BY <1>1 DEF LastRow

LEMMA StartedFields ==
  ASSUME NEW t, NEW h, ShapedTables(t)
  PROVE  LET s == Started(t, h) IN
         /\ Shaped(s) /\ s.height = h /\ s.at = 0 /\ s.runes = LastRow(t.runes)
         /\ s.t.runes = Put(t.runes, h, LastRow(t.runes))
         /\ Lasting(s.t) = Lasting(t) /\ s.t.ids = t.ids /\ s.t.etchings = t.etchings
         /\ s.record.etched = {} /\ DOMAIN s.record.mints = {} /\ DOMAIN s.record.burned = {}
BY DEF Started, NoRecord, EmptyMap, Shaped, ShapedTables, Lasting, TableFields, RecordFields,
       UpdaterFields

(***************************************************************************)
(* With n for the count so far, taken from the highest row.                *)
(***************************************************************************)
LEMMA StartRows ==
  ASSUME NEW rows, NEW L, NEW clean, NEW h \in Nat, NEW n \in Nat, Rows(rows, L, clean),
         \A id \in DOMAIN L : L[id].number < n,
         clean => \A k \in 0..n - 1 : \E id \in DOMAIN L : id[1] <= h /\ L[id].number = k
  PROVE  Rows(Put(rows, h, n), L, clean)
<1> DEFINE new == Put(rows, h, n)
<1>1. /\ DOMAIN new = DOMAIN rows \cup {h} /\ new[h] = n
      /\ \A k \in DOMAIN rows : k # h => new[k] = rows[k]
  BY DEF Put
<1> HIDE DEF new
<1>2. ASSUME NEW k \in DOMAIN new
      PROVE  /\ new[k] \in Nat
             /\ \A id \in DOMAIN L : id[1] <= k => L[id].number < new[k]
             /\ clean => \A j \in 0..new[k] - 1 :
                           \E id \in DOMAIN L : id[1] <= k /\ L[id].number = j
  <2>1. CASE k = h
    BY <1>1, <2>1
  <2>2. CASE k # h
    <3>1. k \in DOMAIN rows /\ new[k] = rows[k]
      BY <1>1, <1>2, <2>2
    <3> QED
      BY <3>1 DEF Rows
  <2> QED
    BY <2>1, <2>2
<1>3. Rows(new, L, clean)
  BY <1>2 DEF Rows
<1> QED
  BY <1>3 DEF new

(* Block b at height h can be begun with tables t and the count n.         *)
Ready(t, b, h, n, rs, rows, c, clean, same) ==
  /\ Rest(t, h, rows, rs, c, clean, same) /\ rows \cup {h} = DOMAIN rs \cup {h}
  /\ LastRow(t.runes) = n
  /\ \A id \in DOMAIN Lasting(t) : Lasting(t)[id].number < n
  /\ clean => /\ \A id \in DOMAIN Lasting(t) : id[1] # h
              /\ \A k \in 0..n - 1 : \E id \in DOMAIN Lasting(t) :
                   id[1] <= h /\ Lasting(t)[id].number = k
  /\ clean \/ same => InPlace(Lasting(t), ChainTo[b])

LEMMA StartStage ==
  ASSUME NEW t, NEW b, NEW h \in Nat, NEW n \in Nat, NEW rs, NEW rows, NEW c, NEW clean, NEW same,
         Ready(t, b, h, n, rs, rows, c, clean, same)
  PROVE  Stage(Started(t, h), b, h, 0, rs, clean, same) /\ Started(t, h).at = 0
<1> DEFINE s == Started(t, h)
           L == Lasting(t)
<1>1. /\ Shaped(s) /\ s.height = h /\ s.at = 0 /\ s.runes = n
      /\ s.t.runes = Put(t.runes, h, n)
      /\ Lasting(s.t) = L /\ s.t.ids = t.ids /\ s.t.etchings = t.etchings
      /\ s.record.etched = {} /\ DOMAIN s.record.mints = {} /\ DOMAIN s.record.burned = {}
  BY StartedFields DEF Rest, Ready
<1> HIDE DEF s, L
<1>2. Working(s, h, clean)
  BY <1>1 DEF Working, RecordFits, Lists, Rest, L, Ready
<1>3. Counting(s, h, 0, clean)
  <2>1. Rows(Put(t.runes, h, n), L, clean)
    BY StartRows DEF Rest, L, Ready
  <2>2. h \in DOMAIN s.t.runes /\ s.t.runes[h] = n
    BY <1>1 DEF Put
  <2> QED
    BY <1>1, <2>1, <2>2 DEF Counting, L, Ready
<1>4. DOMAIN s.t.runes = DOMAIN rs \cup {h}
  BY <1>1 DEF Rest, Put, Ready
<1>5. Recorded(rs, L, clean)
  BY DEF Rest, L, Ready
<1>6. clean \/ same => Placed(s, b, clean) /\ (clean => Listed(rs, L))
  BY <1>1 DEF Rest, L, Placed, EtchedFits, Ready
<1> QED
  BY <1>1, <1>2, <1>3, <1>4, <1>5, <1>6 DEF Stage, s

-----------------------------------------------------------------------------
(* The window of heights.                                                  *)

LEMMA WindowFacts ==
  ASSUME Window
  PROVE  /\ NextHeight \in Nat /\ FirstHeight \in Nat /\ FirstHeight >= 1
         /\ FirstHeight <= NextHeight
         /\ \A k \in DOMAIN records : k \in Nat /\ k < NextHeight
         /\ DOMAIN headers = {} => NextHeight = FirstHeight /\ Latest = NoBlock
         /\ DOMAIN headers # {} =>
              /\ Top \in DOMAIN headers /\ Top \in Nat /\ NextHeight = Top + 1
              /\ Latest = headers[Top]
              /\ \E lo \in DOMAIN headers : FirstHeight <= lo /\ DOMAIN headers = lo..Top
<1>1. FirstHeight \in Nat /\ FirstHeight >= 1
  BY LedgerAssumption
<1>2. CASE DOMAIN headers = {}
  <2>1. NextHeight = FirstHeight /\ Latest = NoBlock /\ DOMAIN records = {}
    BY <1>2 DEF Window, NextHeight, Latest
  <2> QED
    BY <1>1, <1>2, <2>1
<1>3. CASE DOMAIN headers # {}
  <2>1. PICK lo, hi \in DOMAIN headers : FirstHeight <= lo /\ DOMAIN headers = lo..hi
    BY <1>3 DEF Window
  <2>2. lo \in Nat /\ hi \in Nat /\ lo <= hi /\ DOMAIN records = lo..hi
    BY <2>1 DEF Window
  <2>3. Top = hi
    BY <2>1, <2>2, MaxOfInterval DEF Top
  <2>4. headers # EmptyMap
    <3>1. DOMAIN EmptyMap = {}
      BY DEF EmptyMap
    <3> QED
      BY <1>3, <3>1
  <2>5. NextHeight = hi + 1 /\ Latest = headers[hi]
    BY <2>3, <2>4 DEF NextHeight, Latest
  <2> HIDE DEF Top, NextHeight, Latest
  <2> QED
    BY <1>1, <1>3, <2>1, <2>2, <2>3, <2>5
<1> QED
  BY <1>2, <1>3

LEMMA ChainNext ==
  ASSUME Window, OneChain, NEW b \in Block, Parent[b] = Latest
  PROVE  /\ Indexed \in Seq(Block) /\ Len(Indexed) = NextHeight - FirstHeight
         /\ ChainTo[b] = Append(Indexed, b)
         /\ Len(ChainTo[b]) = NextHeight - FirstHeight + 1
         /\ \A i \in 1..Len(Indexed) : ChainTo[b][i] = Indexed[i]
<1>1. CASE DOMAIN headers = {}
  <2>1. Indexed = <<>> /\ NextHeight = FirstHeight /\ FirstHeight \in Nat /\ ChainTo[b] = <<b>>
    BY <1>1, WindowFacts, ChainEnds DEF Indexed
  <2> QED
    BY <2>1
<1>2. CASE DOMAIN headers # {}
  <2>1. Latest \in Block /\ Len(ChainTo[Latest]) = Top - FirstHeight + 1
    BY <1>2, WindowFacts DEF OneChain
  <2>2. Indexed = ChainTo[Latest] /\ NextHeight = Top + 1 /\ Top \in Nat /\ FirstHeight \in Nat
    BY <1>2, <2>1, WindowFacts, LedgerAssumption DEF Indexed
  <2>3. ChainTo[b] = Append(Indexed, b) /\ Indexed \in Seq(Block)
    BY <2>1, <2>2, ChainEnds, LedgerAssumption
  <2> HIDE DEF Indexed, NextHeight, Top, Latest
  <2> QED
    BY <2>1, <2>2, <2>3
<1> QED
  BY <1>1, <1>2

LEMMA SiteHere ==
  ASSUME Window, OneChain, NEW b \in Block, Parent[b] = Latest
  PROVE  Site(b, NextHeight, records)
BY WindowFacts, ChainNext DEF Site

LEMMA Begun ==
  ASSUME LedgerInv, block = NoBlock, NEW b \in Block, Parent[b] = Latest,
         NEW same, same => SameTip /\ tried \in {NoBlock, b}
  PROVE  /\ Stage(Started(tables, NextHeight), b, NextHeight, 0, records, cutOffs = 0, same)
         /\ Started(tables, NextHeight).at = 0
<1> DEFINE h == NextHeight
           L == Lasting(tables)
<1>1. /\ h \in Nat /\ FirstHeight \in Nat /\ FirstHeight <= h
      /\ DOMAIN records = DOMAIN headers
      /\ DOMAIN headers = {} => h = FirstHeight
      /\ DOMAIN headers # {} =>
           \E lo \in DOMAIN headers : lo \in Nat /\ lo <= h - 1 /\ DOMAIN headers = lo..(h - 1)
  BY WindowFacts DEF LedgerInv, Window
<1>2. /\ ChainTo[b] = Append(Indexed, b) /\ Indexed \in Seq(Block)
      /\ \A i \in 1..Len(Indexed) : ChainTo[b][i] = Indexed[i]
      /\ Len(ChainTo[b]) = Len(Indexed) + 1
  BY ChainNext DEF LedgerInv
<1> HIDE DEF h
<1>3. CASE tried = NoBlock
  <2>1. Rest(tables, h - 1, DOMAIN records, records, Indexed, cutOffs = 0, SameTip)
    BY <1>3 DEF LedgerInv, Resting, h
  <2>2. Known(L, h - 1) /\ Rows(tables.runes, L, cutOffs = 0) /\ DOMAIN tables.runes = DOMAIN headers
    BY <1>1, <2>1 DEF Rest
  <2>3. \A id \in DOMAIN L : id \in Nat \X Nat /\ id[1] \in Nat /\ id[1] <= h - 1 /\ FirstHeight <= id[1]
    BY <2>2 DEF Known
  <2>4. cutOffs = 0 \/ same => InPlace(L, Indexed)
    BY <2>1 DEF Rest
  <2> HIDE DEF L
  <2>5. cutOffs = 0 \/ same => InPlace(L, ChainTo[b])
    BY <1>2, <2>4 DEF InPlace
  <2>6. Known(L, h)
    BY <1>1, <2>2, <2>3 DEF Known
  <2>7. Rest(tables, h, DOMAIN records, records, Indexed, cutOffs = 0, same)
    BY <2>1, <2>6 DEF Rest, L
  <2>8. \E n \in Nat :
          /\ LastRow(tables.runes) = n
          /\ \A id \in DOMAIN L : L[id].number < n
          /\ cutOffs = 0 => \A k \in 0..n - 1 :
               \E id \in DOMAIN L : id[1] <= h /\ L[id].number = k
    <3>1. CASE DOMAIN headers = {}
      <4>1. LastRow(tables.runes) = 0
        BY <2>2, <3>1 DEF LastRow
      <4>2. DOMAIN L = {}
        <5> SUFFICES ASSUME NEW id \in DOMAIN L PROVE FALSE
          OBVIOUS
        <5>1. id[1] \in Nat /\ id[1] <= h - 1 /\ h <= id[1]
          BY <1>1, <2>3, <3>1
        <5> QED
          BY <1>1, <5>1
      <4> QED
        BY <4>1, <4>2
    <3>2. CASE DOMAIN headers # {}
      <4>1. PICK lo \in Nat : lo <= h - 1 /\ DOMAIN headers = lo..(h - 1)
        BY <1>1, <3>2
      <4> DEFINE n == tables.runes[h - 1]
      <4>2. LastRow(tables.runes) = n /\ h - 1 \in DOMAIN tables.runes
        BY <1>1, <2>2, <4>1, LastRowIs
      <4>3. n \in Nat /\ (\A id \in DOMAIN L : L[id].number < n)
        BY <2>2, <2>3, <4>2 DEF Rows
      <4>4. cutOffs = 0 => \A k \in 0..n - 1 :
               \E id \in DOMAIN L : id[1] <= h - 1 /\ L[id].number = k
        BY <2>2, <4>2 DEF Rows
      <4>5. \A id \in DOMAIN L : id[1] <= h
        BY <1>1, <2>3
      <4> HIDE DEF n
      <4> QED
        BY <4>2, <4>3, <4>4, <4>5
    <3> QED
      BY <3>1, <3>2
  <2>9. \A id \in DOMAIN L : id[1] # h
    BY <1>1, <2>3
  <2> QED
    <3>1. PICK n \in Nat : /\ LastRow(tables.runes) = n
                           /\ \A id \in DOMAIN L : L[id].number < n
                           /\ cutOffs = 0 => \A k \in 0..n - 1 :
                                \E id \in DOMAIN L : id[1] <= h /\ L[id].number = k
      BY <2>8
    <3>2. DOMAIN records \cup {h} = DOMAIN records \cup {h}
      OBVIOUS
    <3>3. Ready(tables, b, h, n, records, DOMAIN records, Indexed, cutOffs = 0, same)
      BY <2>5, <2>7, <2>9, <3>1, <3>2 DEF Ready, L
    <3>4. Stage(Started(tables, h), b, h, 0, records, cutOffs = 0, same) /\ Started(tables, h).at = 0
      BY <1>1, <3>3, StartStage
    <3> QED
      BY <3>4 DEF h
<1>4. CASE tried # NoBlock
  <2>1. Rest(tables, h, DOMAIN records \cup {h}, records, ChainTo[tried], FALSE, SameTip)
    BY <1>4 DEF LedgerInv, Resting, h
  <2>2. cutOffs # 0
    BY <1>4 DEF LedgerInv, Progress
  <2>3. cutOffs = 0 \/ same => InPlace(L, ChainTo[b])
    <3> SUFFICES ASSUME same PROVE InPlace(L, ChainTo[b])
      BY <2>2
    <3>1. tried = b
      BY <1>4
    <3>2. InPlace(L, ChainTo[tried])
      BY <2>1 DEF Rest
    <3> QED
      BY <3>1, <3>2
  <2>4. /\ Known(L, h) /\ Rows(tables.runes, L, FALSE)
        /\ DOMAIN tables.runes = DOMAIN headers \cup {h}
    BY <1>1, <2>1 DEF Rest
  <2> HIDE DEF L
  <2> DEFINE n == tables.runes[h]
  <2>5. LastRow(tables.runes) = n
    <3>1. PICK lo \in Nat : lo <= h /\ DOMAIN tables.runes = lo..h
      <4>1. CASE DOMAIN headers = {}
        <5>1. DOMAIN tables.runes = h..h
          BY <1>1, <2>4, <4>1
        <5> QED
          BY <1>1, <5>1
      <4>2. CASE DOMAIN headers # {}
        <5>1. PICK lo \in Nat : lo <= h - 1 /\ DOMAIN headers = lo..(h - 1)
          BY <1>1, <4>2
        <5>2. DOMAIN tables.runes = lo..h /\ lo <= h
          BY <1>1, <2>4, <5>1
        <5> QED
          BY <5>2
      <4> QED
        BY <4>1, <4>2
    <3> QED
      BY <1>1, <3>1, LastRowIs
  <2>6. n \in Nat /\ \A id \in DOMAIN L : L[id].number < n
    BY <2>4 DEF Rows, Known
  <2>7. Rest(tables, h, DOMAIN records \cup {h}, records, ChainTo[tried], cutOffs = 0, same)
    BY <2>1, <2>2 DEF Rest
  <2> HIDE DEF n
  <2> QED
    <3>1. (DOMAIN records \cup {h}) \cup {h} = DOMAIN records \cup {h}
      OBVIOUS
    <3>2. Ready(tables, b, h, n, records, DOMAIN records \cup {h}, ChainTo[tried],
                cutOffs = 0, same)
      BY <2>2, <2>3, <2>5, <2>6, <2>7, <3>1 DEF Ready, L
    <3>3. Stage(Started(tables, h), b, h, 0, records, cutOffs = 0, same) /\ Started(tables, h).at = 0
      BY <1>1, <2>6, <3>2, StartStage
    <3> QED
      BY <3>3 DEF h
<1> QED
  BY <1>3, <1>4

-----------------------------------------------------------------------------
(* The steps of the ledger.                                                *)

LEMMA SavedUpdater ==
  ASSUME NEW s, Shaped(s)
  PROVE  LET r == Put(Apart(s), "t", s.t) IN
         Quiet(s, r) /\ r.at = s.at /\ r.t = s.t
<1> DEFINE r == Put(Apart(s), "t", s.t)
<1>1. DOMAIN s = UpdaterFields \cup {"t"}
  BY DEF Shaped
<1>2. DOMAIN Apart(s) = UpdaterFields /\ \A k \in UpdaterFields : Apart(s)[k] = s[k]
  BY <1>1 DEF Apart, Except, UpdaterFields
<1>3. DOMAIN r = UpdaterFields \cup {"t"} /\ r.t = s.t /\ \A k \in UpdaterFields : r[k] = s[k]
  BY <1>2 DEF Put, UpdaterFields
<1> HIDE DEF r
<1>4. r.height = s.height /\ r.runes = s.runes /\ r.record = s.record /\ r.at = s.at
  BY <1>3 DEF UpdaterFields
<1>5. Quiet(s, r)
  BY <1>3, <1>4 DEF Quiet, Shaped
<1> QED
  BY <1>3, <1>4, <1>5 DEF r

LEMMA SuspendedStep ==
  ASSUME Window, OneChain, Progress, NEW b \in Block, Parent[b] = Latest, NEW s,
         Reach(s, b, NextHeight, Len(Txs[b]), records, cutOffs = 0, SameTip'), Suspended(b, s)
  PROVE  LedgerInv'
<1> DEFINE r == Put(Apart(s), "t", s.t)
<1>1. /\ s.at # 0 /\ tables' = s.t /\ block' = b /\ updater' = Apart(s)
      /\ UNCHANGED <<records, headers, cutOffs, tried>>
  BY DEF Suspended
<1>2. Window' /\ OneChain' /\ NextHeight' = NextHeight /\ Latest' = Latest
  BY <1>1 DEF Window, OneChain, NextHeight, Latest, Top, Indexed
<1>3. Progress'
  BY <1>1 DEF Progress
<1>4. Joined' = r
  BY <1>1 DEF Joined
<1>5. PICK n \in Nat : /\ Stage(s, b, NextHeight, n, records, cutOffs = 0, SameTip')
                       /\ s.at - 1 = n /\ s.at \in 1..Len(Txs[b])
  BY <1>1 DEF Reach
<1>6. Shaped(s)
  BY <1>5 DEF Stage, Working
<1>7. Quiet(s, r) /\ r.at = s.at /\ r.t = s.t
  BY <1>6, SavedUpdater
<1> HIDE DEF r
<1>8. Reach(r, b, NextHeight, Len(Txs[b]), records, cutOffs = 0, SameTip')
  <2>1. Stage(r, b, NextHeight, n, records, cutOffs = 0, SameTip')
    BY <1>5, <1>7, QuietStage
  <2> QED
    BY <1>1, <1>5, <1>7, <2>1 DEF Reach
<1>9. Busy'
  BY <1>1, <1>2, <1>4, <1>7, <1>8 DEF Busy
<1>10. block' # NoBlock
  BY <1>1, LedgerAssumption
<1> QED
  BY <1>2, <1>3, <1>9, <1>10 DEF LedgerInv

LEMMA UpdatedFields ==
  ASSUME NEW s, Shaped(s), Burnable(s)
  PROVE  LET r == Updated(s) IN
         /\ Shaped(r) /\ Lasting(r.t) = Lasting(s.t) /\ r.height = s.height
         /\ r.t.ids = s.t.ids /\ r.t.etchings = s.t.etchings /\ r.t.runes = s.t.runes
         /\ r.record.etched = s.record.etched /\ r.record.mints = s.record.mints
         /\ DOMAIN r.record.burned \subseteq DOMAIN Lasting(s.t)
<1> DEFINE r == Updated(s)
<1>1. /\ DOMAIN r = DOMAIN s /\ DOMAIN r.t = DOMAIN s.t /\ DOMAIN r.record = DOMAIN s.record
      /\ r.height = s.height
      /\ r.t.ids = s.t.ids /\ r.t.etchings = s.t.etchings /\ r.t.runes = s.t.runes
      /\ r.record.etched = s.record.etched /\ r.record.mints = s.record.mints
      /\ DOMAIN r.record.burned = DOMAIN s.burned
  BY DEF Shaped, Updated, ShapedTables, TableFields, RecordFields, UpdaterFields
<1>2. r.t.entries = [id \in DOMAIN s.t.entries |->
                       IF id \in DOMAIN s.burned
                       THEN [s.t.entries[id] EXCEPT !.burned = s.t.entries[id].burned + s.burned[id]]
                       ELSE s.t.entries[id]]
  <2> DEFINE u(id) == IF id \in DOMAIN s.burned
                      THEN [s.t.entries[id] EXCEPT !.burned = s.t.entries[id].burned + s.burned[id]]
                      ELSE s.t.entries[id]
  <2>1. r = [s EXCEPT !.t.entries = [id \in DOMAIN s.t.entries |-> u(id)],
                      !.record.burned = [id \in DOMAIN s.burned |-> s.t.entries[id].burned]]
    BY DEF Updated
  <2> HIDE DEF u, r
  <2>2. r.t.entries = [id \in DOMAIN s.t.entries |-> u(id)]
    BY <2>1 DEF Shaped, ShapedTables, TableFields, UpdaterFields
  <2> QED
    BY <2>2 DEF u
<1> HIDE DEF r
<1>3. /\ DOMAIN r.t.entries = DOMAIN s.t.entries
      /\ \A id \in DOMAIN s.t.entries :
           LET e == r.t.entries[id] IN
           /\ DOMAIN e = EntryFields
           /\ e.block = s.t.entries[id].block /\ e.tx = s.t.entries[id].tx
           /\ e.rune = s.t.entries[id].rune /\ e.number = s.t.entries[id].number
  BY <1>2 DEF Shaped, ShapedTables, EntryFields
<1>4. Shaped(r) /\ Lasting(r.t) = Lasting(s.t)
  BY <1>1, <1>3 DEF Shaped, ShapedTables, Lasting
<1>5. DOMAIN r.record.burned \subseteq DOMAIN Lasting(s.t)
  BY <1>1 DEF Burnable, Lasting
<1> QED
  BY <1>1, <1>4, <1>5 DEF r

LEMMA PrunedFields ==
  ASSUME NEW t, NEW h, ShapedTables(t)
  PROVE  LET u == PrunedTables(t, h) IN
         /\ ShapedTables(u) /\ Lasting(u) = Lasting(t)
         /\ u.ids = t.ids /\ u.etchings = t.etchings /\ u.runes = Pruned(t.runes, h)
BY DEF ShapedTables, PrunedTables, Lasting, TableFields

(***************************************************************************)
(* The window after block b: it has moved by one.                          *)
(***************************************************************************)
LEMMA WindowMoves ==
  ASSUME Window, NEW h, h = NextHeight, NEW b \in Block, NEW record,
         headers' = Put(Pruned(headers, h), h, b),
         records' = Pruned(Put(records, h, record), h)
  PROVE  /\ Window' /\ NextHeight' = h + 1 /\ Latest' = b /\ Top' = h
         /\ DOMAIN headers' = {k \in DOMAIN headers \cup {h} : k > h - MaxDepth}
         /\ headers'[h] = b
         /\ \A k \in DOMAIN headers' : k # h => k \in DOMAIN headers /\ headers'[k] = headers[k]
         /\ records'[h] = record
         /\ \A k \in DOMAIN records' : k # h => k \in DOMAIN records /\ records'[k] = records[k]
<1>1. /\ h \in Nat /\ FirstHeight \in Nat /\ FirstHeight >= 1 /\ FirstHeight <= h
      /\ MaxDepth \in Nat /\ MaxDepth >= 2 /\ DOMAIN records = DOMAIN headers
      /\ DOMAIN headers = {} => h = FirstHeight
      /\ DOMAIN headers # {} =>
           \E lo \in DOMAIN headers : /\ lo \in Nat /\ lo <= h - 1 /\ FirstHeight <= lo
                                      /\ DOMAIN headers = lo..(h - 1)
  <2>1. DOMAIN headers # {} => \E lo \in DOMAIN headers :
          FirstHeight <= lo /\ DOMAIN headers = lo..(h - 1) /\ h - 1 \in DOMAIN headers
    BY WindowFacts
  <2>2. DOMAIN headers \subseteq Nat /\ DOMAIN records = DOMAIN headers
    BY DEF Window
  <2> QED
    BY <2>1, <2>2, WindowFacts, LedgerAssumption
<1>2. h > h - MaxDepth
  BY <1>1
<1>3. /\ DOMAIN headers' = {k \in DOMAIN headers \cup {h} : k > h - MaxDepth}
      /\ headers'[h] = b
      /\ \A k \in DOMAIN headers' : k # h => k \in DOMAIN headers /\ headers'[k] = headers[k]
  BY <1>2 DEF Put, Pruned
<1>4. /\ DOMAIN records' = {k \in DOMAIN records \cup {h} : k > h - MaxDepth}
      /\ records'[h] = record
      /\ \A k \in DOMAIN records' : k # h => k \in DOMAIN records /\ records'[k] = records[k]
  BY <1>2 DEF Put, Pruned
<1>5. \E lo \in DOMAIN headers' : /\ lo \in Nat /\ lo <= h /\ FirstHeight <= lo
                                  /\ DOMAIN headers' = lo..h
  <2>1. CASE DOMAIN headers = {}
    <3>1. DOMAIN headers' = {h}
      BY <1>2, <1>3, <2>1
    <3>2. {h} = h..h
      BY <1>1
    <3> QED
      BY <1>1, <3>1, <3>2
  <2>2. CASE DOMAIN headers # {}
    <3>1. PICK lo \in Nat : lo <= h - 1 /\ FirstHeight <= lo /\ DOMAIN headers = lo..(h - 1)
      BY <1>1, <2>2
    <3> DEFINE low == IF lo > h - MaxDepth THEN lo ELSE h - MaxDepth + 1
    <3>2. low \in Nat /\ low <= h /\ FirstHeight <= low
      BY <1>1, <3>1
    <3>3. DOMAIN headers' = low..h
      BY <1>1, <1>3, <3>1
    <3>4. low \in DOMAIN headers'
      <4> HIDE DEF low
      <4> QED
        BY <1>1, <3>2, <3>3
    <3> HIDE DEF low
    <3> QED
      BY <3>2, <3>3, <3>4
  <2> QED
    BY <2>1, <2>2
<1>6. h \in DOMAIN headers' /\ DOMAIN headers' \subseteq Nat /\ DOMAIN records' = DOMAIN headers'
  BY <1>1, <1>2, <1>3, <1>4 DEF Window
<1>7. Window'
  BY <1>5, <1>6 DEF Window
<1>8. Top' = h
  BY <1>1, <1>5, MaxOfInterval DEF Top
<1>9. headers' # EmptyMap
  <2>1. DOMAIN EmptyMap = {}
    BY DEF EmptyMap
  <2> QED
    BY <1>6, <2>1
<1>10. NextHeight' = h + 1 /\ Latest' = b
  BY <1>3, <1>8, <1>9 DEF NextHeight, Latest
<1> QED
  BY <1>3, <1>4, <1>7, <1>8, <1>10

LEMMA DoneStep ==
  ASSUME Window, OneChain, Progress, NEW b \in Block, Parent[b] = Latest, NEW s,
         Reach(s, b, NextHeight, Len(Txs[b]), records, cutOffs = 0, SameTip'), Done(s, b)
  PROVE  LedgerInv'
<1> DEFINE r == Updated(s)
           h == NextHeight
           L == Lasting(s.t)
           clean == cutOffs = 0
           same == SameTip'
<1>1. s.at = 0 /\ Stage(s, b, h, Len(Txs[b]), records, clean, same) /\ Burnable(s)
  BY DEF Done, Reach
<1>2. Shaped(s) /\ s.height = h
  BY <1>1 DEF Stage, Working
<1>3. /\ Shaped(r) /\ Lasting(r.t) = L /\ r.height = h
      /\ r.t.ids = s.t.ids /\ r.t.etchings = s.t.etchings /\ r.t.runes = s.t.runes
      /\ r.record.etched = s.record.etched /\ r.record.mints = s.record.mints
      /\ DOMAIN r.record.burned \subseteq DOMAIN L
  BY <1>1, <1>2, UpdatedFields
<1>4. /\ tables' = PrunedTables(r.t, h)
      /\ records' = Pruned(Put(records, h, r.record), h)
      /\ headers' = Put(Pruned(headers, h), h, b)
      /\ block' = NoBlock /\ tried' = NoBlock /\ cutOffs' = cutOffs
  BY <1>3 DEF Done
<1> HIDE DEF r
<1>5. /\ Window' /\ NextHeight' = h + 1 /\ Latest' = b /\ Top' = h
      /\ DOMAIN headers' = {k \in DOMAIN headers \cup {h} : k > h - MaxDepth}
      /\ headers'[h] = b
      /\ \A k \in DOMAIN headers' : k # h => k \in DOMAIN headers /\ headers'[k] = headers[k]
      /\ records'[h] = r.record
      /\ \A k \in DOMAIN records' : k # h => k \in DOMAIN records /\ records'[k] = records[k]
  BY <1>4, WindowMoves
<1>6. /\ h \in Nat /\ DOMAIN records = DOMAIN headers /\ DOMAIN records' = DOMAIN headers'
      /\ FirstHeight \in Nat
  BY <1>5, WindowFacts DEF Window
<1>7. Indexed' = ChainTo[b]
  BY <1>5, LedgerAssumption DEF Indexed
<1> HIDE DEF h
<1>8. /\ Len(ChainTo[b]) = h - FirstHeight + 1
      /\ Len(Indexed) = h - FirstHeight
      /\ \A i \in 1..Len(Indexed) : ChainTo[b][i] = Indexed[i]
  BY ChainNext DEF h
<1>9. OneChain'
  <2> SUFFICES ASSUME NEW k \in DOMAIN headers'
               PROVE  /\ headers'[k] \in Block
                      /\ Len(ChainTo[headers'[k]]) = k - FirstHeight + 1
                      /\ \A i \in 1..(k - FirstHeight + 1) : ChainTo[headers'[k]][i] = Indexed'[i]
    BY DEF OneChain
  <2>1. CASE k = h
    BY <1>5, <1>7, <1>8, <2>1
  <2>2. CASE k # h
    <3>1. k \in DOMAIN headers /\ headers'[k] = headers[k] /\ k \in Nat /\ k < h
      BY <1>5, <1>6, <2>2, WindowFacts DEF h
    <3>2. /\ headers[k] \in Block
          /\ Len(ChainTo[headers[k]]) = k - FirstHeight + 1
          /\ \A i \in 1..(k - FirstHeight + 1) : ChainTo[headers[k]][i] = Indexed[i]
      BY <3>1 DEF OneChain
    <3>3. \A i \in 1..(k - FirstHeight + 1) : i \in 1..Len(Indexed)
      BY <1>6, <1>8, <3>1
    <3> QED
      BY <1>7, <1>8, <3>1, <3>2, <3>3
  <2> QED
    BY <2>1, <2>2
<1>10. Progress'
  BY <1>4 DEF Progress
<1>11. /\ ShapedTables(tables') /\ Lasting(tables') = L
       /\ tables'.ids = s.t.ids /\ tables'.etchings = s.t.etchings
       /\ tables'.runes = Pruned(s.t.runes, h)
  BY <1>3, <1>4, PrunedFields DEF Shaped
<1>12. /\ Known(L, h) /\ RecordFits(s.record, h, L) /\ (clean => Lists(s.record, h, L))
       /\ DOMAIN s.t.runes = DOMAIN records \cup {h} /\ Recorded(records, L, clean)
       /\ Rows(s.t.runes, L, clean)
       /\ clean \/ same => Agree(s.t.ids, s.t.etchings, L) /\ InPlace(L, ChainTo[b])
       /\ clean => Listed(records, L) /\ EtchedFits(s.record, L)
  BY <1>1 DEF Stage, Working, Counting, Placed
<1> HIDE DEF L, clean, same
<1>13. Recorded(records', L, clean)
  <2>1. RecordFits(r.record, h, L) /\ (clean => Lists(r.record, h, L))
    BY <1>3, <1>12 DEF RecordFits, Lists, Known
  <2> SUFFICES ASSUME NEW k \in DOMAIN records'
               PROVE  RecordFits(records'[k], k, L) /\ (clean => Lists(records'[k], k, L))
    BY DEF Recorded
  <2>2. CASE k = h
    BY <1>5, <2>1, <2>2
  <2>3. CASE k # h
    BY <1>5, <1>12, <2>3 DEF Recorded
  <2> QED
    BY <2>2, <2>3
<1>14. DOMAIN tables'.runes = DOMAIN records'
  BY <1>5, <1>6, <1>11, <1>12 DEF Pruned
<1>15. Rows(tables'.runes, L, clean)
  <2>1. \A k \in DOMAIN tables'.runes : k \in DOMAIN s.t.runes /\ tables'.runes[k] = s.t.runes[k]
    BY <1>11 DEF Pruned
  <2> QED
    BY <1>12, <2>1 DEF Rows
<1>16. clean => Listed(records', L)
  <2>1. clean => EtchedFits(r.record, L) /\ Listed(records, L)
    BY <1>3, <1>12 DEF EtchedFits
  <2> QED
    BY <1>5, <2>1 DEF Listed
<1>17. Rest(tables', h, DOMAIN records', records', ChainTo[b], clean, same)
  BY <1>11, <1>12, <1>13, <1>14, <1>15, <1>16 DEF Rest
<1>18. Resting'
  BY <1>4, <1>5, <1>6, <1>7, <1>17 DEF Resting, clean, same
<1> QED
  BY <1>4, <1>5, <1>9, <1>10, <1>18 DEF LedgerInv

LEMMA CutOffStep ==
  ASSUME LedgerInv, CutOff
  PROVE  LedgerInv'
<1> DEFINE h == NextHeight
           s == Joined
           L == Lasting(tables)
<1>1. /\ block # NoBlock /\ block' = NoBlock /\ tried' = block
      /\ cutOffs' = cutOffs + 1 /\ cutOffs < MaxCutOffs
      /\ UNCHANGED <<tables, records, headers, moved>>
  BY DEF CutOff
<1>2. Window' /\ OneChain' /\ NextHeight' = NextHeight
  BY <1>1 DEF LedgerInv, Window, OneChain, NextHeight, Latest, Top, Indexed
<1>3. cutOffs \in Nat /\ block \in Block /\ Progress'
  BY <1>1, LedgerAssumption DEF LedgerInv, Progress
<1>4. PICK n : Stage(s, block, h, n, records, cutOffs = 0, SameTip)
  BY <1>1 DEF LedgerInv, Busy, Reach
<1>5. s.t = tables
  BY DEF Joined, Put
<1>6. /\ Shaped(s) /\ Known(L, h) /\ DOMAIN tables.runes = DOMAIN records \cup {h}
      /\ Recorded(records, L, cutOffs = 0) /\ Rows(tables.runes, L, cutOffs = 0)
      /\ SameTip => Agree(tables.ids, tables.etchings, L) /\ InPlace(L, ChainTo[block])
  BY <1>4, <1>5 DEF Stage, Working, Counting, Placed
<1>7. Recorded(records, L, FALSE) /\ Rows(tables.runes, L, FALSE)
  BY <1>6 DEF Recorded, Rows
<1>8. ShapedTables(tables)
  BY <1>5, <1>6 DEF Shaped
<1>9. Rest(tables, h, DOMAIN records \cup {h}, records, ChainTo[block], FALSE, SameTip)
  BY <1>6, <1>7, <1>8 DEF Rest
<1> HIDE DEF h
<1>10. Rest(tables', h, DOMAIN records' \cup {h}, records', ChainTo[tried'], FALSE, SameTip')
  BY <1>1, <1>9 DEF SameTip
<1>11. Resting'
  BY <1>1, <1>2, <1>3, <1>10, LedgerAssumption DEF Resting, h
<1> QED
  BY <1>1, <1>2, <1>3, <1>11 DEF LedgerInv

(* Names, ids or transactions of the runes a change record lists.          *)
Etched(r, k) == {e[k] : e \in r.etched}

(***************************************************************************)
(* One height of a rollback: what is left is in order up to the next one.  *)
(***************************************************************************)
LEMMA UndoFields ==
  ASSUME NEW t, NEW r, NEW h, ShapedTables(t)
  PROVE  LET u == Undo(t, r, h) IN
         /\ ShapedTables(u)
         /\ Lasting(u) = Except(Lasting(t), Etched(r, 2))
         /\ u.ids = Except(t.ids, Etched(r, 1))
         /\ u.etchings = Except(t.etchings, Etched(r, 3))
         /\ u.runes = Except(t.runes, {h})
<1> DEFINE u == Undo(t, r, h)
           reset == [id \in DOMAIN t.entries |->
                      [t.entries[id] EXCEPT
                        !.burned = IF id \in DOMAIN r.burned THEN r.burned[id] ELSE @,
                        !.mints = IF id \in DOMAIN r.mints THEN r.mints[id] ELSE @]]
           gone == Etched(r, 2)
<1>1. /\ DOMAIN u = TableFields /\ u.entries = Except(reset, gone)
      /\ u.ids = Except(t.ids, Etched(r, 1))
      /\ u.etchings = Except(t.etchings, Etched(r, 3))
      /\ u.runes = Except(t.runes, {h})
  BY DEF Undo, TableFields, Etched
<1>2. /\ DOMAIN reset = DOMAIN t.entries
      /\ \A id \in DOMAIN t.entries :
           /\ DOMAIN reset[id] = EntryFields
           /\ reset[id].block = t.entries[id].block /\ reset[id].tx = t.entries[id].tx
           /\ reset[id].rune = t.entries[id].rune /\ reset[id].number = t.entries[id].number
  BY DEF ShapedTables, EntryFields
<1> HIDE DEF u, reset, gone
<1>3. /\ DOMAIN u.entries = DOMAIN t.entries \ gone
      /\ \A id \in DOMAIN u.entries : u.entries[id] = reset[id]
  BY <1>1, <1>2 DEF Except
<1>4. ShapedTables(u)
  BY <1>1, <1>2, <1>3 DEF ShapedTables
<1>5. Lasting(u) = Except(Lasting(t), gone)
  BY <1>2, <1>3 DEF Lasting, Except
<1> QED
  BY <1>1, <1>4, <1>5 DEF u, gone

LEMMA UndoRest ==
  ASSUME NEW t, NEW h \in Nat, NEW rs, NEW c, h \in DOMAIN rs,
         \A k \in DOMAIN rs : k \in Nat /\ k <= h,
         Rest(t, h, DOMAIN rs, rs, c, TRUE, TRUE)
  PROVE  Rest(Undo(t, rs[h], h), h - 1, DOMAIN rs \ {h}, Except(rs, {h}), c, TRUE, TRUE)
<1> DEFINE r == rs[h]
           u == Undo(t, r, h)
           qs == Except(rs, {h})
           L == Lasting(t)
           M == Lasting(u)
           gone == Etched(r, 2)
<1>1. /\ ShapedTables(t) /\ Known(L, h) /\ Recorded(rs, L, TRUE)
      /\ DOMAIN t.runes = DOMAIN rs /\ Rows(t.runes, L, TRUE)
      /\ Agree(t.ids, t.etchings, L) /\ InPlace(L, c) /\ Listed(rs, L)
  BY DEF Rest
<1>2. /\ ShapedTables(u) /\ M = Except(L, gone)
      /\ u.ids = Except(t.ids, Etched(r, 1))
      /\ u.etchings = Except(t.etchings, Etched(r, 3))
      /\ u.runes = Except(t.runes, {h})
  BY <1>1, UndoFields
<1>3. RecordFits(r, h, L) /\ Lists(r, h, L)
  BY <1>1 DEF Recorded
<1>4. \A id \in DOMAIN L : id \in Nat \X Nat /\ id[1] \in Nat /\ id[1] <= h
  BY <1>1 DEF Known
<1> HIDE DEF L
<1>5. \A id \in DOMAIN L : id \in gone <=> id[1] = h
  BY <1>3 DEF RecordFits, Lists, Etched
<1> HIDE DEF u, gone, M
<1>6. /\ \A id : id \in DOMAIN M <=> id \in DOMAIN L /\ id[1] # h
      /\ \A id \in DOMAIN M : M[id] = L[id] /\ id[1] \in Nat /\ id[1] <= h - 1
  BY <1>2, <1>4, <1>5 DEF Except
<1>7. Known(M, h - 1)
  BY <1>1, <1>6 DEF Known
<1>8. /\ DOMAIN qs = DOMAIN rs \ {h}
      /\ \A k \in DOMAIN qs : qs[k] = rs[k] /\ k \in Nat /\ k < h /\ k \in DOMAIN rs
  BY DEF Except
<1> HIDE DEF qs
<1>9. Recorded(qs, M, TRUE)
  <2> SUFFICES ASSUME NEW k \in DOMAIN qs
               PROVE  RecordFits(rs[k], k, M) /\ Lists(rs[k], k, M)
    BY <1>8 DEF Recorded
  <2>1. RecordFits(rs[k], k, L) /\ Lists(rs[k], k, L) /\ k \in Nat /\ k < h
    BY <1>1, <1>8 DEF Recorded
  <2>2. \A id \in DOMAIN L : id[1] <= k => id \in DOMAIN M
    BY <1>4, <1>6, <2>1
  <2> QED
    BY <1>6, <2>1, <2>2 DEF RecordFits, Lists
<1>10. DOMAIN u.runes = DOMAIN rs \ {h}
  BY <1>1, <1>2 DEF Except
<1>11. Rows(u.runes, M, TRUE)
  <2>1. \A k \in DOMAIN u.runes : k \in DOMAIN t.runes /\ u.runes[k] = t.runes[k] /\ k \in Nat /\ k < h
    BY <1>1, <1>2 DEF Except
  <2>2. \A k \in DOMAIN u.runes : \A m \in 0..u.runes[k] - 1 :
          \E id \in DOMAIN M : id[1] <= k /\ M[id].number = m
    <3> SUFFICES ASSUME NEW k \in DOMAIN u.runes, NEW m \in 0..u.runes[k] - 1
                 PROVE  \E id \in DOMAIN M : id[1] <= k /\ M[id].number = m
      OBVIOUS
    <3>1. PICK id \in DOMAIN L : id[1] <= k /\ L[id].number = m
      BY <1>1, <2>1 DEF Rows
    <3>2. id \in DOMAIN M
      BY <1>4, <1>6, <2>1, <3>1
    <3> QED
      BY <1>6, <3>1, <3>2
  <2> QED
    BY <1>1, <1>6, <2>1, <2>2 DEF Rows
<1>12. Agree(u.ids, u.etchings, M) /\ InPlace(M, c) /\ Listed(qs, M)
  <2>1. /\ Agree(t.ids, t.etchings, L) /\ InPlace(L, c) /\ Listed(rs, L)
        /\ EtchedFits(r, L)
    BY <1>1 DEF Listed
  <2>2. ASSUME NEW q \in DOMAIN u.ids
        PROVE  u.ids[q] \in DOMAIN M /\ M[u.ids[q]].rune = q
    <3>1. /\ q \in DOMAIN t.ids /\ u.ids[q] = t.ids[q]
          /\ \A e \in r.etched : e[1] # q
      BY <1>2, <2>2 DEF Except, Etched
    <3>2. t.ids[q] \in DOMAIN L /\ L[t.ids[q]].rune = q
      BY <2>1, <3>1 DEF Agree
    <3>3. t.ids[q][1] # h
      BY <1>3, <2>1, <3>1, <3>2 DEF Lists, EtchedFits
    <3> QED
      BY <1>6, <3>1, <3>2, <3>3
  <2>3. ASSUME NEW id \in DOMAIN M
        PROVE  /\ M[id].rune \in DOMAIN u.ids /\ u.ids[M[id].rune] = id
               /\ M[id].tx \in DOMAIN u.etchings /\ u.etchings[M[id].tx] = M[id].rune
    <3>1. id \in DOMAIN L /\ M[id] = L[id] /\ id[1] # h
      BY <1>6
    <3>2. /\ L[id].rune \in DOMAIN t.ids /\ t.ids[L[id].rune] = id
          /\ L[id].tx \in DOMAIN t.etchings /\ t.etchings[L[id].tx] = L[id].rune
      BY <2>1, <3>1 DEF Agree
    <3>3. ASSUME NEW e \in r.etched PROVE e[1] # L[id].rune /\ e[3] # L[id].tx
      <4>1. e[2] \in DOMAIN L /\ L[e[2]].rune = e[1] /\ L[e[2]].tx = e[3] /\ e[2][1] = h
        BY <1>3, <2>1 DEF EtchedFits, RecordFits
      <4>2. t.ids[e[1]] = e[2] /\ t.etchings[e[3]] = e[1]
        BY <2>1, <4>1 DEF Agree
      <4> QED
        BY <3>1, <3>2, <4>1, <4>2
    <3> QED
      BY <1>2, <3>1, <3>2, <3>3 DEF Except, Etched
  <2>4. InPlace(M, c)
    BY <1>6, <2>1 DEF InPlace
  <2>5. Listed(qs, M)
    <3> SUFFICES ASSUME NEW k \in DOMAIN qs PROVE EtchedFits(rs[k], M)
      BY <1>8 DEF Listed
    <3>1. EtchedFits(rs[k], L) /\ RecordFits(rs[k], k, L) /\ k # h
      BY <1>1, <1>8, <2>1 DEF Listed, Recorded
    <3> QED
      BY <1>6, <3>1 DEF EtchedFits, RecordFits
  <2> QED
    BY <2>2, <2>3, <2>4, <2>5 DEF Agree
<1>13. Rest(u, h - 1, DOMAIN rs \ {h}, qs, c, TRUE, TRUE)
  BY <1>2, <1>7, <1>9, <1>10, <1>11, <1>12 DEF Rest, M
<1> QED
  BY <1>13 DEF u, qs

(***************************************************************************)
(* All heights of a rollback to f.                                         *)
(***************************************************************************)
LEMMA UndoneRest ==
  ASSUME LedgerInv, block = NoBlock, cutOffs = 0, NEW f \in DOMAIN headers, f < Top
  PROVE  Rest(Undone(f), f, DOMAIN Except(records, (f + 1)..Top),
              Except(records, (f + 1)..Top), Indexed, TRUE, TRUE)
<1>1. PICK lo \in Nat : DOMAIN records = lo..Top /\ DOMAIN headers = lo..Top
  BY WindowFacts DEF LedgerInv, Window
<1>2. Top \in Nat /\ f \in Nat /\ NextHeight = Top + 1 /\ lo <= f
  BY <1>1, WindowFacts DEF LedgerInv, Window
<1>3. PICK top \in Nat : top = Top
  BY <1>2
<1>4. PICK rs : rs = records
  OBVIOUS
<1>5. PICK c : c = Indexed
  OBVIOUS
<1> HIDE DEF Top, Indexed, Undone
<1>6. Rest(tables, top, DOMAIN rs, rs, c, TRUE, TRUE)
  <2>1. tried = NoBlock
    BY DEF LedgerInv, Progress
  <2>2. NextHeight - 1 = top
    BY <1>2, <1>3
  <2> QED
    BY <1>3, <1>4, <1>5, <2>1, <2>2 DEF LedgerInv, Resting, Rest
<1>7. PICK acc :
        /\ acc[0] = tables /\ Undone(f) = acc[top - f]
        /\ \A j \in 1..(top - f) :
             acc[j] = Undo(acc[j-1], rs[top + 1 - j], top + 1 - j)
  <2>1. RunsBack(f, Top, records)
    BY <1>2, UndoneRuns
  <2>2. RunsBack(f, top, rs)
    BY <1>3, <1>4, <2>1
  <2> QED
    BY <2>2 DEF RunsBack
<1> DEFINE qs(j) == Except(rs, (top + 1 - j)..top)
           P(j) == Rest(acc[j], top - j, DOMAIN qs(j), qs(j), c, TRUE, TRUE)
<1>8. P(0)
  <2>1. (top + 1 - 0)..top = {} /\ top - 0 = top
    BY <1>2
  <2>2. Known(Lasting(tables), top) /\ Recorded(rs, Lasting(tables), TRUE)
    BY <1>6 DEF Rest
  <2>3. DOMAIN qs(0) = DOMAIN rs /\ \A k \in DOMAIN rs : qs(0)[k] = rs[k]
    BY <2>1 DEF Except
  <2> HIDE DEF qs
  <2>4. Recorded(qs(0), Lasting(tables), TRUE)
    BY <2>2, <2>3 DEF Recorded
  <2>5. Listed(rs, Lasting(tables)) => Listed(qs(0), Lasting(tables))
    BY <2>3 DEF Listed
  <2> QED
    BY <1>6, <1>7, <2>1, <2>3, <2>4, <2>5 DEF Rest
<1>9. ASSUME NEW j \in Nat, j + 1 <= top - f, P(j) PROVE P(j + 1)
  <2> DEFINE h == top - j
  <2>1. /\ h \in Nat /\ j + 1 \in 1..(top - f) /\ (j + 1) - 1 = j /\ top + 1 - (j + 1) = h
        /\ top - (j + 1) = h - 1 /\ h \in DOMAIN rs /\ h > f
    BY <1>1, <1>2, <1>3, <1>4, <1>9
  <2>2. acc[j + 1] = Undo(acc[j], rs[h], h)
    BY <1>7, <2>1
  <2>3. /\ h \in DOMAIN qs(j) /\ qs(j)[h] = rs[h]
        /\ \A k \in DOMAIN qs(j) : k \in Nat /\ k <= h
    BY <1>1, <1>2, <1>3, <1>4, <2>1 DEF Except
  <2>4. DOMAIN qs(j + 1) = DOMAIN qs(j) \ {h} /\ qs(j + 1) = Except(qs(j), {h})
    <3>1. ((top + 1 - (j + 1))..top) = ((top + 1 - j)..top) \cup {h}
      BY <1>3, <2>1
    <3> HIDE DEF h
    <3> QED
      BY <3>1 DEF Except
  <2> HIDE DEF qs, h
  <2>5. Rest(acc[j], h, DOMAIN qs(j), qs(j), c, TRUE, TRUE)
    BY <1>9 DEF h
  <2>6. Rest(Undo(acc[j], qs(j)[h], h), h - 1, DOMAIN qs(j) \ {h}, Except(qs(j), {h}), c, TRUE, TRUE)
    BY <2>1, <2>3, <2>5, UndoRest
  <2> QED
    BY <2>1, <2>2, <2>3, <2>4, <2>6
<1>10. P(top - f)
  <2> DEFINE n == top - f
             T == {j \in Nat : j <= n /\ ~ P(j)}
  <2>1. n \in Nat
    BY <1>2, <1>3
  <2> HIDE DEF P, n
  <2> SUFFICES ASSUME T # {} PROVE FALSE
    BY <2>1 DEF n
  <2>2. T \subseteq Nat
    OBVIOUS
  <2>3. PICK x \in T : \A y \in T : ~ (y < x)
    <3> HIDE DEF T
    <3> QED
      BY <2>2, TxFold!LeastNatural
  <2>4. x \in Nat /\ x <= n /\ ~ P(x) /\ x # 0
    BY <1>8, <2>3
  <2>5. x - 1 \in Nat /\ x - 1 <= n /\ (x - 1) + 1 = x /\ x - 1 < x
    BY <2>1, <2>4
  <2>6. P(x - 1)
    BY <2>3, <2>5
  <2>7. P((x - 1) + 1)
    BY <1>9, <2>4, <2>5, <2>6 DEF n
  <2> QED
    BY <2>4, <2>5, <2>7
<1>11. top - (top - f) = f /\ top + 1 - (top - f) = f + 1
  BY <1>2
<1> HIDE DEF P
<1>12. Rest(acc[top - f], f, DOMAIN Except(rs, (f + 1)..top), Except(rs, (f + 1)..top), c, TRUE, TRUE)
  BY <1>10, <1>11 DEF P
<1> QED
  BY <1>3, <1>4, <1>5, <1>7, <1>12

(***************************************************************************)
(* The window after a rollback to f.                                       *)
(***************************************************************************)
LEMMA WindowBack ==
  ASSUME Window, NEW f \in DOMAIN headers, HandleReorg(f)
  PROVE  /\ Window' /\ Top' = f /\ NextHeight' = f + 1 /\ Latest' = headers[f]
         /\ \E lo \in Nat :
              /\ FirstHeight <= lo /\ lo <= f
              /\ DOMAIN records = lo..Top /\ DOMAIN headers = lo..Top
              /\ DOMAIN records' = lo..f /\ DOMAIN headers' = lo..f
              /\ \A k \in lo..f : headers'[k] = headers[k] /\ records'[k] = records[k]
<1>1. /\ f < Top
      /\ records' = Except(records, (f + 1)..Top)
      /\ headers' = Except(headers, (f + 1)..Top)
  BY DEF HandleReorg
<1>2. PICK lo \in Nat : /\ DOMAIN records = lo..Top /\ DOMAIN headers = lo..Top
                        /\ FirstHeight <= lo
  BY WindowFacts DEF Window
<1>3. Top \in Nat /\ f \in Nat /\ lo <= f /\ FirstHeight \in Nat
  BY <1>2, WindowFacts DEF Window
<1>4. /\ DOMAIN headers' = lo..f /\ DOMAIN records' = lo..f
      /\ \A k \in lo..f : headers'[k] = headers[k] /\ records'[k] = records[k]
  <2> HIDE DEF Top
  <2> QED
    BY <1>1, <1>2, <1>3 DEF Except
<1>5. lo \in DOMAIN headers' /\ f \in DOMAIN headers' /\ DOMAIN headers' # {}
  BY <1>3, <1>4
<1>6. Window'
  BY <1>2, <1>4, <1>5 DEF Window
<1>7. Top' = f
  BY <1>3, <1>4, MaxOfInterval DEF Top
<1>8. headers' # EmptyMap
  <2>1. DOMAIN EmptyMap = {}
    BY DEF EmptyMap
  <2> QED
    BY <1>5, <2>1
<1>9. NextHeight' = f + 1 /\ Latest' = headers[f]
  BY <1>3, <1>4, <1>5, <1>7, <1>8 DEF NextHeight, Latest
<1> HIDE DEF Top, NextHeight, Latest
<1> QED
  BY <1>2, <1>3, <1>4, <1>6, <1>7, <1>9

LEMMA HandleReorgStep ==
  ASSUME LedgerInv, Forward' \/ cutOffs = 0, NEW f \in DOMAIN headers, HandleReorg(f)
  PROVE  LedgerInv'
<1>1. /\ block = NoBlock /\ f < Top
      /\ tables' = Undone(f)
      /\ records' = Except(records, (f + 1)..Top)
      /\ headers' = Except(headers, (f + 1)..Top)
      /\ moved' = IF cutOffs = 0 THEN moved ELSE moved \cup {"back"}
      /\ tried' = NoBlock
      /\ UNCHANGED <<block, updater, cutOffs>>
  BY DEF HandleReorg, MovesBack
<1>2. /\ Window' /\ Top' = f /\ NextHeight' = f + 1 /\ Latest' = headers[f]
      /\ \E lo \in Nat :
           /\ FirstHeight <= lo /\ lo <= f
           /\ DOMAIN records = lo..Top /\ DOMAIN headers = lo..Top
           /\ DOMAIN records' = lo..f /\ DOMAIN headers' = lo..f
           /\ \A k \in lo..f : headers'[k] = headers[k] /\ records'[k] = records[k]
  BY WindowBack DEF LedgerInv
<1>3. f \in Nat /\ FirstHeight \in Nat /\ FirstHeight <= f
  BY WindowFacts DEF LedgerInv, Window
<1>4. cutOffs = 0
  BY <1>1 DEF Forward
<1>5. Rest(tables', f, DOMAIN records', records', Indexed, TRUE, TRUE)
  BY <1>1, <1>4, UndoneRest
<1>6. PICK c : c = Indexed
  OBVIOUS
<1>7. PICK lo \in Nat : /\ DOMAIN headers = lo..Top /\ DOMAIN headers' = lo..f
                        /\ \A k \in lo..f : headers'[k] = headers[k]
  BY <1>2
<1>8. \A k \in lo..f : k \in DOMAIN headers
  <2>1. Top \in Nat /\ f < Top
    BY <1>1, WindowFacts DEF LedgerInv
  <2> HIDE DEF Top
  <2> QED
    BY <1>3, <1>7, <2>1
<1>12. headers[f] \in Block
  BY DEF LedgerInv, OneChain
<1>13. Indexed' = ChainTo[headers[f]]
  BY <1>2, <1>12, LedgerAssumption DEF Indexed
<1>14. /\ Len(ChainTo[headers[f]]) = f - FirstHeight + 1
       /\ \A i \in 1..(f - FirstHeight + 1) : ChainTo[headers[f]][i] = c[i]
  BY <1>6 DEF LedgerInv, OneChain
<1> HIDE DEF Top, Indexed, NextHeight, Latest
<1>15. OneChain'
  <2> SUFFICES ASSUME NEW k \in DOMAIN headers'
               PROVE  /\ headers'[k] \in Block
                      /\ Len(ChainTo[headers'[k]]) = k - FirstHeight + 1
                      /\ \A i \in 1..(k - FirstHeight + 1) : ChainTo[headers'[k]][i] = Indexed'[i]
    BY DEF OneChain
  <2>1. k \in DOMAIN headers /\ headers'[k] = headers[k] /\ k \in Nat /\ k <= f
    BY <1>3, <1>7, <1>8
  <2>2. /\ headers[k] \in Block
        /\ Len(ChainTo[headers[k]]) = k - FirstHeight + 1
        /\ \A i \in 1..(k - FirstHeight + 1) : ChainTo[headers[k]][i] = c[i]
    BY <1>6, <2>1 DEF LedgerInv, OneChain
  <2>3. \A i \in 1..(k - FirstHeight + 1) : i \in 1..(f - FirstHeight + 1)
    BY <1>3, <2>1
  <2> QED
    BY <1>13, <1>14, <2>1, <2>2, <2>3
<1>16. Progress'
  BY <1>1 DEF LedgerInv, Progress
<1>17. Rest(tables', f, DOMAIN records', records', Indexed', TRUE, TRUE)
  <2> DEFINE L == Lasting(tables')
  <2>1. Known(L, f) /\ InPlace(L, c)
    BY <1>5, <1>6 DEF Rest
  <2>2. \A id \in DOMAIN L : /\ id[1] \in Nat /\ FirstHeight <= id[1] /\ id[1] <= f
                             /\ id[1] - FirstHeight + 1 \in 1..(f - FirstHeight + 1)
    BY <1>3, <2>1 DEF Known
  <2> HIDE DEF L
  <2>3. InPlace(L, Indexed')
    BY <1>13, <1>14, <2>1, <2>2 DEF InPlace
  <2> QED
    BY <1>5, <2>3 DEF Rest, L
<1>18. Resting'
  <2>1. NextHeight' - 1 = f
    BY <1>2, <1>3
  <2> QED
    BY <1>1, <1>4, <1>17, <2>1 DEF Resting, Rest
<1> QED
  BY <1>1, <1>2, <1>15, <1>16, <1>18 DEF LedgerInv

-----------------------------------------------------------------------------
LEMMA LedgerInit ==
  ASSUME Init
  PROVE  LedgerInv
<1>1. /\ headers = EmptyMap /\ records = EmptyMap /\ tables = NoTables
      /\ block = NoBlock /\ tried = NoBlock /\ cutOffs = 0
      /\ DOMAIN headers = {} /\ DOMAIN records = {}
  BY DEF Init, EmptyMap
<1>2. Window /\ OneChain /\ Progress
  BY <1>1, LedgerAssumption DEF Window, OneChain, Progress
<1>3. /\ ShapedTables(tables) /\ DOMAIN Lasting(tables) = {}
      /\ DOMAIN tables.runes = {} /\ DOMAIN tables.ids = {}
  BY <1>1 DEF NoTables, EmptyMap, ShapedTables, TableFields, Lasting
<1>4. Rest(tables, NextHeight - 1, DOMAIN records, records, Indexed, cutOffs = 0, SameTip)
  BY <1>1, <1>3 DEF Rest, Known, Recorded, Rows, Agree, InPlace, Listed
<1> QED
  BY <1>1, <1>2, <1>4 DEF LedgerInv, Resting

LEMMA LedgerNext ==
  ASSUME LedgerInv, Forward' \/ cutOffs = 0, [Next]_vars
  PROVE  LedgerInv'
<1>1. ASSUME NEW b \in Block, IndexRune(b) PROVE LedgerInv'
  <2>1. /\ block = NoBlock /\ Parent[b] = Latest
        /\ moved' = IF tried \in {NoBlock, b} THEN moved ELSE moved \cup {"tip"}
        /\ Reached(b, IndexTxs(Started(tables, NextHeight), Txs[b], 0))
    BY <1>1 DEF IndexRune
  <2>2. /\ Stage(Started(tables, NextHeight), b, NextHeight, 0, records, cutOffs = 0, SameTip')
        /\ Started(tables, NextHeight).at = 0
    <3>1. SameTip' => SameTip /\ tried \in {NoBlock, b}
      BY <2>1 DEF SameTip
    <3> QED
      BY <2>1, <3>1, Begun
  <2>3. Site(b, NextHeight, records)
    BY <2>1, SiteHere DEF LedgerInv
  <2>4. Len(Txs[b]) \in Nat
    BY LedgerAssumption
  <2>5. PICK s : s = IndexTxs(Started(tables, NextHeight), Txs[b], 0)
    OBVIOUS
  <2>6. Reach(s, b, NextHeight, Len(Txs[b]), records, cutOffs = 0, SameTip')
    BY <2>2, <2>3, <2>4, <2>5, IndexTxsReach
  <2>7. Suspended(b, s) \/ Done(s, b)
    BY <2>1, <2>5 DEF Reached
  <2> QED
    BY <2>1, <2>6, <2>7, SuspendedStep, DoneStep DEF LedgerInv
<1>2. ASSUME Answered PROVE LedgerInv'
  <2>1. block # NoBlock /\ Reached(block, Continue(Joined, Txs[block]))
    BY <1>2 DEF Answered
  <2>2. PICK b \in Block : b = block
    BY <2>1 DEF LedgerInv, Progress
  <2>3. /\ Parent[b] = Latest /\ Joined.at # 0
        /\ Reach(Joined, b, NextHeight, Len(Txs[b]), records, cutOffs = 0, SameTip)
    BY <2>1, <2>2 DEF LedgerInv, Busy
  <2>4. Site(b, NextHeight, records)
    BY <2>3, SiteHere DEF LedgerInv
  <2>5. PICK s : s = Continue(Joined, Txs[b])
    OBVIOUS
  <2>6. Reach(s, b, NextHeight, Len(Txs[b]), records, cutOffs = 0, SameTip')
    <3>1. Reach(s, b, NextHeight, Len(Txs[b]), records, cutOffs = 0, SameTip)
      BY <2>3, <2>4, <2>5, ContinueReach
    <3>2. SameTip' = SameTip
      BY <1>2 DEF Answered, SameTip
    <3> QED
      BY <3>1, <3>2
  <2>7. Suspended(b, s) \/ Done(s, b)
    BY <2>1, <2>2, <2>5 DEF Reached
  <2> QED
    BY <2>3, <2>6, <2>7, SuspendedStep, DoneStep DEF LedgerInv
<1>3. ASSUME CutOff PROVE LedgerInv'
  BY <1>3, CutOffStep
<1>4. ASSUME NEW f \in DOMAIN headers, HandleReorg(f) PROVE LedgerInv'
  BY <1>4, HandleReorgStep
<1>5. ASSUME UNCHANGED vars PROVE LedgerInv'
  BY <1>5 DEF vars, LedgerInv, Window, OneChain, Progress, Resting, Busy, NextHeight, Latest, Top,
              Indexed, Joined, SameTip
<1> QED
  BY <1>1, <1>2, <1>3, <1>4, <1>5 DEF Next

(***************************************************************************)
(* The invariant, whether a block is being indexed or not.                 *)
(***************************************************************************)
LEMMA LedgerParts ==
  ASSUME LedgerInv
  PROVE  /\ NextHeight \in Nat /\ Known(Lasting(tables), NextHeight)
         /\ Recorded(records, Lasting(tables), cutOffs = 0)
         /\ Rows(tables.runes, Lasting(tables), cutOffs = 0)
         /\ cutOffs = 0 \/ SameTip => Agree(tables.ids, tables.etchings, Lasting(tables))
         /\ cutOffs = 0 => \E n \in Nat :
              /\ \A id \in DOMAIN Lasting(tables) : Lasting(tables)[id].number < n
              /\ \A k \in 0..n - 1 : \E id \in DOMAIN Lasting(tables) :
                   Lasting(tables)[id].number = k
<1> DEFINE L == Lasting(tables)
           h == NextHeight
<1>1. /\ h \in Nat /\ FirstHeight \in Nat
      /\ DOMAIN headers = {} => h = FirstHeight
      /\ DOMAIN headers # {} => h - 1 \in DOMAIN headers
      /\ DOMAIN records = DOMAIN headers
  BY WindowFacts DEF LedgerInv, Window
<1> HIDE DEF h
<1>2. CASE block # NoBlock
  <2>1. PICK n : Stage(Joined, block, h, n, records, cutOffs = 0, SameTip)
    BY <1>2 DEF LedgerInv, Busy, Reach, h
  <2>2. Joined.t = tables
    BY DEF Joined, Put
  <2>3. /\ Known(L, h) /\ Recorded(records, L, cutOffs = 0) /\ Rows(tables.runes, L, cutOffs = 0)
        /\ cutOffs = 0 \/ SameTip => Agree(tables.ids, tables.etchings, L)
        /\ h \in DOMAIN tables.runes
    BY <2>1, <2>2 DEF Stage, Working, Counting, Placed
  <2>4. cutOffs = 0 => \E m \in Nat :
          /\ \A id \in DOMAIN L : L[id].number < m
          /\ \A k \in 0..m - 1 : \E id \in DOMAIN L : L[id].number = k
    <3> HIDE DEF L
    <3>1. tables.runes[h] \in Nat /\ \A id \in DOMAIN L : L[id].number < tables.runes[h]
      BY <2>3 DEF Rows, Known
    <3> QED
      BY <2>3, <3>1 DEF Rows
  <2> QED
    BY <1>1, <2>3, <2>4 DEF h
<1>3. CASE block = NoBlock /\ tried # NoBlock
  <2>1. Rest(tables, h, DOMAIN records \cup {h}, records, ChainTo[tried], FALSE, SameTip) /\ cutOffs # 0
    BY <1>3 DEF LedgerInv, Resting, Progress, h
  <2> QED
    BY <1>1, <2>1 DEF Rest, Recorded, Rows, h
<1>4. CASE block = NoBlock /\ tried = NoBlock
  <2>1. Rest(tables, h - 1, DOMAIN records, records, Indexed, cutOffs = 0, SameTip)
    BY <1>4 DEF LedgerInv, Resting, h
  <2>2. /\ Known(L, h - 1) /\ Recorded(records, L, cutOffs = 0)
        /\ Rows(tables.runes, L, cutOffs = 0) /\ DOMAIN tables.runes = DOMAIN headers
        /\ cutOffs = 0 \/ SameTip => Agree(tables.ids, tables.etchings, L)
    BY <1>1, <2>1 DEF Rest
  <2> HIDE DEF L
  <2>3. \A id \in DOMAIN L : /\ id \in Nat \X Nat /\ L[id].block = id[1] /\ id[1] \in Nat
                             /\ FirstHeight <= id[1] /\ id[1] <= h - 1
    BY <2>2 DEF Known
  <2>4. Known(L, h)
    BY <1>1, <2>3 DEF Known
  <2>5. cutOffs = 0 => \E m \in Nat :
          /\ \A id \in DOMAIN L : L[id].number < m
          /\ \A k \in 0..m - 1 : \E id \in DOMAIN L : L[id].number = k
    <3>1. CASE DOMAIN headers = {}
      <4>1. ASSUME NEW id \in DOMAIN L PROVE FALSE
        BY <1>1, <2>3, <3>1
      <4> QED
        BY <4>1
    <3>2. CASE DOMAIN headers # {}
      <4> DEFINE m == tables.runes[h - 1]
      <4>1. h - 1 \in DOMAIN tables.runes
        BY <1>1, <2>2, <3>2
      <4>2. m \in Nat /\ \A id \in DOMAIN L : L[id].number < m
        BY <2>2, <2>3, <4>1 DEF Rows
      <4>3. cutOffs = 0 => \A k \in 0..m - 1 : \E id \in DOMAIN L : L[id].number = k
        BY <2>2, <4>1 DEF Rows
      <4> HIDE DEF m
      <4> QED
        BY <4>2, <4>3
    <3> QED
      BY <3>1, <3>2
  <2> QED
    BY <1>1, <2>2, <2>4, <2>5 DEF L, h
<1> QED
  BY <1>2, <1>3, <1>4

LEMMA LastingEntries ==
  /\ DOMAIN Lasting(tables) = DOMAIN tables.entries
  /\ \A id \in DOMAIN tables.entries :
       /\ Lasting(tables)[id].block = tables.entries[id].block
       /\ Lasting(tables)[id].tx = tables.entries[id].tx
       /\ Lasting(tables)[id].rune = tables.entries[id].rune
       /\ Lasting(tables)[id].number = tables.entries[id].number
BY DEF Lasting

(***************************************************************************)
(* What is known of the history, whatever happened.                        *)
(***************************************************************************)
History ==
  /\ cutOffs \in Nat /\ cutAt \in Nat /\ block \in Block \cup {NoBlock}
  /\ cutOffs = 0 => tried = NoBlock /\ cutAt = 0 /\ moved = {}

LEMMA HistoryNext ==
  ASSUME Window, History, [Next]_vars
  PROVE  History' /\ (Forward' => Forward)
<1>1. NextHeight \in Nat
  BY WindowFacts
<1>2. ASSUME NEW b \in Block, NEW s, Reached(b, s)
      PROVE  /\ block' \in Block \cup {NoBlock} /\ UNCHANGED <<cutOffs, cutAt>>
             /\ tried' \in {tried, NoBlock}
  BY <1>2 DEF Reached, Suspended, Done
<1>3. ASSUME NEW b \in Block, IndexRune(b) PROVE History' /\ (Forward' => Forward)
  <2>1. moved' = IF tried \in {NoBlock, b} THEN moved ELSE moved \cup {"tip"}
    BY <1>3 DEF IndexRune
  <2>2. /\ block' \in Block \cup {NoBlock} /\ UNCHANGED <<cutOffs, cutAt>>
        /\ tried' \in {tried, NoBlock}
    BY <1>2, <1>3 DEF IndexRune
  <2> QED
    BY <2>1, <2>2 DEF History, Forward
<1>4. ASSUME Answered PROVE History' /\ (Forward' => Forward)
  <2>1. block \in Block /\ UNCHANGED moved
    BY <1>4 DEF Answered, History
  <2>2. /\ block' \in Block \cup {NoBlock} /\ UNCHANGED <<cutOffs, cutAt>>
        /\ tried' \in {tried, NoBlock}
    BY <1>2, <1>4, <2>1 DEF Answered
  <2> QED
    BY <2>1, <2>2 DEF History, Forward
<1>5. ASSUME CutOff PROVE History' /\ (Forward' => Forward)
  <2> HIDE DEF NextHeight
  <2> QED
    BY <1>1, <1>5 DEF CutOff, History, Forward
<1>6. ASSUME NEW f \in DOMAIN headers, HandleReorg(f) PROVE History' /\ (Forward' => Forward)
  BY <1>6 DEF HandleReorg, MovesBack, History, Forward
<1>7. ASSUME UNCHANGED vars PROVE History' /\ (Forward' => Forward)
  BY <1>7 DEF vars, History, Forward
<1> QED
  BY <1>3, <1>4, <1>5, <1>6, <1>7 DEF Next

(***************************************************************************)
(* Where entries are, also after a rollback that followed an attempt that  *)
(* was cut off: an entry above m, the greatest height of such an attempt,  *)
(* is at a height up to h and in the change record of that height, so that *)
(* a rollback removes it.                                                  *)
(***************************************************************************)
Accounted(L, h, rs, m) ==
  \A id \in DOMAIN L :
    /\ id[1] \in Nat /\ L[id].block = id[1]
    /\ \/ id[1] <= m
       \/ /\ id[1] <= h
          /\ id[1] \in DOMAIN rs => \E e \in rs[id[1]].etched : e[2] = id

Midway(s, h, rs, m) ==
  /\ Shaped(s) /\ s.height = h
  /\ Accounted(Lasting(s.t), h, Put(rs, h, s.record), m)

Traced ==
  /\ block = NoBlock =>
       ShapedTables(tables) /\ Accounted(Lasting(tables), NextHeight - 1, records, cutAt)
  /\ block # NoBlock => Midway(Joined, NextHeight, records, cutAt)
  /\ Forward => cutAt <= NextHeight

LEMMA QuietMidway ==
  ASSUME NEW s, NEW r, NEW h, NEW rs, NEW m, Midway(s, h, rs, m), Quiet(s, r)
  PROVE  Midway(r, h, rs, m)
<1>1. /\ Shaped(r) /\ r.height = h /\ Lasting(r.t) = Lasting(s.t)
      /\ r.record.etched = s.record.etched
  BY DEF Midway, Quiet
<1>2. Accounted(Lasting(s.t), h, Put(rs, h, s.record), m)
  BY DEF Midway
<1>3. /\ DOMAIN Put(rs, h, r.record) = DOMAIN Put(rs, h, s.record)
      /\ \A k \in DOMAIN Put(rs, h, s.record) :
           Put(rs, h, r.record)[k].etched = Put(rs, h, s.record)[k].etched
  BY <1>1 DEF Put
<1>4. Accounted(Lasting(r.t), h, Put(rs, h, r.record), m)
  BY <1>1, <1>2, <1>3 DEF Accounted
<1> QED
  BY <1>1, <1>4 DEF Midway

LEMMA EtchMidway ==
  ASSUME NEW s, NEW r, NEW h \in Nat, NEW rs, NEW m, NEW i, NEW tx, NEW rune,
         Midway(s, h, rs, m), Etches(s, r, <<h, i>>, tx, rune)
  PROVE  Midway(r, h, rs, m)
<1> DEFINE L == Lasting(s.t)
           M == Lasting(r.t)
           id == <<h, i>>
           new == [block |-> s.height, tx |-> tx, rune |-> rune, number |-> s.runes]
           old == Put(rs, h, s.record)
           now == Put(rs, h, r.record)
<1>1. /\ Shaped(r) /\ r.height = h /\ M = Put(L, id, new) /\ new.block = h
      /\ r.record.etched = s.record.etched \cup {<<rune, id, tx>>}
  BY DEF Midway, Etches
<1>2. Accounted(L, h, old, m)
  BY DEF Midway
<1>3. /\ DOMAIN now = DOMAIN rs \cup {h} /\ DOMAIN old = DOMAIN rs \cup {h}
      /\ now[h] = r.record /\ old[h] = s.record
      /\ \A k \in DOMAIN rs : k # h => now[k] = old[k]
  BY DEF Put
<1> HIDE DEF L, M, new, old, now
<1>4. DOMAIN M = DOMAIN L \cup {id} /\ M[id] = new /\ \A x \in DOMAIN L : x # id => M[x] = L[x]
  BY <1>1 DEF Put
<1>5. <<rune, id, tx>> \in r.record.etched /\ <<rune, id, tx>>[2] = id /\ id[1] = h
  BY <1>1
<1> HIDE DEF id
<1>6. ASSUME NEW x \in DOMAIN M
      PROVE  /\ x[1] \in Nat /\ M[x].block = x[1]
             /\ \/ x[1] <= m
                \/ /\ x[1] <= h
                   /\ x[1] \in DOMAIN now => \E e \in now[x[1]].etched : e[2] = x
  <2>1. CASE x = id
    <3>1. x[1] = h /\ h <= h /\ M[x] = new /\ new.block = h /\ now[h] = r.record
      BY <1>1, <1>3, <1>4, <1>5, <2>1
    <3>2. \E e \in r.record.etched : e[2] = x
      BY <1>5, <2>1
    <3> QED
      BY <3>1, <3>2
  <2>2. CASE x # id
    <3>1. x \in DOMAIN L /\ M[x] = L[x]
      BY <1>4, <1>6, <2>2
    <3>2. /\ x[1] \in Nat /\ L[x].block = x[1]
          /\ \/ x[1] <= m
             \/ x[1] <= h /\ (x[1] \in DOMAIN old => \E e \in old[x[1]].etched : e[2] = x)
      BY <1>2, <3>1 DEF Accounted
    <3>3. x[1] \in DOMAIN old => old[x[1]].etched \subseteq now[x[1]].etched
      BY <1>1, <1>3
    <3> QED
      BY <1>3, <3>1, <3>2, <3>3
  <2> QED
    BY <2>1, <2>2
<1>7. Accounted(M, h, now, m)
  BY <1>6 DEF Accounted
<1> QED
  BY <1>1, <1>7 DEF Midway, M, now

LEMMA IndexTxsMidway ==
  ASSUME NEW s0, NEW h \in Nat, NEW rs, NEW m, NEW txs \in Seq(Tx), NEW i,
         Midway(s0, h, rs, m)
  PROVE  Midway(IndexTxs(s0, txs, i), h, rs, m)
<1> DEFINE n == Len(txs)
<1>1. n \in Nat
  OBVIOUS
<1>2. PICK acc : /\ acc[0] = s0 /\ IndexTxs(s0, txs, i) = acc[n]
                 /\ \A j \in 1..n : acc[j] = IF j <= i \/ acc[j-1].at # 0 THEN acc[j-1]
                                             ELSE IndexTx(acc[j-1], j - 1, txs[j])
  <2>1. Runs(s0, txs, i)
    BY IndexTxsRuns
  <2> QED
    BY <2>1 DEF Runs
<1> DEFINE P(j) == Midway(acc[j], h, rs, m)
<1> HIDE DEF n
<1>3. ASSUME NEW j \in Nat, j + 1 <= n, P(j) PROVE P(j + 1)
  <2> DEFINE r == IndexTx(acc[j], j, txs[j + 1])
  <2>1. acc[j + 1] = acc[j] \/ acc[j + 1] = r
    <3>1. j + 1 \in 1..n /\ (j + 1) - 1 = j
      BY <1>1, <1>3
    <3> QED
      BY <1>2, <3>1
  <2>2. Shaped(acc[j]) /\ acc[j].height = h
    BY <1>3 DEF Midway
  <2>3. Indexes(acc[j], r, j, txs[j + 1])
    BY <2>2, IndexTxMoves
  <2> HIDE DEF r
  <2>4. Midway(r, h, rs, m)
    BY <1>3, <2>2, <2>3, QuietMidway, EtchMidway DEF Indexes
  <2> QED
    BY <1>3, <2>1, <2>4
<1>4. P(n)
  <2> DEFINE T == {j \in Nat : j <= n /\ ~ P(j)}
  <2>1. P(0)
    BY <1>2
  <2> HIDE DEF P
  <2> SUFFICES ASSUME T # {} PROVE FALSE
    BY <1>1
  <2>2. T \subseteq Nat
    OBVIOUS
  <2>3. PICK x \in T : \A y \in T : ~ (y < x)
    <3> HIDE DEF T
    <3> QED
      BY <2>2, TxFold!LeastNatural
  <2>4. x \in Nat /\ x <= n /\ ~ P(x) /\ x # 0
    BY <2>1, <2>3
  <2>5. x - 1 \in Nat /\ x - 1 <= n /\ (x - 1) + 1 = x /\ x - 1 < x
    BY <1>1, <2>4
  <2>6. P(x - 1)
    BY <2>3, <2>5
  <2>7. P((x - 1) + 1)
    BY <1>3, <2>4, <2>5, <2>6
  <2> QED
    BY <2>4, <2>5, <2>7
<1> QED
  BY <1>2, <1>4

LEMMA ContinueMidway ==
  ASSUME NEW s, NEW h \in Nat, NEW rs, NEW m, NEW txs \in Seq(Tx), Midway(s, h, rs, m)
  PROVE  Midway(Continue(s, txs), h, rs, m)
<1> DEFINE tx == txs[s.at]
           rune == IF Commitment[tx] = "yes" THEN Names(tx) ELSE {}
           r == FinishTx(s, s.at - 1, tx, rune)
<1>1. Continue(s, txs) = IndexTxs(r, txs, s.at)
  BY DEF Continue
<1>2. Shaped(s) /\ s.height = h
  BY DEF Midway
<1>3. /\ rune = {} => Quiet(s, r)
      /\ rune # {} => \E n \in rune : Etches(s, r, <<h, s.at - 1>>, tx, n)
  BY <1>2, FinishMoves
<1> HIDE DEF r, rune, tx
<1>4. Midway(r, h, rs, m)
  BY <1>3, QuietMidway, EtchMidway
<1> QED
  BY <1>1, <1>4, IndexTxsMidway

(***************************************************************************)
(* index_rune gets to its next await or to its end.                        *)
(***************************************************************************)
LEMMA ReachedTraced ==
  ASSUME Window, History, Traced, NEW b \in Block, NEW s,
         Midway(s, NextHeight, records, cutAt), Reached(b, s), Forward' => Forward
  PROVE  Window' /\ Traced'
<1>1. NextHeight \in Nat /\ cutAt \in Nat
  BY WindowFacts DEF History
<1>2. CASE Suspended(b, s)
  <2> DEFINE r == Put(Apart(s), "t", s.t)
  <2>1. /\ tables' = s.t /\ block' = b /\ updater' = Apart(s)
        /\ UNCHANGED <<records, headers, cutOffs, cutAt>>
    BY <1>2 DEF Suspended
  <2>2. Window' /\ NextHeight' = NextHeight
    BY <2>1 DEF Window, NextHeight, Top
  <2>3. Joined' = r
    BY <2>1 DEF Joined
  <2>4. Midway(r, NextHeight, records, cutAt)
    <3>1. Quiet(s, r)
      BY SavedUpdater DEF Midway
    <3> HIDE DEF r, NextHeight
    <3> QED
      BY <3>1, QuietMidway
  <2>5. block' # NoBlock
    BY <2>1, LedgerAssumption
  <2> HIDE DEF r, NextHeight
  <2> QED
    BY <2>1, <2>2, <2>3, <2>4, <2>5 DEF Traced
<1>3. CASE Done(s, b)
  <2> DEFINE r == Updated(s)
             h == NextHeight
             L == Lasting(s.t)
  <2>1. Shaped(s) /\ s.height = h /\ Accounted(L, h, Put(records, h, s.record), cutAt)
    BY DEF Midway
  <2>2. /\ Shaped(r) /\ Lasting(r.t) = L /\ r.height = h
        /\ r.record.etched = s.record.etched
    BY <1>3, <2>1, UpdatedFields DEF Done
  <2>3. /\ tables' = PrunedTables(r.t, h)
        /\ records' = Pruned(Put(records, h, r.record), h)
        /\ headers' = Put(Pruned(headers, h), h, b)
        /\ block' = NoBlock /\ UNCHANGED <<cutOffs, cutAt>>
    BY <1>3, <2>2 DEF Done
  <2> HIDE DEF r
  <2>4. /\ Window' /\ NextHeight' = h + 1 /\ records'[h] = r.record
        /\ \A k \in DOMAIN records' : k # h => k \in DOMAIN records /\ records'[k] = records[k]
    BY <2>3, WindowMoves
  <2>5. ShapedTables(tables') /\ Lasting(tables') = L
    BY <2>2, <2>3, PrunedFields DEF Shaped
  <2> HIDE DEF h, L
  <2>6. \A k \in DOMAIN records' : /\ k \in DOMAIN Put(records, h, s.record)
                                   /\ records'[k].etched = Put(records, h, s.record)[k].etched
    BY <2>2, <2>4 DEF Put
  <2>7. Accounted(L, h, records', cutAt)
    BY <2>1, <2>6 DEF Accounted
  <2>8. NextHeight' - 1 = h /\ (Forward' => cutAt' <= NextHeight')
    BY <1>1, <2>3, <2>4 DEF Traced, h
  <2> QED
    BY <2>3, <2>4, <2>5, <2>7, <2>8 DEF Traced
<1> QED
  BY <1>2, <1>3 DEF Reached

(***************************************************************************)
(* A rollback removes the entries its change records list.                 *)
(***************************************************************************)
LEMMA UndoAccounted ==
  ASSUME NEW t, NEW rs, NEW h \in Nat, NEW m \in Nat, h \in DOMAIN rs, ShapedTables(t),
         Accounted(Lasting(t), h, rs, m)
  PROVE  /\ ShapedTables(Undo(t, rs[h], h))
         /\ Accounted(Lasting(Undo(t, rs[h], h)), h - 1, rs, m)
<1> DEFINE r == rs[h]
           u == Undo(t, r, h)
           L == Lasting(t)
           M == Lasting(u)
<1>1. ShapedTables(u) /\ M = Except(L, Etched(r, 2))
  <2> HIDE DEF r
  <2> QED
    BY ZenonT(30), UndoFields
<1> HIDE DEF L, M, u
<1>2. ASSUME NEW id \in DOMAIN M
      PROVE  /\ id[1] \in Nat /\ M[id].block = id[1]
             /\ \/ id[1] <= m
                \/ /\ id[1] <= h - 1
                   /\ id[1] \in DOMAIN rs => \E e \in rs[id[1]].etched : e[2] = id
  <2>1. id \in DOMAIN L /\ M[id] = L[id] /\ id \notin Etched(r, 2)
    BY <1>1, <1>2 DEF Except
  <2>2. /\ id[1] \in Nat /\ L[id].block = id[1]
        /\ \/ id[1] <= m
           \/ id[1] <= h /\ (id[1] \in DOMAIN rs => \E e \in rs[id[1]].etched : e[2] = id)
    BY <2>1 DEF Accounted, L
  <2>3. ~ (id[1] = h /\ \E e \in rs[h].etched : e[2] = id)
    BY <2>1 DEF Etched
  <2> QED
    BY <2>1, <2>2, <2>3
<1>3. Accounted(M, h - 1, rs, m)
  BY <1>2 DEF Accounted
<1> QED
  BY <1>1, <1>3 DEF M, u

LEMMA HandleReorgTraced ==
  ASSUME Window, History, Traced, NEW f \in DOMAIN headers, HandleReorg(f)
  PROVE  Window' /\ Traced'
<1>1. /\ block = NoBlock /\ f < Top /\ tables' = Undone(f)
      /\ UNCHANGED <<block, cutAt>>
      /\ moved' = IF cutOffs = 0 THEN moved ELSE moved \cup {"back"}
  BY DEF HandleReorg, MovesBack
<1>2. PICK lo \in Nat :
        /\ Window' /\ NextHeight' = f + 1 /\ lo <= f
        /\ DOMAIN records = lo..Top /\ DOMAIN records' = lo..f
        /\ \A k \in lo..f : records'[k] = records[k]
  BY WindowBack
<1>3. f \in Nat /\ Top \in Nat /\ NextHeight = Top + 1 /\ cutAt \in Nat
  BY WindowFacts DEF Window, History
<1>4. ShapedTables(tables) /\ Accounted(Lasting(tables), Top, records, cutAt)
  <2>1. NextHeight - 1 = Top
    BY <1>3
  <2> QED
    BY <1>1, <2>1 DEF Traced
<1>5. PICK top \in Nat : top = Top
  BY <1>3
<1>6. PICK acc :
        /\ acc[0] = tables /\ Undone(f) = acc[top - f]
        /\ \A j \in 1..(top - f) :
             acc[j] = Undo(acc[j-1], records[top + 1 - j], top + 1 - j)
  <2>1. RunsBack(f, top, records)
    BY <1>1, <1>3, <1>5, UndoneRuns
  <2> QED
    BY <2>1 DEF RunsBack
<1> DEFINE P(j) == ShapedTables(acc[j]) /\ Accounted(Lasting(acc[j]), top - j, records, cutAt)
           n == top - f
<1>7. n \in Nat
  BY <1>1, <1>3, <1>5
<1> HIDE DEF Top, Undone, NextHeight
<1>8. P(0)
  BY <1>4, <1>5, <1>6
<1>9. ASSUME NEW j \in Nat, j + 1 <= n, P(j) PROVE P(j + 1)
  <2> DEFINE h == top - j
  <2>1. /\ h \in Nat /\ j + 1 \in 1..n /\ (j + 1) - 1 = j /\ top + 1 - (j + 1) = h
        /\ top - (j + 1) = h - 1 /\ h \in DOMAIN records
    BY <1>2, <1>3, <1>5, <1>9
  <2>2. acc[j + 1] = Undo(acc[j], records[h], h)
    BY <1>6, <2>1
  <2> HIDE DEF h
  <2>3. ShapedTables(acc[j]) /\ Accounted(Lasting(acc[j]), h, records, cutAt)
    BY <1>9 DEF h
  <2> QED
    BY <1>3, <2>1, <2>2, <2>3, UndoAccounted
<1>10. P(n)
  <2> DEFINE T == {j \in Nat : j <= n /\ ~ P(j)}
  <2> HIDE DEF P, n
  <2> SUFFICES ASSUME T # {} PROVE FALSE
    BY <1>7
  <2>1. T \subseteq Nat
    OBVIOUS
  <2>2. PICK x \in T : \A y \in T : ~ (y < x)
    <3> HIDE DEF T
    <3> QED
      BY <2>1, TxFold!LeastNatural
  <2>3. x \in Nat /\ x <= n /\ ~ P(x) /\ x # 0
    BY <1>8, <2>2
  <2>4. x - 1 \in Nat /\ x - 1 <= n /\ (x - 1) + 1 = x /\ x - 1 < x
    BY <1>7, <2>3
  <2>5. P(x - 1)
    BY <2>2, <2>4
  <2>6. P((x - 1) + 1)
    BY <1>9, <2>3, <2>4, <2>5
  <2> QED
    BY <2>3, <2>4, <2>6
<1>11. ShapedTables(tables') /\ Accounted(Lasting(tables'), f, records, cutAt)
  <2>1. top - n = f /\ tables' = acc[n]
    BY <1>1, <1>3, <1>5, <1>6
  <2> QED
    BY <1>10, <2>1
<1>12. Accounted(Lasting(tables'), f, records', cutAt)
  <2>1. \A k \in DOMAIN records' : k \in DOMAIN records /\ records'[k] = records[k]
    BY <1>1, <1>2, <1>3
  <2> QED
    BY <1>11, <2>1 DEF Accounted
<1>13. Forward' => cutAt' <= NextHeight'
  <2>1. Forward' => cutOffs = 0
    BY <1>1 DEF Forward
  <2> QED
    BY <1>1, <1>2, <1>3, <2>1 DEF History
<1>14. NextHeight' - 1 = f
  BY <1>2, <1>3
<1> QED
  BY <1>1, <1>2, <1>11, <1>12, <1>13, <1>14 DEF Traced

LEMMA CutOffTraced ==
  ASSUME Window, History, Traced, CutOff
  PROVE  Window' /\ Traced'
<1> DEFINE h == NextHeight
           L == Lasting(tables)
<1>1. /\ block # NoBlock /\ block' = NoBlock
      /\ UNCHANGED <<tables, records, headers, moved>>
      /\ cutAt' = IF h > cutAt THEN h ELSE cutAt
  BY DEF CutOff
<1>2. Window' /\ NextHeight' = h
  BY <1>1 DEF Window, NextHeight, Top
<1>3. h \in Nat /\ cutAt \in Nat
  BY WindowFacts DEF History
<1>4. Shaped(Joined) /\ Accounted(L, h, Put(records, h, Joined.record), cutAt)
      /\ ShapedTables(tables)
  <2>1. Joined.t = tables
    BY DEF Joined, Put
  <2> QED
    BY <1>1, <2>1 DEF Traced, Midway, Shaped
<1> HIDE DEF h, L
<1>5. cutAt' \in Nat /\ h <= cutAt' /\ cutAt <= cutAt'
  BY <1>1, <1>3
<1>6. Accounted(L, h - 1, records, cutAt')
  BY <1>3, <1>4, <1>5 DEF Accounted
<1>7. Forward' => cutAt' <= NextHeight'
  BY <1>1, <1>2, <1>3 DEF Traced, Forward, h
<1>8. Lasting(tables') = L
  BY <1>1 DEF L
<1> QED
  BY <1>1, <1>2, <1>4, <1>6, <1>7, <1>8 DEF Traced

(***************************************************************************)
(* The invariant of the rune ledger: whatever happened, entries are where  *)
(* they are accounted for, and until blocks are rolled back after an       *)
(* attempt was cut off, its tables are in order.                           *)
(***************************************************************************)
Ledger ==
  /\ Window /\ History /\ Traced
  /\ Forward => LedgerInv

LEMMA TracedInit ==
  ASSUME Init
  PROVE  Window /\ History /\ Traced
<1>1. Window
  BY LedgerInit DEF LedgerInv
<1>2. /\ block = NoBlock /\ tables = NoTables /\ cutAt = 0
      /\ ShapedTables(tables) /\ DOMAIN Lasting(tables) = {}
  BY DEF Init, NoTables, EmptyMap, ShapedTables, TableFields, Lasting
<1>3. History
  BY DEF Init, History
<1>4. cutAt <= NextHeight
  BY <1>1, <1>2, WindowFacts
<1> QED
  BY <1>1, <1>2, <1>3, <1>4 DEF Traced, Accounted

LEMMA TracedNext ==
  ASSUME Window, History, Traced, [Next]_vars
  PROVE  Window' /\ Traced'
<1>1. NextHeight \in Nat /\ (Forward' => Forward)
  BY WindowFacts, HistoryNext
<1>2. ASSUME NEW b \in Block, IndexRune(b) PROVE Window' /\ Traced'
  <2> DEFINE h == NextHeight
             s == Started(tables, h)
  <2>1. /\ ShapedTables(tables) /\ Accounted(Lasting(tables), h - 1, records, cutAt)
        /\ Reached(b, IndexTxs(s, Txs[b], 0))
    BY <1>2 DEF IndexRune, Traced
  <2>2. Shaped(s) /\ s.height = h /\ Lasting(s.t) = Lasting(tables)
    BY <2>1, StartedFields
  <2> HIDE DEF h, s
  <2>3. Midway(s, h, records, cutAt)
    <3>1. \A k \in DOMAIN Put(records, h, s.record) : k # h =>
            k \in DOMAIN records /\ Put(records, h, s.record)[k] = records[k]
      BY DEF Put
    <3>2. h \in Nat
      BY <1>1 DEF h
    <3>3. Accounted(Lasting(tables), h, Put(records, h, s.record), cutAt)
      BY <2>1, <3>1, <3>2 DEF Accounted
    <3> QED
      BY <2>2, <3>3 DEF Midway
  <2>4. Txs[b] \in Seq(Tx)
    BY LedgerAssumption
  <2>5. Midway(IndexTxs(s, Txs[b], 0), NextHeight, records, cutAt)
    BY <1>1, <2>3, <2>4, IndexTxsMidway DEF h
  <2> QED
    BY <1>1, <2>1, <2>5, ReachedTraced
<1>3. ASSUME Answered PROVE Window' /\ Traced'
  <2>1. block \in Block /\ Reached(block, Continue(Joined, Txs[block]))
    BY <1>3 DEF Answered, History
  <2>2. Txs[block] \in Seq(Tx) /\ Midway(Joined, NextHeight, records, cutAt)
    BY <1>3, <2>1, LedgerAssumption DEF Answered, Traced
  <2>3. Midway(Continue(Joined, Txs[block]), NextHeight, records, cutAt)
    BY <1>1, <2>2, ContinueMidway
  <2> QED
    BY <1>1, <2>1, <2>3, ReachedTraced
<1>4. ASSUME UNCHANGED vars PROVE Window' /\ Traced'
  BY <1>4 DEF vars, Window, Traced, Forward, Joined, NextHeight, Top
<1> QED
  BY <1>2, <1>3, <1>4, CutOffTraced, HandleReorgTraced DEF Next

(***************************************************************************)
(* The invariant holds of every state of the rune ledger: of any tree of   *)
(* blocks, with any attempts cut off and any rollbacks.                    *)
(***************************************************************************)
THEOREM LedgerCorrect == Spec => []Ledger
<1>1. Init => Ledger
  BY LedgerInit, TracedInit DEF Ledger
<1>2. Ledger /\ [Next]_vars => Ledger'
  <2> SUFFICES ASSUME Ledger, [Next]_vars PROVE Ledger'
    OBVIOUS
  <2>1. History' /\ (Forward' => Forward)
    BY HistoryNext DEF Ledger
  <2>2. Window' /\ Traced'
    BY TracedNext DEF Ledger
  <2>3. Forward' => LedgerInv'
    BY <2>1, LedgerNext DEF Ledger
  <2> QED
    BY <2>1, <2>2, <2>3 DEF Ledger
<1> QED
  BY <1>1, <1>2, PTL DEF Spec

(* If no attempt was cut off, or the chain never moved after one.          *)
LEMMA InOrder ==
  ASSUME Ledger, Forward \/ cutOffs = 0
  PROVE  LedgerInv /\ (cutOffs = 0 => SameTip)
BY DEF Ledger, History, Forward, SameTip

(***************************************************************************)
(* The subtraction of the rune queries (cur_height - entry.block + 1 in    *)
(* u32) is of an entry that is at most one block ahead at every point      *)
(* where a query may come between two awaits, except for what an attempt   *)
(* left that was cut off before blocks were rolled back, and that is at    *)
(* the height of the attempt or below: a rollback removes every entry of a *)
(* block that was indexed to its end.                                      *)
(***************************************************************************)
THEOREM ConfirmationsCorrect == Spec => []Confirmable
<1>1. Ledger => Confirmable
  <2> SUFFICES ASSUME Ledger, NEW id \in DOMAIN tables.entries
               PROVE  \/ tables.entries[id].block <= NextHeight
                      \/ "back" \in moved /\ tables.entries[id].block <= cutAt
    BY DEF Confirmable
  <2>1. NextHeight \in Nat /\ cutAt \in Nat
    BY WindowFacts DEF Ledger, History
  <2>2. PICK rs : Accounted(Lasting(tables), NextHeight, rs, cutAt)
    <3>1. CASE block = NoBlock
      <4>1. Accounted(Lasting(tables), NextHeight - 1, records, cutAt)
        BY <3>1 DEF Ledger, Traced
      <4> HIDE DEF NextHeight
      <4>2. Accounted(Lasting(tables), NextHeight, records, cutAt)
        BY <2>1, <4>1 DEF Accounted
      <4> QED
        BY <4>2
    <3>2. CASE block # NoBlock
      <4>1. Joined.t = tables
        BY DEF Joined, Put
      <4> QED
        BY <3>2, <4>1 DEF Ledger, Traced, Midway
    <3> QED
      BY <3>1, <3>2
  <2>3. /\ tables.entries[id].block \in Nat
        /\ tables.entries[id].block <= cutAt \/ tables.entries[id].block <= NextHeight
    BY <2>2, LastingEntries DEF Accounted
  <2>4. "back" \notin moved => cutAt <= NextHeight
    BY DEF Ledger, Traced, Forward
  <2> HIDE DEF NextHeight
  <2> QED
    BY <2>1, <2>3, <2>4
<1> QED
  BY <1>1, LedgerCorrect, PTL

(***************************************************************************)
(* handle_reorg finds the entry of every rune that a change record of the  *)
(* window has minted or burned, so that none of its unwraps traps, until   *)
(* blocks are rolled back after an attempt was cut off.                    *)
(***************************************************************************)
THEOREM RollbackCorrect == Spec => []RollbackNeverTraps
<1>1. Ledger => RollbackNeverTraps
  <2> SUFFICES ASSUME Ledger, "back" \notin moved, NEW h \in DOMAIN records
               PROVE  Undoable(tables, records[h])
    BY DEF RollbackNeverTraps
  <2>1. LedgerInv
    BY InOrder DEF Forward
  <2>2. RecordFits(records[h], h, Lasting(tables))
    BY <2>1, LedgerParts DEF Recorded
  <2> QED
    BY <2>2, LastingEntries DEF RecordFits, Undoable
<1> QED
  BY <1>1, LedgerCorrect, PTL

(***************************************************************************)
(* Numbers that are different and fill 0..n-1 are as many as the runes.    *)
(***************************************************************************)
LEMMA DenseNumbers ==
  ASSUME NEW S, NEW f \in [S -> Nat], NEW n \in Nat,
         \A i, j \in S : i # j => f[i] # f[j],
         \A i \in S : f[i] < n, \A k \in 0..n - 1 : \E i \in S : f[i] = k
  PROVE  {f[i] : i \in S} = 0..Cardinality(S) - 1
<1>1. \A i \in S : f[i] \in 0..(n - 1)
  OBVIOUS
<1>2. {f[i] : i \in S} = 0..(n - 1)
  BY <1>1
<1> DEFINE g == [k \in 0..(n - 1) |-> CHOOSE i \in S : f[i] = k]
<1>3. \A k \in 0..(n - 1) : g[k] \in S /\ f[g[k]] = k
  OBVIOUS
<1> HIDE DEF g
<1>4. g \in Bijection(0..(n - 1), S)
  <2>1. DOMAIN g = 0..(n - 1) /\ g \in [0..(n - 1) -> S]
    BY <1>3 DEF g
  <2>2. \A k, l \in 0..(n - 1) : g[k] = g[l] => k = l
    BY <1>3
  <2>3. \A i \in S : \E k \in 0..(n - 1) : g[k] = i
    BY <1>1, <1>3
  <2> QED
    BY <2>1, <2>2, <2>3 DEF Bijection, Injection, Surjection, IsInjective
<1>5. IsFiniteSet(0..(n - 1)) /\ Cardinality(0..(n - 1)) = n
  BY FS_Interval
<1>6. Cardinality(S) = n
  BY <1>4, <1>5, FS_Bijection DEF ExistsBijection
<1> QED
  BY <1>2, <1>6

(***************************************************************************)
(* Runes are numbered from 0 in the order of their etchings without a gap  *)
(* after every sequence of blocks and rollbacks without an attempt that    *)
(* was cut off, and no two share a number after such attempts either,      *)
(* whichever blocks follow them, until blocks are rolled back.             *)
(***************************************************************************)
THEOREM NumbersCorrect == Spec => []NumbersDense
<1>1. Ledger => NumbersDense
  <2> SUFFICES ASSUME Ledger, Forward \/ cutOffs = 0 PROVE NumbersDense
    BY DEF NumbersDense, Forward
  <2> DEFINE S == DOMAIN tables.entries
             f == [id \in S |-> tables.entries[id].number]
  <2>1. /\ Rows(tables.runes, Lasting(tables), cutOffs = 0)
        /\ cutOffs = 0 => \E n \in Nat :
              /\ \A id \in DOMAIN Lasting(tables) : Lasting(tables)[id].number < n
              /\ \A k \in 0..n - 1 : \E id \in DOMAIN Lasting(tables) :
                   Lasting(tables)[id].number = k
    BY InOrder, LedgerParts
  <2>2. f \in [S -> Nat] /\ \A i, j \in S : i # j => f[i] # f[j]
    BY <2>1, LastingEntries DEF Rows
  <2>3. ASSUME cutOffs = 0
        PROVE  /\ {f[id] : id \in S} = 0..Cardinality(S) - 1
               /\ \A i, j \in S : Before(i, j) => f[i] < f[j]
    <3>1. PICK n \in Nat : /\ \A id \in S : f[id] < n
                           /\ \A k \in 0..n - 1 : \E id \in S : f[id] = k
      <4>1. /\ DOMAIN Lasting(tables) = S
            /\ \A id \in S : f[id] = Lasting(tables)[id].number
        BY LastingEntries
      <4> HIDE DEF f, S
      <4> QED
        BY <2>1, <2>3, <4>1
    <3>2. \A i, j \in S : Before(i, j) => f[i] < f[j]
      BY <2>1, <2>3, LastingEntries DEF Rows
    <3> HIDE DEF f, S
    <3>3. {f[id] : id \in S} = 0..Cardinality(S) - 1
      BY <2>2, <3>1, DenseNumbers
    <3> QED
      BY <3>2, <3>3
  <2>4. {f[id] : id \in S} = {tables.entries[id].number : id \in S}
    OBVIOUS
  <2>5. \A id \in S : f[id] = tables.entries[id].number
    OBVIOUS
  <2> HIDE DEF f
  <2> QED
    BY <2>2, <2>3, <2>4, <2>5 DEF NumbersDense
<1> QED
  BY <1>1, LedgerCorrect, PTL

(***************************************************************************)
(* The tables by name, by id and by transaction are about the same runes,  *)
(* also in the middle of a block and after attempts that were cut off, if  *)
(* the same block is tried again and nothing is rolled back.               *)
(***************************************************************************)
THEOREM IndexesCorrect == Spec => []IndexesAgree
<1>1. Ledger => IndexesAgree
  <2> SUFFICES ASSUME Ledger, moved = {} PROVE IndexesAgree
    BY DEF IndexesAgree
  <2>1. Agree(tables.ids, tables.etchings, Lasting(tables))
    BY InOrder, LedgerParts DEF SameTip, Forward
  <2> QED
    BY <2>1, LastingEntries DEF Agree, IndexesAgree
<1> QED
  BY <1>1, LedgerCorrect, PTL
=============================================================================
