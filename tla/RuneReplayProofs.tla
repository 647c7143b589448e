-------------------------- MODULE RuneReplayProofs --------------------------
(***************************************************************************)
(* The rune tables are a function of the indexed chain: as long as no      *)
(* attempt was cut off, suspending at lookups, pruning the window and      *)
(* rolling back make no difference.                                        *)
(***************************************************************************)
EXTENDS RuneLedgerProofs

-----------------------------------------------------------------------------
(* The replay of a chain, unfolded.                                        *)

AnswerStep(txs, b, c, x, s) == IF s.at = 0 THEN s ELSE Continue(s, txs)

AnswerFold == INSTANCE Folding WITH Step <- AnswerStep, Pick <- Largest

BlockStep(chain, b, c, x, t) ==
  LET i == [k \in DOMAIN chain |-> k][x] IN IndexWhole(t, FirstHeight + i - 1, chain[i])

BlockFold == INSTANCE Folding WITH Step <- BlockStep, Pick <- Largest

(* acc[k] is where a block indexed in one go is after k answers.           *)
Iterates(acc, t, h, b) ==
  /\ acc[0] = IndexTxs(Started(t, h), Txs[b], 0)
  /\ \A k \in 1..Len(Txs[b]) :
       acc[k] = IF acc[k-1].at = 0 THEN acc[k-1] ELSE Continue(acc[k-1], Txs[b])
  /\ IndexWhole(t, h, b) = Updated(acc[Len(Txs[b])]).t

Answers(t, h, b) == CHOOSE acc : Iterates(acc, t, h, b)

LEMMA AnswersIterate ==
  ASSUME NEW t, NEW h, NEW b \in Block
  PROVE  Iterates(Answers(t, h, b), t, h, b)
<1> DEFINE txs == Txs[b]
           n == Len(txs)
           s0 == IndexTxs(Started(t, h), Txs[b], 0)
<1>1. txs \in Seq(Tx)
  BY LedgerAssumption
<1>2. n \in Nat /\ DOMAIN txs = 1..n /\ DOMAIN [k \in DOMAIN txs |-> k] = 1..n
  BY <1>1
<1>3. IndexWhole(t, h, b)
        = Updated(AnswerFold!Fold(txs, 0, 0, s0, DOMAIN [k \in DOMAIN txs |-> k])).t
  BY DEF IndexWhole, FoldLeftDomain, FoldLeft, MapThenFoldSet, AnswerFold!Fold, AnswerStep, Largest
<1>4. IndexWhole(t, h, b) = Updated(AnswerFold!Fold(txs, 0, 0, s0, 1..n)).t
  BY <1>2, <1>3
<1> HIDE DEF n, s0
<1>5. AnswerFold!FromLeft(n)
  BY <1>2, LargestFacts DEF AnswerFold!FromLeft
<1>6. AnswerFold!Unfolds(txs, 0, 0, s0, n)
  BY <1>2, <1>5, AnswerFold!FoldUnfolds
<1>7. PICK acc : /\ acc[0] = s0
                 /\ \A k \in 1..n : acc[k] = AnswerStep(txs, 0, 0, k, acc[k - 1])
                 /\ AnswerFold!Fold(txs, 0, 0, s0, 1..n) = acc[n]
  BY <1>6 DEF AnswerFold!Unfolds
<1>8. Iterates(acc, t, h, b)
  BY <1>4, <1>7 DEF AnswerStep, n, s0, Iterates
<1> QED
  BY <1>8 DEF Answers

(* acc[i] are the tables of the first i blocks of a chain.                 *)
Replays(acc, chain) ==
  /\ acc[0] = NoTables /\ Replayed(chain) = acc[Len(chain)]
  /\ \A i \in 1..Len(chain) : acc[i] = IndexWhole(acc[i-1], FirstHeight + i - 1, chain[i])

HasReplay(chain) == \E acc : Replays(acc, chain)

LEMMA ReplayedRuns ==
  ASSUME NEW chain \in Seq(Block)
  PROVE  HasReplay(chain)
<1> DEFINE n == Len(chain)
<1>1. n \in Nat /\ DOMAIN chain = 1..n /\ DOMAIN [k \in DOMAIN chain |-> k] = 1..n
  OBVIOUS
<1>2. Replayed(chain) = BlockFold!Fold(chain, 0, 0, NoTables, DOMAIN [k \in DOMAIN chain |-> k])
  BY DEF Replayed, FoldLeftDomain, FoldLeft, MapThenFoldSet, BlockFold!Fold, BlockStep, Largest
<1>3. Replayed(chain) = BlockFold!Fold(chain, 0, 0, NoTables, 1..n)
  BY <1>1, <1>2
<1> HIDE DEF n
<1>4. BlockFold!FromLeft(n)
  BY <1>1, LargestFacts DEF BlockFold!FromLeft
<1>5. BlockFold!Unfolds(chain, 0, 0, NoTables, n)
  BY <1>1, <1>4, BlockFold!FoldUnfolds
<1>6. PICK acc : /\ acc[0] = NoTables
                 /\ \A i \in 1..n : acc[i] = BlockStep(chain, 0, 0, i, acc[i - 1])
                 /\ BlockFold!Fold(chain, 0, 0, NoTables, 1..n) = acc[n]
  BY <1>5 DEF BlockFold!Unfolds
<1>7. Replays(acc, chain)
  BY <1>1, <1>3, <1>6 DEF BlockStep, n, Replays
<1> QED
  BY <1>7 DEF HasReplay

(***************************************************************************)
(* The tables of a chain and one more block.                               *)
(***************************************************************************)
LEMMA ReplayAppend ==
  ASSUME NEW c \in Seq(Block), NEW b \in Block
  PROVE  Replayed(Append(c, b)) = IndexWhole(Replayed(c), FirstHeight + Len(c), b)
<1> DEFINE d == Append(c, b)
           n == Len(c)
<1>1. /\ d \in Seq(Block) /\ n \in Nat /\ Len(d) = n + 1 /\ d[n + 1] = b
      /\ \A i \in 1..n : d[i] = c[i]
  OBVIOUS
<1> HIDE DEF d, n
<1>2. PICK a : Replays(a, c)
  BY ReplayedRuns DEF HasReplay
<1>3. PICK e : Replays(e, d)
  BY <1>1, ReplayedRuns DEF HasReplay
<1> DEFINE P(i) == a[i] = e[i]
<1>4. P(n)
  <2>1. P(0)
    BY <1>2, <1>3 DEF Replays
  <2>2. ASSUME NEW i \in Nat, i + 1 <= n, P(i) PROVE P(i + 1)
    <3>1. i + 1 \in 1..n /\ i + 1 \in 1..n + 1 /\ (i + 1) - 1 = i
      BY <1>1, <2>2
    <3>2. a[i + 1] = IndexWhole(a[i], FirstHeight + (i + 1) - 1, c[i + 1])
      BY <1>2, <3>1 DEF Replays, n
    <3>3. e[i + 1] = IndexWhole(e[i], FirstHeight + (i + 1) - 1, d[i + 1])
      BY <1>1, <1>3, <3>1 DEF Replays
    <3> QED
      BY <1>1, <2>2, <3>1, <3>2, <3>3
  <2> DEFINE T == {i \in Nat : i <= n /\ ~ P(i)}
  <2> HIDE DEF P
  <2> SUFFICES ASSUME T # {} PROVE FALSE
    BY <1>1
  <2>3. T \subseteq Nat
    OBVIOUS
  <2>4. PICK x \in T : \A y \in T : ~ (y < x)
    <3> HIDE DEF T
    <3> QED
      BY <2>3, TxFold!LeastNatural
  <2>5. x \in Nat /\ x <= n /\ ~ P(x) /\ x # 0
    BY <2>1, <2>4
  <2>6. x - 1 \in Nat /\ x - 1 <= n /\ (x - 1) + 1 = x /\ x - 1 < x
    BY <1>1, <2>5
  <2>7. P(x - 1)
    BY <2>4, <2>6
  <2>8. P((x - 1) + 1)
    BY <2>2, <2>5, <2>6, <2>7
  <2> QED
    BY <2>5, <2>6, <2>8
<1>5. e[n + 1] = IndexWhole(e[n], FirstHeight + (n + 1) - 1, b)
  <2>1. n + 1 \in 1..Len(d) /\ (n + 1) - 1 = n
    BY <1>1
  <2> QED
    BY <1>1, <1>3, <2>1 DEF Replays
<1>6. FirstHeight + (n + 1) - 1 = FirstHeight + n
  BY <1>1, LedgerAssumption
<1>7. Replayed(c) = a[n] /\ Replayed(d) = e[n + 1]
  BY <1>1, <1>2, <1>3 DEF Replays, n
<1> QED
  BY <1>4, <1>5, <1>6, <1>7 DEF d, n

(* The tables of the chain to a block.                                     *)
Pure(b) == IF b = NoBlock THEN NoTables ELSE Replayed(ChainTo[b])

LEMMA NoReplay ==
  Replayed(<<>>) = NoTables
<1>1. <<>> \in Seq(Block) /\ Len(<<>>) = 0
  OBVIOUS
<1>2. HasReplay(<<>>)
  BY <1>1, ReplayedRuns
<1>3. PICK a : Replays(a, <<>>)
  BY <1>2 DEF HasReplay
<1> QED
  BY <1>1, <1>3 DEF Replays

LEMMA PureNext ==
  ASSUME NEW b \in Block, NEW h \in Nat, Len(ChainTo[b]) = h - FirstHeight + 1
  PROVE  Pure(b) = IndexWhole(Pure(Parent[b]), h, b)
<1>1. b # NoBlock /\ FirstHeight \in Nat /\ Parent[b] \in Block \cup {NoBlock}
  BY LedgerAssumption
<1>2. CASE Parent[b] = NoBlock
  <2>1. ChainTo[b] = Append(<<>>, b) /\ Len(ChainTo[b]) = 1 /\ <<>> \in Seq(Block)
    BY <1>2, ChainEnds
  <2>2. FirstHeight + Len(<<>>) = h
    BY <1>1, <2>1
  <2> QED
    BY <1>1, <1>2, <2>1, <2>2, NoReplay, ReplayAppend DEF Pure
<1>3. CASE Parent[b] # NoBlock
  <2>1. PICK c \in Seq(Block) : c = ChainTo[Parent[b]] /\ ChainTo[b] = Append(c, b)
    BY <1>1, <1>3, ChainEnds
  <2>2. Len(ChainTo[b]) = Len(c) + 1 /\ Len(c) \in Nat
    BY <2>1
  <2>3. FirstHeight + Len(c) = h
    BY <1>1, <2>2
  <2> QED
    BY <1>1, <1>3, <2>1, <2>3, ReplayAppend DEF Pure
<1> QED
  BY <1>2, <1>3

-----------------------------------------------------------------------------
(***************************************************************************)
(* The updater of the indexer and that of the replay are twins: they       *)
(* differ in the rows of the statistics below the window only.             *)
(***************************************************************************)
SameTables(t, u, W) ==
  /\ t.balances = u.balances /\ t.heights = u.heights /\ t.entries = u.entries
  /\ t.ids = u.ids /\ t.etchings = u.etchings
  /\ t.runes = InWindow(u.runes, W) /\ t.reserved = InWindow(u.reserved, W)

Twin(s, r, W) ==
  /\ Shaped(s) /\ Shaped(r) /\ SameTables(s.t, r.t, W)
  /\ s.height = r.height /\ s.runes = r.runes /\ s.burned = r.burned
  /\ s.at = r.at /\ s.left = r.left

(* The heights of the window and of the replay end at h.                   *)
Span(W, h) == h \in W /\ \E lo \in Nat : W = lo..h /\ FirstHeight <= lo

IsMap(f) == f = [x \in DOMAIN f |-> f[x]]

Full(t, h) ==
  /\ IsMap(t.runes) /\ DOMAIN t.runes = FirstHeight..h
  /\ IsMap(t.reserved) /\ DOMAIN t.reserved = FirstHeight..h

LEMMA WindowRow ==
  ASSUME NEW m, NEW W, NEW h \in Nat, Span(W, h), DOMAIN m = FirstHeight..h
  PROVE  LastRow(InWindow(m, W)) = LastRow(m) /\ LastRow(m) = m[h]
<1>1. PICK lo \in Nat : W = lo..h /\ FirstHeight <= lo /\ lo <= h
  BY DEF Span
<1>2. FirstHeight \in Nat /\ FirstHeight <= h
  BY <1>1, LedgerAssumption
<1>3. DOMAIN InWindow(m, W) = lo..h /\ InWindow(m, W)[h] = m[h]
  BY <1>1, <1>2 DEF InWindow
<1> QED
  BY <1>1, <1>2, <1>3, LastRowIs

LEMMA WindowPut ==
  ASSUME NEW m, NEW W, NEW h, NEW v, h \in W
  PROVE  InWindow(Put(m, h, v), W) = Put(InWindow(m, W), h, v)
BY DEF InWindow, Put

-----------------------------------------------------------------------------
(* The fields of what the parts of index_runes return.                     *)

Fields(s) ==
  /\ DOMAIN s = {"height", "runes", "burned", "record", "at", "left", "t"}
  /\ DOMAIN s.t = {"balances", "heights", "entries", "ids", "etchings", "runes", "reserved"}
  /\ DOMAIN s.record = {"removed", "added", "burned", "mints", "etched"}

LEMMA ShapedFields ==
  ASSUME NEW s, Shaped(s)
  PROVE  Fields(s)
BY DEF Fields, Shaped, ShapedTables, TableFields, RecordFields, UpdaterFields

Taken(balances, heights, spent) ==
  [o \in spent |-> [balances |-> balances[o], height |-> heights[o]]]

Spends(s, tx) == Inputs[tx] \cap DOMAIN s.t.balances

LEMMA UnallocatedIs ==
  ASSUME NEW s, Shaped(s), NEW tx
  PROVE  LET u == Unallocated(s, tx) IN
         /\ Shaped(u)
         /\ u.left = Gathered(s.t.balances, Spends(s, tx))
         /\ u.height = s.height /\ u.runes = s.runes /\ u.burned = s.burned
         /\ u.at = s.at
         /\ u.t.balances = Except(s.t.balances, Spends(s, tx))
         /\ u.t.heights = Except(s.t.heights, Spends(s, tx))
         /\ u.t.entries = s.t.entries /\ u.t.ids = s.t.ids /\ u.t.etchings = s.t.etchings
         /\ u.t.runes = s.t.runes /\ u.t.reserved = s.t.reserved
         /\ u.record.removed = Override(s.record.removed, Taken(s.t.balances, s.t.heights, Spends(s, tx)))
         /\ u.record.added = s.record.added /\ u.record.burned = s.record.burned /\ u.record.mints = s.record.mints
         /\ u.record.etched = s.record.etched
<1> DEFINE spent == Spends(s, tx)
<1>1. PICK left, balances, heights, gone :
        /\ left = Gathered(s.t.balances, spent)
        /\ balances = Except(s.t.balances, spent)
        /\ heights = Except(s.t.heights, spent)
        /\ gone = Override(s.record.removed, Taken(s.t.balances, s.t.heights, spent))
  OBVIOUS
<1>2. PICK u : u = Unallocated(s, tx)
  OBVIOUS
<1>3. u = [s EXCEPT !.left = left,
                    !.t.balances = balances,
                    !.t.heights = heights,
                    !.record.removed = gone]
  BY <1>1, <1>2 DEF Unallocated, Taken, Spends
<1>4. Fields(s)
  BY ShapedFields
<1>5. /\ u.left = left
      /\ u.height = s.height /\ u.runes = s.runes /\ u.burned = s.burned
      /\ u.at = s.at
      /\ u.t.balances = balances
      /\ u.t.heights = heights
      /\ u.t.entries = s.t.entries /\ u.t.ids = s.t.ids /\ u.t.etchings = s.t.etchings
      /\ u.t.runes = s.t.runes /\ u.t.reserved = s.t.reserved
      /\ u.record.removed = gone
      /\ u.record.added = s.record.added /\ u.record.burned = s.record.burned /\ u.record.mints = s.record.mints
      /\ u.record.etched = s.record.etched
  BY <1>3, <1>4 DEF Fields
<1>6. Shaped(u)
  BY <1>2, UnallocatedQuiet DEF Quiet
<1> QED
  BY <1>1, <1>2, <1>5, <1>6

MintOf(s, tx) == CHOOSE i \in Minted(s.t.entries, s.height, tx) : TRUE

LEMMA MintIs ==
  ASSUME NEW s, Shaped(s), NEW tx, Minted(s.t.entries, s.height, tx) # {}
  PROVE  LET u == MintRune(s, tx)
             id == MintOf(s, tx) IN
         /\ Shaped(u)
         /\ u.left = Plus(s.left, id, MintAmount(s.t.entries[id]))
         /\ u.height = s.height /\ u.runes = s.runes /\ u.burned = s.burned
         /\ u.at = s.at
         /\ u.t.entries = [s.t.entries EXCEPT ![id].mints = @ + 1]
         /\ u.t.balances = s.t.balances /\ u.t.heights = s.t.heights /\ u.t.ids = s.t.ids
         /\ u.t.etchings = s.t.etchings /\ u.t.runes = s.t.runes /\ u.t.reserved = s.t.reserved
         /\ u.record.mints = PutNew(s.record.mints, id, s.t.entries[id].mints)
         /\ u.record.removed = s.record.removed /\ u.record.added = s.record.added /\ u.record.burned = s.record.burned
         /\ u.record.etched = s.record.etched
<1>0. PICK id : id = MintOf(s, tx)
  OBVIOUS
<1>1. PICK e, entries, left, mints :
        /\ e = s.t.entries[id]
        /\ entries = [s.t.entries EXCEPT ![id].mints = @ + 1]
        /\ left = Plus(s.left, id, MintAmount(s.t.entries[id]))
        /\ mints = PutNew(s.record.mints, id, s.t.entries[id].mints)
  OBVIOUS
<1>2. PICK u : u = MintRune(s, tx)
  OBVIOUS
<1>3. u = [s EXCEPT !.left = left,
                    !.t.entries = entries,
                    !.record.mints = mints]
  BY <1>0, <1>1, <1>2 DEF MintRune, MintOf
<1>4. Fields(s)
  BY ShapedFields
<1>5. /\ u.left = left
      /\ u.height = s.height /\ u.runes = s.runes /\ u.burned = s.burned
      /\ u.at = s.at
      /\ u.t.entries = entries
      /\ u.t.balances = s.t.balances /\ u.t.heights = s.t.heights /\ u.t.ids = s.t.ids
      /\ u.t.etchings = s.t.etchings /\ u.t.runes = s.t.runes /\ u.t.reserved = s.t.reserved
      /\ u.record.mints = mints
      /\ u.record.removed = s.record.removed /\ u.record.added = s.record.added /\ u.record.burned = s.record.burned
      /\ u.record.etched = s.record.etched
  BY <1>3, <1>4 DEF Fields
<1>6. Shaped(u)
  BY <1>2, MintQuiet DEF Quiet
<1> QED
  BY <1>0, <1>1, <1>2, <1>5, <1>6

LEMMA ReserveIs ==
  ASSUME NEW s, Shaped(s)
  PROVE  LET u == Reserve(s) IN
         /\ Shaped(u)
         /\ u.height = s.height /\ u.runes = s.runes /\ u.burned = s.burned
         /\ u.at = s.at /\ u.left = s.left
         /\ u.t.reserved = Put(s.t.reserved, s.height, LastRow(s.t.reserved) + 1)
         /\ u.t.balances = s.t.balances /\ u.t.heights = s.t.heights /\ u.t.entries = s.t.entries
         /\ u.t.ids = s.t.ids /\ u.t.etchings = s.t.etchings /\ u.t.runes = s.t.runes
         /\ u.record.removed = s.record.removed /\ u.record.added = s.record.added /\ u.record.burned = s.record.burned
         /\ u.record.mints = s.record.mints /\ u.record.etched = s.record.etched
<1>1. PICK rows :
        /\ rows = Put(s.t.reserved, s.height, LastRow(s.t.reserved) + 1)
  OBVIOUS
<1>2. PICK u : u = Reserve(s)
  OBVIOUS
<1>3. u = [s EXCEPT !.t.reserved = rows]
  BY <1>1, <1>2 DEF Reserve
<1>4. Fields(s)
  BY ShapedFields
<1>5. /\ u.height = s.height /\ u.runes = s.runes /\ u.burned = s.burned
      /\ u.at = s.at /\ u.left = s.left
      /\ u.t.reserved = rows
      /\ u.t.balances = s.t.balances /\ u.t.heights = s.t.heights /\ u.t.entries = s.t.entries
      /\ u.t.ids = s.t.ids /\ u.t.etchings = s.t.etchings /\ u.t.runes = s.t.runes
      /\ u.record.removed = s.record.removed /\ u.record.added = s.record.added /\ u.record.burned = s.record.burned
      /\ u.record.mints = s.record.mints /\ u.record.etched = s.record.etched
  BY <1>3, <1>4 DEF Fields
<1>6. Shaped(u)
  BY <1>2, ReserveQuiet DEF Quiet
<1> QED
  BY <1>1, <1>2, <1>5, <1>6

Entry(h, number, tx, rune) ==
  LET etching == CHOOSE e \in Artifact[tx].etching : TRUE
      plain == Artifact[tx].kind = "cenotaph"
  IN [block |-> h, tx |-> tx, rune |-> rune, number |-> number, burned |-> 0, mints |-> 0,
      premine |-> IF plain THEN 0 ELSE etching.premine,
      terms |-> IF plain THEN {} ELSE etching.terms]

LEMMA CreateIs ==
  ASSUME NEW s, Shaped(s), NEW tx, NEW id, NEW rune
  PROVE  LET u == CreateRuneEntry(s, tx, id, rune) IN
         /\ Shaped(u)
         /\ u.runes = s.runes + 1
         /\ u.height = s.height /\ u.burned = s.burned /\ u.at = s.at
         /\ u.left = s.left
         /\ u.t.entries = Put(s.t.entries, id, Entry(s.height, s.runes, tx, rune))
         /\ u.t.ids = Put(s.t.ids, rune, id)
         /\ u.t.etchings = Put(s.t.etchings, tx, rune)
         /\ u.t.runes = Put(s.t.runes, s.height, s.runes + 1)
         /\ u.t.balances = s.t.balances /\ u.t.heights = s.t.heights /\ u.t.reserved = s.t.reserved
         /\ u.record.etched = s.record.etched \cup {<<rune, id, tx>>}
         /\ u.record.removed = s.record.removed /\ u.record.added = s.record.added /\ u.record.burned = s.record.burned
         /\ u.record.mints = s.record.mints
<1>1. PICK ids, etchings, rows, entries, next, etched :
        /\ ids = Put(s.t.ids, rune, id)
        /\ etchings = Put(s.t.etchings, tx, rune)
        /\ rows = Put(s.t.runes, s.height, s.runes + 1)
        /\ entries = Put(s.t.entries, id, Entry(s.height, s.runes, tx, rune))
        /\ next = s.runes + 1
        /\ etched = s.record.etched \cup {<<rune, id, tx>>}
  OBVIOUS
<1>2. PICK u : u = CreateRuneEntry(s, tx, id, rune)
  OBVIOUS
<1>3. u = [s EXCEPT !.t.ids = ids,
                    !.t.etchings = etchings,
                    !.t.runes = rows,
                    !.t.entries = entries,
                    !.runes = next,
                    !.record.etched = etched]
  BY <1>1, <1>2 DEF CreateRuneEntry, Entry
<1>4. Fields(s)
  BY ShapedFields
<1>5. /\ u.runes = next
      /\ u.height = s.height /\ u.burned = s.burned /\ u.at = s.at
      /\ u.left = s.left
      /\ u.t.entries = entries
      /\ u.t.ids = ids
      /\ u.t.etchings = etchings
      /\ u.t.runes = rows
      /\ u.t.balances = s.t.balances /\ u.t.heights = s.t.heights /\ u.t.reserved = s.t.reserved
      /\ u.record.etched = etched
      /\ u.record.removed = s.record.removed /\ u.record.added = s.record.added /\ u.record.burned = s.record.burned
      /\ u.record.mints = s.record.mints
  BY <1>3, <1>4 DEF Fields
<1>6. Shaped(u)
  BY <1>2, CreateEtches DEF Etches
<1> QED
  BY <1>1, <1>2, <1>5, <1>6

Payees(a, tx) == {<<tx, v>> : v \in {w \in Pays(tx) : DOMAIN a.out[w] # {}}}
Paid(a, tx) == [o \in Payees(a, tx) |-> a.out[o[2]]]
PaidAt(a, tx, h) == [o \in Payees(a, tx) |-> h]

LEMMA SettleIs ==
  ASSUME NEW s, Shaped(s), NEW a, NEW tx
  PROVE  LET u == Settle(s, a, tx) IN
         /\ Shaped(u)
         /\ u.burned = Burnt(s.burned, a, tx)
         /\ u.at = 0
         /\ u.left = EmptyMap
         /\ u.height = s.height /\ u.runes = s.runes
         /\ u.t.balances = Override(s.t.balances, Paid(a, tx))
         /\ u.t.heights = Override(s.t.heights, PaidAt(a, tx, s.height))
         /\ u.t.entries = s.t.entries /\ u.t.ids = s.t.ids /\ u.t.etchings = s.t.etchings
         /\ u.t.runes = s.t.runes /\ u.t.reserved = s.t.reserved
         /\ u.record.added = s.record.added \cup Payees(a, tx)
         /\ u.record.removed = s.record.removed /\ u.record.burned = s.record.burned /\ u.record.mints = s.record.mints
         /\ u.record.etched = s.record.etched
<1>1. PICK balances, heights, added, burned, zero, none :
        /\ balances = Override(s.t.balances, Paid(a, tx))
        /\ heights = Override(s.t.heights, PaidAt(a, tx, s.height))
        /\ added = s.record.added \cup Payees(a, tx)
        /\ burned = Burnt(s.burned, a, tx)
        /\ zero = 0
        /\ none = EmptyMap
  OBVIOUS
<1>2. PICK u : u = Settle(s, a, tx)
  OBVIOUS
<1>3. u = [s EXCEPT !.t.balances = balances,
                    !.t.heights = heights,
                    !.record.added = added,
                    !.burned = burned,
                    !.at = zero,
                    !.left = none]
  BY <1>1, <1>2 DEF Settle, Payees, Paid, PaidAt
<1>4. Fields(s)
  BY ShapedFields
<1>5. /\ u.burned = burned
      /\ u.at = zero
      /\ u.left = none
      /\ u.height = s.height /\ u.runes = s.runes
      /\ u.t.balances = balances
      /\ u.t.heights = heights
      /\ u.t.entries = s.t.entries /\ u.t.ids = s.t.ids /\ u.t.etchings = s.t.etchings
      /\ u.t.runes = s.t.runes /\ u.t.reserved = s.t.reserved
      /\ u.record.added = added
      /\ u.record.removed = s.record.removed /\ u.record.burned = s.record.burned /\ u.record.mints = s.record.mints
      /\ u.record.etched = s.record.etched
  BY <1>3, <1>4 DEF Fields
<1>6. Shaped(u)
  BY <1>2, SettleQuiet DEF Quiet
<1> QED
  BY <1>1, <1>2, <1>5, <1>6

-----------------------------------------------------------------------------
(***************************************************************************)
(* Twins stay twins.  t0 are the tables before the block: the replay only  *)
(* writes the rows of the block's height h.                                *)
(***************************************************************************)
Twins(s, r, t0, W, h) ==
  /\ Twin(s, r, W) /\ Span(W, h) /\ Full(r.t, h) /\ r.height = h
  /\ \A k \in FirstHeight..h : k # h => r.t.runes[k] = t0.runes[k] /\ r.t.reserved[k] = t0.reserved[k]

LEMMA SpanHeight ==
  ASSUME NEW W, NEW h \in Nat, Span(W, h)
  PROVE  h \in FirstHeight..h /\ h \in W
BY LedgerAssumption DEF Span

LEMMA UnallocatedTwins ==
  ASSUME NEW s, NEW r, NEW t0, NEW W, NEW h \in Nat, NEW tx, Twins(s, r, t0, W, h)
  PROVE  Twins(Unallocated(s, tx), Unallocated(r, tx), t0, W, h)
<1>1. PICK spent : spent = Spends(s, tx)
  OBVIOUS
<1>2. spent = Spends(r, tx)
  BY <1>1 DEF Twins, Twin, SameTables, Spends
<1>3. PICK p, q : p = Unallocated(s, tx) /\ q = Unallocated(r, tx) /\ Shaped(s) /\ Shaped(r)
  BY DEF Twins, Twin
<1>4. /\ Shaped(p) /\ p.left = Gathered(s.t.balances, spent)
      /\ p.height = s.height /\ p.runes = s.runes /\ p.burned = s.burned /\ p.at = s.at
      /\ p.t.balances = Except(s.t.balances, spent) /\ p.t.heights = Except(s.t.heights, spent)
      /\ p.t.entries = s.t.entries /\ p.t.ids = s.t.ids /\ p.t.etchings = s.t.etchings
      /\ p.t.runes = s.t.runes /\ p.t.reserved = s.t.reserved
  BY <1>1, <1>3, UnallocatedIs
<1>5. /\ Shaped(q) /\ q.left = Gathered(r.t.balances, spent)
      /\ q.height = r.height /\ q.runes = r.runes /\ q.burned = r.burned /\ q.at = r.at
      /\ q.t.balances = Except(r.t.balances, spent) /\ q.t.heights = Except(r.t.heights, spent)
      /\ q.t.entries = r.t.entries /\ q.t.ids = r.t.ids /\ q.t.etchings = r.t.etchings
      /\ q.t.runes = r.t.runes /\ q.t.reserved = r.t.reserved
  BY <1>2, <1>3, UnallocatedIs
<1>6. Twins(p, q, t0, W, h)
  BY <1>4, <1>5 DEF Twins, Twin, SameTables, Full
<1> QED
  BY <1>3, <1>6

LEMMA MintTwins ==
  ASSUME NEW s, NEW r, NEW t0, NEW W, NEW h \in Nat, NEW tx, Twins(s, r, t0, W, h)
  PROVE  Twins(MintRune(s, tx), MintRune(r, tx), t0, W, h)
<1>1. /\ s.t.entries = r.t.entries /\ s.height = r.height /\ s.left = r.left
      /\ Shaped(s) /\ Shaped(r)
  BY DEF Twins, Twin, SameTables
<1>2. CASE Minted(s.t.entries, s.height, tx) = {}
  BY <1>1, <1>2 DEF MintRune
<1>3. CASE Minted(s.t.entries, s.height, tx) # {}
  <2>1. PICK id : id = MintOf(s, tx)
    OBVIOUS
  <2>2. Minted(r.t.entries, r.height, tx) # {} /\ id = MintOf(r, tx)
    BY <1>1, <1>3, <2>1 DEF MintOf
  <2>3. PICK p, q : p = MintRune(s, tx) /\ q = MintRune(r, tx)
    OBVIOUS
  <2>4. PICK entries, left :
          /\ entries = [s.t.entries EXCEPT ![id].mints = @ + 1]
          /\ left = Plus(s.left, id, MintAmount(s.t.entries[id]))
    OBVIOUS
  <2>5. /\ Shaped(p) /\ p.left = left
        /\ p.height = s.height /\ p.runes = s.runes /\ p.burned = s.burned /\ p.at = s.at
        /\ p.t.balances = s.t.balances /\ p.t.heights = s.t.heights
        /\ p.t.entries = entries /\ p.t.ids = s.t.ids /\ p.t.etchings = s.t.etchings
        /\ p.t.runes = s.t.runes /\ p.t.reserved = s.t.reserved
    BY <1>1, <1>3, <2>1, <2>3, <2>4, MintIs
  <2>6. /\ Shaped(q) /\ q.left = left
        /\ q.height = r.height /\ q.runes = r.runes /\ q.burned = r.burned /\ q.at = r.at
        /\ q.t.balances = r.t.balances /\ q.t.heights = r.t.heights
        /\ q.t.entries = entries /\ q.t.ids = r.t.ids /\ q.t.etchings = r.t.etchings
        /\ q.t.runes = r.t.runes /\ q.t.reserved = r.t.reserved
    BY <1>1, <2>2, <2>3, <2>4, MintIs
  <2>7. Twins(p, q, t0, W, h)
    BY <2>5, <2>6 DEF Twins, Twin, SameTables, Full
  <2> QED
    BY <2>3, <2>7
<1> QED
  BY <1>2, <1>3

LEMMA ReserveTwins ==
  ASSUME NEW s, NEW r, NEW t0, NEW W, NEW h \in Nat, Twins(s, r, t0, W, h)
  PROVE  Twins(Reserve(s), Reserve(r), t0, W, h)
<1>1. /\ Shaped(s) /\ Shaped(r) /\ s.height = h /\ r.height = h /\ Span(W, h)
      /\ s.t.reserved = InWindow(r.t.reserved, W) /\ DOMAIN r.t.reserved = FirstHeight..h
  BY DEF Twins, Twin, SameTables, Full
<1>2. h \in FirstHeight..h /\ h \in W
  BY <1>1, SpanHeight
<1>3. LastRow(s.t.reserved) = LastRow(r.t.reserved)
  BY <1>1, WindowRow
<1>4. PICK v : v = LastRow(r.t.reserved) + 1
  OBVIOUS
<1>5. PICK p, q : p = Reserve(s) /\ q = Reserve(r)
  OBVIOUS
<1>6. /\ Shaped(p) /\ p.left = s.left
      /\ p.height = s.height /\ p.runes = s.runes /\ p.burned = s.burned /\ p.at = s.at
      /\ p.t.balances = s.t.balances /\ p.t.heights = s.t.heights
      /\ p.t.entries = s.t.entries /\ p.t.ids = s.t.ids /\ p.t.etchings = s.t.etchings
      /\ p.t.runes = s.t.runes /\ p.t.reserved = Put(s.t.reserved, h, v)
  BY <1>1, <1>3, <1>4, <1>5, ReserveIs
<1>7. /\ Shaped(q) /\ q.left = r.left
      /\ q.height = r.height /\ q.runes = r.runes /\ q.burned = r.burned /\ q.at = r.at
      /\ q.t.balances = r.t.balances /\ q.t.heights = r.t.heights
      /\ q.t.entries = r.t.entries /\ q.t.ids = r.t.ids /\ q.t.etchings = r.t.etchings
      /\ q.t.runes = r.t.runes /\ q.t.reserved = Put(r.t.reserved, h, v)
  BY <1>1, <1>4, <1>5, ReserveIs
<1>8. p.t.reserved = InWindow(q.t.reserved, W)
  BY <1>1, <1>2, <1>6, <1>7, WindowPut
<1>9. /\ DOMAIN q.t.reserved = FirstHeight..h /\ IsMap(q.t.reserved)
      /\ \A k \in FirstHeight..h : k # h => q.t.reserved[k] = r.t.reserved[k]
  BY <1>1, <1>2, <1>7 DEF Put, IsMap
<1>10. Twins(p, q, t0, W, h)
  BY <1>6, <1>7, <1>8, <1>9 DEF Twins, Twin, SameTables, Full
<1> QED
  BY <1>5, <1>10

LEMMA CreateTwins ==
  ASSUME NEW s, NEW r, NEW t0, NEW W, NEW h \in Nat, NEW tx, NEW id, NEW rune,
         Twins(s, r, t0, W, h)
  PROVE  Twins(CreateRuneEntry(s, tx, id, rune), CreateRuneEntry(r, tx, id, rune), t0, W, h)
<1>1. /\ Shaped(s) /\ Shaped(r) /\ s.height = h /\ r.height = h /\ Span(W, h)
      /\ s.t.runes = InWindow(r.t.runes, W) /\ DOMAIN r.t.runes = FirstHeight..h
      /\ s.runes = r.runes
  BY DEF Twins, Twin, SameTables, Full
<1>2. h \in FirstHeight..h /\ h \in W
  BY <1>1, SpanHeight
<1>3. PICK v, new : v = r.runes + 1 /\ new = Entry(h, r.runes, tx, rune)
  OBVIOUS
<1>4. PICK p, q : /\ p = CreateRuneEntry(s, tx, id, rune)
                  /\ q = CreateRuneEntry(r, tx, id, rune)
  OBVIOUS
<1>5. /\ Shaped(p) /\ p.left = s.left
      /\ p.height = s.height /\ p.runes = v /\ p.burned = s.burned /\ p.at = s.at
      /\ p.t.balances = s.t.balances /\ p.t.heights = s.t.heights
      /\ p.t.entries = Put(s.t.entries, id, new)
      /\ p.t.ids = Put(s.t.ids, rune, id) /\ p.t.etchings = Put(s.t.etchings, tx, rune)
      /\ p.t.runes = Put(s.t.runes, h, v) /\ p.t.reserved = s.t.reserved
  BY <1>1, <1>3, <1>4, CreateIs
<1>6. /\ Shaped(q) /\ q.left = r.left
      /\ q.height = r.height /\ q.runes = v /\ q.burned = r.burned /\ q.at = r.at
      /\ q.t.balances = r.t.balances /\ q.t.heights = r.t.heights
      /\ q.t.entries = Put(r.t.entries, id, new)
      /\ q.t.ids = Put(r.t.ids, rune, id) /\ q.t.etchings = Put(r.t.etchings, tx, rune)
      /\ q.t.runes = Put(r.t.runes, h, v) /\ q.t.reserved = r.t.reserved
  BY <1>1, <1>3, <1>4, CreateIs
<1>7. p.t.runes = InWindow(q.t.runes, W)
  BY <1>1, <1>2, <1>5, <1>6, WindowPut
<1>8. /\ DOMAIN q.t.runes = FirstHeight..h /\ IsMap(q.t.runes)
      /\ \A k \in FirstHeight..h : k # h => q.t.runes[k] = r.t.runes[k]
  BY <1>1, <1>2, <1>6 DEF Put, IsMap
<1>9. Twins(p, q, t0, W, h)
  BY <1>5, <1>6, <1>7, <1>8 DEF Twins, Twin, SameTables, Full
<1> QED
  BY <1>4, <1>9

LEMMA SettleTwins ==
  ASSUME NEW s, NEW r, NEW t0, NEW W, NEW h \in Nat, NEW a, NEW tx, Twins(s, r, t0, W, h)
  PROVE  Twins(Settle(s, a, tx), Settle(r, a, tx), t0, W, h)
<1>1. Shaped(s) /\ Shaped(r) /\ s.height = r.height
  BY DEF Twins, Twin
<1>2. PICK p, q : p = Settle(s, a, tx) /\ q = Settle(r, a, tx)
  OBVIOUS
<1>3. /\ Shaped(p) /\ p.left = EmptyMap
      /\ p.height = s.height /\ p.runes = s.runes /\ p.burned = Burnt(s.burned, a, tx) /\ p.at = 0
      /\ p.t.balances = Override(s.t.balances, Paid(a, tx))
      /\ p.t.heights = Override(s.t.heights, PaidAt(a, tx, s.height))
      /\ p.t.entries = s.t.entries /\ p.t.ids = s.t.ids /\ p.t.etchings = s.t.etchings
      /\ p.t.runes = s.t.runes /\ p.t.reserved = s.t.reserved
  BY <1>1, <1>2, SettleIs
<1>4. /\ Shaped(q) /\ q.left = EmptyMap
      /\ q.height = r.height /\ q.runes = r.runes /\ q.burned = Burnt(r.burned, a, tx) /\ q.at = 0
      /\ q.t.balances = Override(r.t.balances, Paid(a, tx))
      /\ q.t.heights = Override(r.t.heights, PaidAt(a, tx, r.height))
      /\ q.t.entries = r.t.entries /\ q.t.ids = r.t.ids /\ q.t.etchings = r.t.etchings
      /\ q.t.runes = r.t.runes /\ q.t.reserved = r.t.reserved
  BY <1>1, <1>2, SettleIs
<1>5. Twins(p, q, t0, W, h)
  BY <1>1, <1>3, <1>4 DEF Twins, Twin, SameTables, Full
<1> QED
  BY <1>2, <1>5

LEMMA FinishTwins ==
  ASSUME NEW s, NEW r, NEW t0, NEW W, NEW h \in Nat, NEW i, NEW tx, NEW rune,
         Twins(s, r, t0, W, h)
  PROVE  Twins(FinishTx(s, i, tx, rune), FinishTx(r, i, tx, rune), t0, W, h)
<1>1. s.height = h /\ r.height = h /\ s.left = r.left
  BY DEF Twins, Twin
<1>2. PICK id, n, a : id = <<h, i>> /\ n = (CHOOSE m \in rune : TRUE) /\ a = Allocation(s.left, id, tx, rune)
  OBVIOUS
<1>3. CASE rune = {}
  BY <1>1, <1>2, <1>3, SettleTwins DEF FinishTx
<1>4. CASE rune # {}
  <2>1. PICK p, q : p = CreateRuneEntry(s, tx, id, n) /\ q = CreateRuneEntry(r, tx, id, n)
    OBVIOUS
  <2>2. Twins(p, q, t0, W, h)
    BY <2>1, CreateTwins
  <2>3. Twins(Settle(p, a, tx), Settle(q, a, tx), t0, W, h)
    BY <2>2, SettleTwins
  <2>4. FinishTx(s, i, tx, rune) = Settle(p, a, tx) /\ FinishTx(r, i, tx, rune) = Settle(q, a, tx)
    BY <1>1, <1>2, <1>4, <2>1 DEF FinishTx
  <2> QED
    BY <2>3, <2>4
<1> QED
  BY <1>3, <1>4

LEMMA IndexTxTwins ==
  ASSUME NEW s, NEW r, NEW t0, NEW W, NEW h \in Nat, NEW i, NEW tx, Twins(s, r, t0, W, h)
  PROVE  Twins(IndexTx(s, i, tx), IndexTx(r, i, tx), t0, W, h)
<1>1. PICK p, q : /\ p = MintRune(Unallocated(s, tx), tx)
                  /\ q = MintRune(Unallocated(r, tx), tx)
  OBVIOUS
<1>2. Twins(p, q, t0, W, h)
  BY <1>1, UnallocatedTwins, MintTwins
<1>3. IndexTx(s, i, tx) = AfterMint(p, i, tx) /\ IndexTx(r, i, tx) = AfterMint(q, i, tx)
  BY <1>1 DEF IndexTx
<1>4. p.t.ids = q.t.ids /\ p.height = h /\ q.height = h /\ Shaped(p) /\ Shaped(q)
  BY <1>2 DEF Twins, Twin, SameTables
<1>5. NeedsLookup(p, tx) <=> NeedsLookup(q, tx)
  BY <1>4 DEF NeedsLookup, NameIsFree
<1>6. CASE NeedsLookup(p, tx)
  <2>1. PICK x, y : x = [p EXCEPT !.at = i + 1] /\ y = [q EXCEPT !.at = i + 1]
    OBVIOUS
  <2>2. /\ Shaped(x) /\ x.t = p.t /\ x.height = p.height /\ x.runes = p.runes
        /\ x.burned = p.burned /\ x.left = p.left /\ x.at = i + 1
    BY <1>4, <2>1 DEF Shaped, UpdaterFields
  <2>3. /\ Shaped(y) /\ y.t = q.t /\ y.height = q.height /\ y.runes = q.runes
        /\ y.burned = q.burned /\ y.left = q.left /\ y.at = i + 1
    BY <1>4, <2>1 DEF Shaped, UpdaterFields
  <2>4. Twins(x, y, t0, W, h)
    BY <1>2, <2>2, <2>3 DEF Twins, Twin
  <2> QED
    BY <1>3, <1>5, <1>6, <2>1, <2>4 DEF AfterMint
<1>7. CASE ~ NeedsLookup(p, tx) /\ IsReserved(tx)
  <2>1. Twins(Reserve(p), Reserve(q), t0, W, h)
    BY <1>2, ReserveTwins
  <2>2. /\ AfterMint(p, i, tx) = FinishTx(Reserve(p), i, tx, {<<h, i>>})
        /\ AfterMint(q, i, tx) = FinishTx(Reserve(q), i, tx, {<<h, i>>})
    BY <1>4, <1>5, <1>7 DEF AfterMint
  <2> QED
    BY <1>3, <2>1, <2>2, FinishTwins
<1>8. CASE ~ NeedsLookup(p, tx) /\ ~ IsReserved(tx)
  <2>1. /\ AfterMint(p, i, tx) = FinishTx(p, i, tx, {})
        /\ AfterMint(q, i, tx) = FinishTx(q, i, tx, {})
    BY <1>5, <1>8 DEF AfterMint
  <2> QED
    BY <1>2, <1>3, <2>1, FinishTwins
<1> QED
  BY <1>6, <1>7, <1>8

-----------------------------------------------------------------------------
(***************************************************************************)
(* What the change record remembers.  First the outputs: those of the      *)
(* tables t0 before the block are in the tables, or removed with what they *)
(* had; all others were added by the block.  The transactions of block b   *)
(* up to the j-th have spent theirs.                                       *)
(***************************************************************************)
OutKept(o, s, t0) ==
  /\ o \in DOMAIN s.t.balances /\ o \notin DOMAIN s.record.removed
  /\ s.t.balances[o] = t0.balances[o] /\ s.t.heights[o] = t0.heights[o]

OutTaken(o, s, t0) ==
  /\ o \notin DOMAIN s.t.balances /\ o \in DOMAIN s.record.removed
  /\ s.record.removed[o].balances = t0.balances[o] /\ s.record.removed[o].height = t0.heights[o]

Created(heights, c) ==
  \A o \in DOMAIN heights : \E i \in 1..Len(c) :
    heights[o] = FirstHeight + i - 1 /\ \E k \in DOMAIN Txs[c[i]] : o[1] = Txs[c[i]][k]

Unspent(outs, c, j) ==
  \A o \in outs : \A i \in 1..Len(c) : \A k \in DOMAIN Txs[c[i]] :
    i < Len(c) \/ k <= j => o \notin Inputs[Txs[c[i]][k]]

Outs(s, t0, b, j) ==
  /\ IsMap(s.t.balances) /\ IsMap(s.t.heights) /\ DOMAIN s.t.balances = DOMAIN s.t.heights
  /\ Created(s.t.heights, ChainTo[b]) /\ Unspent(DOMAIN s.t.balances, ChainTo[b], j)
  /\ \A o \in DOMAIN t0.balances : /\ OutKept(o, s, t0) \/ OutTaken(o, s, t0)
                                   /\ o \notin s.record.added
  /\ \A o \in DOMAIN s.t.balances \cup DOMAIN s.record.removed :
       o \in DOMAIN t0.balances \/ o \in s.record.added

SameOuts(s, u) ==
  /\ u.t.balances = s.t.balances /\ u.t.heights = s.t.heights
  /\ u.record.removed = s.record.removed /\ u.record.added = s.record.added

LEMMA OutsSame ==
  ASSUME NEW s, NEW u, NEW t0, NEW b, NEW j, Outs(s, t0, b, j), SameOuts(s, u)
  PROVE  Outs(u, t0, b, j)
BY DEF Outs, SameOuts, OutKept, OutTaken

LEMMA FewerCreated ==
  ASSUME NEW heights, NEW fewer, NEW c, Created(heights, c),
         DOMAIN fewer \subseteq DOMAIN heights,
         \A o \in DOMAIN fewer : fewer[o] = heights[o]
  PROVE  Created(fewer, c)
BY DEF Created

LEMMA UnallocatedOuts ==
  ASSUME NEW s, Shaped(s), NEW t0, NEW b \in Block, NEW j \in Nat, Outs(s, t0, b, j),
         j + 1 \in DOMAIN Txs[b], NEW tx, tx = Txs[b][j + 1]
  PROVE  Outs(Unallocated(s, tx), t0, b, j + 1)
<1>1. PICK spent : spent = Spends(s, tx)
  OBVIOUS
<1>2. PICK u : u = Unallocated(s, tx)
  OBVIOUS
<1>3. /\ u.t.balances = Except(s.t.balances, spent) /\ u.t.heights = Except(s.t.heights, spent)
      /\ u.record.removed = Override(s.record.removed, Taken(s.t.balances, s.t.heights, spent))
      /\ u.record.added = s.record.added
  BY <1>1, <1>2, UnallocatedIs
<1>4. /\ DOMAIN u.t.balances = DOMAIN s.t.balances \ spent
      /\ DOMAIN u.t.heights = DOMAIN s.t.heights \ spent
      /\ \A o \in DOMAIN u.t.balances : u.t.balances[o] = s.t.balances[o]
      /\ \A o \in DOMAIN u.t.heights : u.t.heights[o] = s.t.heights[o]
      /\ IsMap(u.t.balances) /\ IsMap(u.t.heights)
  BY <1>3 DEF Except, IsMap
<1>5. /\ DOMAIN u.record.removed = DOMAIN s.record.removed \cup spent
      /\ \A o \in spent : /\ u.record.removed[o].balances = s.t.balances[o]
                          /\ u.record.removed[o].height = s.t.heights[o]
      /\ \A o \in DOMAIN s.record.removed : o \notin spent => u.record.removed[o] = s.record.removed[o]
  BY <1>3 DEF Override, Taken
<1>6. spent = Inputs[tx] \cap DOMAIN s.t.balances
  BY <1>1 DEF Spends
<1>7. Created(u.t.heights, ChainTo[b])
  <2>1. Created(s.t.heights, ChainTo[b])
    BY DEF Outs
  <2> QED
    BY <1>4, <2>1, FewerCreated
<1>8. Unspent(DOMAIN u.t.balances, ChainTo[b], j + 1)
  <2> SUFFICES ASSUME NEW o \in DOMAIN u.t.balances, NEW i \in 1..Len(ChainTo[b]),
                      NEW k \in DOMAIN Txs[ChainTo[b][i]], i < Len(ChainTo[b]) \/ k <= j + 1
               PROVE  o \notin Inputs[Txs[ChainTo[b][i]][k]]
    BY DEF Unspent
  <2>1. o \in DOMAIN s.t.balances /\ o \notin Inputs[tx]
    BY <1>4, <1>6
  <2>2. CASE i < Len(ChainTo[b]) \/ k <= j
    BY <2>1, <2>2 DEF Outs, Unspent
  <2>3. CASE ~ (i < Len(ChainTo[b]) \/ k <= j)
    <3>1. i = Len(ChainTo[b]) /\ ChainTo[b][i] = b
      BY <2>3, ChainEnds
    <3>2. k \in Nat
      BY <3>1, LedgerAssumption
    <3>3. k = j + 1
      BY <2>3, <3>2
    <3> QED
      BY <2>1, <3>1, <3>3
  <2> QED
    BY <2>2, <2>3
<1>9. ASSUME NEW o \in DOMAIN t0.balances
      PROVE  (OutKept(o, u, t0) \/ OutTaken(o, u, t0)) /\ o \notin u.record.added
  <2>1. (OutKept(o, s, t0) \/ OutTaken(o, s, t0)) /\ o \notin u.record.added
    BY <1>3 DEF Outs
  <2>2. CASE OutKept(o, s, t0) /\ o \in spent
    BY <1>4, <1>5, <2>1, <2>2 DEF OutKept, OutTaken
  <2>3. CASE OutKept(o, s, t0) /\ o \notin spent
    <3>1. o \in DOMAIN u.t.balances /\ o \in DOMAIN u.t.heights
      BY <1>4, <2>3 DEF OutKept, Outs
    <3> QED
      BY <1>4, <1>5, <2>1, <2>3, <3>1 DEF OutKept
  <2>4. CASE OutTaken(o, s, t0)
    <3>1. o \notin spent
      BY <1>6, <2>4 DEF OutTaken
    <3> QED
      BY <1>4, <1>5, <2>1, <2>4, <3>1 DEF OutTaken
  <2> QED
    BY <2>1, <2>2, <2>3, <2>4
<1>10. \A o \in DOMAIN u.t.balances \cup DOMAIN u.record.removed :
         o \in DOMAIN t0.balances \/ o \in u.record.added
  BY <1>3, <1>4, <1>5, <1>6 DEF Outs
<1>11. DOMAIN u.t.balances = DOMAIN u.t.heights
  BY <1>4 DEF Outs
<1> QED
  BY <1>2, <1>4, <1>7, <1>8, <1>9, <1>10, <1>11 DEF Outs

(* The transactions of b are not those of the tables before it.            *)
Newer(t0, b) ==
  \A k \in DOMAIN Txs[b] : /\ \A o \in DOMAIN t0.balances : o[1] # Txs[b][k]
                           /\ Txs[b][k] \notin DOMAIN t0.etchings

LEMMA SpendsBack ==
  ASSUME NEW b \in Block, NEW u \in DOMAIN ChainTo[b], NEW v \in DOMAIN ChainTo[b],
         NEW k \in DOMAIN Txs[ChainTo[b][u]], NEW l \in DOMAIN Txs[ChainTo[b][v]],
         NEW o \in Inputs[Txs[ChainTo[b][u]][k]], o[1] = Txs[ChainTo[b][v]][l]
  PROVE  v < u \/ (v = u /\ l < k)
BY SpentLater

LEMMA SettleOuts ==
  ASSUME NEW s, Shaped(s), NEW t0, NEW b \in Block, NEW j \in Nat, Outs(s, t0, b, j),
         j \in DOMAIN Txs[b], NEW tx, tx = Txs[b][j], NEW a, Newer(t0, b),
         s.height \in Nat, Len(ChainTo[b]) = s.height - FirstHeight + 1
  PROVE  Outs(Settle(s, a, tx), t0, b, j)
<1>1. PICK new, out, hs : new = Payees(a, tx) /\ out = Paid(a, tx) /\ hs = PaidAt(a, tx, s.height)
  OBVIOUS
<1>2. PICK u : u = Settle(s, a, tx)
  OBVIOUS
<1>3. /\ u.t.balances = Override(s.t.balances, out) /\ u.t.heights = Override(s.t.heights, hs)
      /\ u.record.removed = s.record.removed /\ u.record.added = s.record.added \cup new
  BY <1>1, <1>2, SettleIs
<1>4. /\ DOMAIN out = new /\ DOMAIN hs = new
      /\ \A o \in new : hs[o] = s.height /\ o[1] = tx
  BY <1>1 DEF Paid, PaidAt, Payees
<1>5. /\ DOMAIN u.t.balances = DOMAIN s.t.balances \cup new
      /\ DOMAIN u.t.heights = DOMAIN s.t.heights \cup new
      /\ \A o \in DOMAIN s.t.balances : o \notin new => u.t.balances[o] = s.t.balances[o]
      /\ \A o \in DOMAIN s.t.heights : o \notin new => u.t.heights[o] = s.t.heights[o]
      /\ \A o \in new : u.t.heights[o] = s.height
      /\ IsMap(u.t.balances) /\ IsMap(u.t.heights)
  BY <1>3, <1>4 DEF Override, IsMap
<1>6. \A o \in new : o \notin DOMAIN t0.balances
  BY <1>4 DEF Newer
<1>13. PICK c, n : c = ChainTo[b] /\ n = Len(c)
  OBVIOUS
<1>7. /\ n \in Nat /\ n \in 1..n /\ c[n] = b /\ s.height = FirstHeight + n - 1 /\ DOMAIN c = 1..n
      /\ \A i \in 1..n : c[i] \in Block
  BY SMTT(30), <1>13, ChainEnds, LedgerAssumption
<1>8. Created(u.t.heights, c)
  <2> SUFFICES ASSUME NEW o \in DOMAIN u.t.heights
               PROVE  \E i \in 1..n : /\ u.t.heights[o] = FirstHeight + i - 1
                                      /\ \E k \in DOMAIN Txs[c[i]] : o[1] = Txs[c[i]][k]
    BY <1>13 DEF Created
  <2>1. CASE o \in new
    <3>1. j \in DOMAIN Txs[c[n]] /\ o[1] = Txs[c[n]][j] /\ u.t.heights[o] = FirstHeight + n - 1
      BY <1>4, <1>5, <1>7, <2>1
    <3> QED
      BY <1>7, <3>1
  <2>2. CASE o \notin new
    <3>1. o \in DOMAIN s.t.heights /\ u.t.heights[o] = s.t.heights[o] /\ Created(s.t.heights, c)
      BY <1>13, <1>5, <2>2 DEF Outs
    <3>2. n = Len(c)
      BY <1>13
    <3>3. PICK i \in 1..n : /\ s.t.heights[o] = FirstHeight + i - 1
                            /\ \E k \in DOMAIN Txs[c[i]] : o[1] = Txs[c[i]][k]
      BY <3>1, <3>2 DEF Created
    <3> QED
      BY <3>1, <3>3
  <2> QED
    BY <2>1, <2>2
<1>9. Unspent(DOMAIN u.t.balances, c, j)
  <2> SUFFICES ASSUME NEW o \in DOMAIN u.t.balances, NEW i \in 1..n,
                      NEW k \in DOMAIN Txs[c[i]], i < n \/ k <= j
               PROVE  o \notin Inputs[Txs[c[i]][k]]
    BY <1>13 DEF Unspent
  <2>1. CASE o \in new
    <3> SUFFICES ASSUME o \in Inputs[Txs[c[i]][k]] PROVE FALSE
      OBVIOUS
    <3>1. o[1] = Txs[c[n]][j] /\ j \in DOMAIN Txs[c[n]]
      BY <1>4, <1>7, <2>1
    <3>3. k \in Nat
      BY SMTT(30), <1>7, LedgerAssumption
    <3>2. n < i \/ (n = i /\ j < k)
      BY <1>13, <1>7, <3>1, SpendsBack
    <3> QED
      BY <1>7, <3>2, <3>3
  <2>2. CASE o \notin new
    BY <1>13, <1>5, <2>2 DEF Outs, Unspent
  <2> QED
    BY <2>1, <2>2
<1>10. ASSUME NEW o \in DOMAIN t0.balances
       PROVE  (OutKept(o, u, t0) \/ OutTaken(o, u, t0)) /\ o \notin u.record.added
  <2>1. (OutKept(o, s, t0) \/ OutTaken(o, s, t0)) /\ o \notin s.record.added /\ o \notin new
    BY <1>6 DEF Outs
  <2>2. CASE OutKept(o, s, t0)
    <3>1. o \in DOMAIN s.t.heights
      BY <2>2 DEF OutKept, Outs
    <3> QED
      BY <1>3, <1>5, <2>1, <2>2, <3>1 DEF OutKept
  <2>3. CASE OutTaken(o, s, t0)
    BY <1>3, <1>5, <2>1, <2>3 DEF OutTaken
  <2> QED
    BY <1>3, <2>1, <2>2, <2>3
<1>11. \A o \in DOMAIN u.t.balances \cup DOMAIN u.record.removed :
         o \in DOMAIN t0.balances \/ o \in u.record.added
  BY <1>3, <1>5 DEF Outs
<1>12. DOMAIN u.t.balances = DOMAIN u.t.heights
  BY <1>5 DEF Outs
<1> QED
  BY <1>13, <1>2, <1>5, <1>8, <1>9, <1>10, <1>11, <1>12 DEF Outs

(***************************************************************************)
(* Second the runes: those of t0 are there, and the change record has the  *)
(* mints before the block of those minted in it; all others are listed as  *)
(* etched in it.                                                           *)
(***************************************************************************)
EntryKept(id, s, t0) ==
  LET e == s.t.entries[id]
      old == t0.entries[id]
      mints == s.record.mints
  IN /\ DOMAIN e = DOMAIN old /\ \A x \in DOMAIN old : x # "mints" => e[x] = old[x]
     /\ id \in DOMAIN mints => mints[id] = old.mints
     /\ id \notin DOMAIN mints => e.mints = old.mints

EtchedOn(etchings, c) ==
  \A x \in DOMAIN etchings : \E i \in 1..Len(c) : \E k \in DOMAIN Txs[c[i]] : x = Txs[c[i]][k]

(* Map m is map m0 with the keys added.                                    *)
Extends(m, m0, keys) ==
  /\ IsMap(m) /\ DOMAIN m = DOMAIN m0 \cup keys
  /\ \A k \in DOMAIN m0 : k \notin keys /\ m[k] = m0[k]

UpTo(m, h) == \A k \in DOMAIN m : k[1] \in 0..h

Ents(s, t0, b, h) ==
  /\ IsMap(s.t.entries) /\ \A id \in DOMAIN s.t.entries : IsMap(s.t.entries[id])
  /\ DOMAIN s.t.entries = DOMAIN t0.entries \cup Etched(s.record, 2)
  /\ \A id \in DOMAIN t0.entries : id \notin Etched(s.record, 2) /\ EntryKept(id, s, t0)
  /\ Extends(s.t.ids, t0.ids, Etched(s.record, 1))
  /\ Extends(s.t.etchings, t0.etchings, Etched(s.record, 3))
  /\ EtchedOn(s.t.etchings, ChainTo[b]) /\ UpTo(s.t.ids, h) /\ UpTo(s.t.entries, h)

SameEnts(s, u) ==
  /\ u.t.entries = s.t.entries /\ u.t.ids = s.t.ids /\ u.t.etchings = s.t.etchings
  /\ u.record.mints = s.record.mints /\ u.record.etched = s.record.etched

LEMMA EntsSame ==
  ASSUME NEW s, NEW u, NEW t0, NEW b, NEW h, Ents(s, t0, b, h), SameEnts(s, u)
  PROVE  Ents(u, t0, b, h)
BY DEF Ents, SameEnts, EntryKept, Etched

LEMMA MintEnts ==
  ASSUME NEW s, Shaped(s), NEW t0, NEW b, NEW h, NEW tx, Ents(s, t0, b, h)
  PROVE  Ents(MintRune(s, tx), t0, b, h)
<1>1. CASE Minted(s.t.entries, s.height, tx) = {}
  BY <1>1 DEF MintRune
<1>2. CASE Minted(s.t.entries, s.height, tx) # {}
  <2>1. PICK u : u = MintRune(s, tx)
    OBVIOUS
  <2>2. PICK id : id = MintOf(s, tx)
    OBVIOUS
  <2>3. id \in DOMAIN s.t.entries
    BY <1>2, <2>2 DEF MintOf, Minted
  <2>4. /\ u.t.entries = [s.t.entries EXCEPT ![id].mints = @ + 1]
        /\ u.record.mints = PutNew(s.record.mints, id, s.t.entries[id].mints)
        /\ u.t.ids = s.t.ids /\ u.t.etchings = s.t.etchings /\ u.record.etched = s.record.etched
    BY <1>2, <2>1, <2>2, MintIs
  <2>5. DOMAIN s.t.entries[id] = EntryFields /\ "mints" \in EntryFields
    BY <2>3 DEF Shaped, ShapedTables, EntryFields
  <2>6. /\ DOMAIN u.t.entries = DOMAIN s.t.entries /\ IsMap(u.t.entries)
        /\ \A x \in DOMAIN s.t.entries : x # id => u.t.entries[x] = s.t.entries[x]
        /\ DOMAIN u.t.entries[id] = DOMAIN s.t.entries[id] /\ IsMap(u.t.entries[id])
        /\ \A x \in DOMAIN s.t.entries[id] : x # "mints" => u.t.entries[id][x] = s.t.entries[id][x]
    BY <2>3, <2>4 DEF IsMap
  <2>7. /\ DOMAIN u.record.mints = DOMAIN s.record.mints \cup {id}
        /\ \A x \in DOMAIN s.record.mints : u.record.mints[x] = s.record.mints[x]
        /\ id \notin DOMAIN s.record.mints => u.record.mints[id] = s.t.entries[id].mints
    BY <2>4 DEF PutNew, Put
  <2>8. \A x \in DOMAIN u.t.entries : IsMap(u.t.entries[x])
    BY <2>6 DEF Ents
  <2>9. Etched(u.record, 1) = Etched(s.record, 1) /\ Etched(u.record, 2) = Etched(s.record, 2)
        /\ Etched(u.record, 3) = Etched(s.record, 3)
    BY <2>4 DEF Etched
  <2>10. ASSUME NEW x \in DOMAIN t0.entries PROVE EntryKept(x, u, t0)
    <3>1. EntryKept(x, s, t0) /\ x \in DOMAIN s.t.entries
      BY DEF Ents
    <3>2. CASE x = id
      <4>1. /\ DOMAIN u.t.entries[id] = DOMAIN t0.entries[id]
            /\ \A f \in DOMAIN t0.entries[id] : f # "mints" => u.t.entries[id][f] = t0.entries[id][f]
        BY <2>6, <3>1, <3>2 DEF EntryKept
      <4>2. id \in DOMAIN u.record.mints /\ u.record.mints[id] = t0.entries[id].mints
        BY <2>7, <3>1, <3>2 DEF EntryKept
      <4> QED
        BY <3>2, <4>1, <4>2 DEF EntryKept
    <3>3. CASE x # id
      BY <2>6, <2>7, <3>1, <3>3 DEF EntryKept
    <3> QED
      BY <3>2, <3>3
  <2>11. UpTo(u.t.entries, h)
    BY <2>6 DEF Ents, UpTo
  <2> QED
    BY <2>1, <2>4, <2>6, <2>8, <2>9, <2>10, <2>11 DEF Ents
<1> QED
  BY <1>1, <1>2

LEMMA ExtendsMore ==
  ASSUME NEW m, NEW m0, NEW keys, NEW k, NEW v, Extends(m, m0, keys), k \notin DOMAIN m0
  PROVE  Extends(Put(m, k, v), m0, keys \cup {k})
BY DEF Extends, Put, IsMap

LEMMA EntryIsMap ==
  ASSUME NEW h, NEW number, NEW tx, NEW rune
  PROVE  IsMap(Entry(h, number, tx, rune))
<1>1. PICK premine, terms :
        Entry(h, number, tx, rune) =
          [block |-> h, tx |-> tx, rune |-> rune, number |-> number, burned |-> 0, mints |-> 0,
           premine |-> premine, terms |-> terms]
  BY DEF Entry
<1>2. IsMap([block |-> h, tx |-> tx, rune |-> rune, number |-> number, burned |-> 0, mints |-> 0,
             premine |-> premine, terms |-> terms])
  BY DEF IsMap
<1> QED
  BY <1>1, <1>2

LEMMA OneMoreEtched ==
  ASSUME NEW S, NEW x, NEW k
  PROVE  {e[k] : e \in S \cup {x}} = {e[k] : e \in S} \cup {x[k]}
OBVIOUS

(* What was etched is new.                                                 *)
LEMMA CreateEnts ==
  ASSUME NEW s, Shaped(s), NEW t0, NEW b, NEW h, NEW tx, NEW id, NEW rune, Ents(s, t0, b, h),
         id \notin DOMAIN t0.entries, rune \notin DOMAIN t0.ids, tx \notin DOMAIN t0.etchings,
         id[1] \in 0..h, rune[1] \in 0..h,
         \E i \in 1..Len(ChainTo[b]) : \E k \in DOMAIN Txs[ChainTo[b][i]] : tx = Txs[ChainTo[b][i]][k]
  PROVE  Ents(CreateRuneEntry(s, tx, id, rune), t0, b, h)
<1>1. PICK u, e : u = CreateRuneEntry(s, tx, id, rune) /\ e = Entry(s.height, s.runes, tx, rune)
  OBVIOUS
<1>2. /\ u.t.entries = Put(s.t.entries, id, e)
      /\ u.t.ids = Put(s.t.ids, rune, id) /\ u.t.etchings = Put(s.t.etchings, tx, rune)
      /\ u.record.etched = s.record.etched \cup {<<rune, id, tx>>}
      /\ u.record.mints = s.record.mints
  BY <1>1, CreateIs
<1>3. IsMap(e)
  BY <1>1, EntryIsMap
<1>4. /\ DOMAIN u.t.entries = DOMAIN s.t.entries \cup {id} /\ IsMap(u.t.entries)
      /\ u.t.entries[id] = e
      /\ \A x \in DOMAIN s.t.entries : x # id => u.t.entries[x] = s.t.entries[x]
  BY <1>2 DEF Put, IsMap
<1>5. /\ Etched(u.record, 1) = Etched(s.record, 1) \cup {rune}
      /\ Etched(u.record, 2) = Etched(s.record, 2) \cup {id}
      /\ Etched(u.record, 3) = Etched(s.record, 3) \cup {tx}
  <2>1. PICK x, old : x = <<rune, id, tx>> /\ old = s.record.etched
    OBVIOUS
  <2>2. u.record.etched = old \cup {x} /\ x[1] = rune /\ x[2] = id /\ x[3] = tx
    BY <1>2, <2>1
  <2>3. \A k \in 1..3 : {e2[k] : e2 \in old \cup {x}} = {e2[k] : e2 \in old} \cup {x[k]}
    BY OneMoreEtched
  <2>4. \A k \in 1..3 : Etched(u.record, k) = Etched(s.record, k) \cup {x[k]}
    BY <2>1, <2>2, <2>3 DEF Etched
  <2> QED
    BY <2>2, <2>4
<1>6. Extends(u.t.ids, t0.ids, Etched(u.record, 1))
  BY <1>2, <1>5, ExtendsMore DEF Ents
<1>7. Extends(u.t.etchings, t0.etchings, Etched(u.record, 3))
  BY <1>2, <1>5, ExtendsMore DEF Ents
<1>8. \A x \in DOMAIN t0.entries : x \notin Etched(u.record, 2) /\ EntryKept(x, u, t0)
  <2> TAKE x \in DOMAIN t0.entries
  <2>1. x # id /\ x \in DOMAIN s.t.entries /\ x \notin Etched(s.record, 2) /\ EntryKept(x, s, t0)
    BY DEF Ents
  <2> QED
    BY <1>2, <1>4, <1>5, <2>1 DEF EntryKept
<1>9. EtchedOn(u.t.etchings, ChainTo[b])
  <2> SUFFICES ASSUME NEW x \in DOMAIN u.t.etchings
               PROVE  \E i \in 1..Len(ChainTo[b]) : \E k \in DOMAIN Txs[ChainTo[b][i]] :
                        x = Txs[ChainTo[b][i]][k]
    BY DEF EtchedOn
  <2>1. x \in DOMAIN s.t.etchings \/ x = tx
    BY <1>2 DEF Put
  <2> QED
    BY <2>1 DEF Ents, EtchedOn
<1>10. UpTo(u.t.ids, h) /\ UpTo(u.t.entries, h)
  BY <1>2, <1>4 DEF Ents, UpTo, Put
<1>11. DOMAIN u.t.entries = DOMAIN t0.entries \cup Etched(u.record, 2)
  BY <1>4, <1>5 DEF Ents
<1>12. \A x \in DOMAIN u.t.entries : IsMap(u.t.entries[x])
  BY <1>3, <1>4 DEF Ents
<1> QED
  BY <1>1, <1>4, <1>6, <1>7, <1>8, <1>9, <1>10, <1>11, <1>12 DEF Ents

-----------------------------------------------------------------------------
(***************************************************************************)
(* Both together, after the j-th transaction of block b at height h.  The  *)
(* tables t0 before it know neither its transactions nor ids of its height. *)
(***************************************************************************)
Rev(s, t0, b, h, j) == Shaped(s) /\ s.height = h /\ Outs(s, t0, b, j) /\ Ents(s, t0, b, h)

Base(t0, b, h) ==
  /\ b \in Block /\ h \in Nat /\ Len(ChainTo[b]) = h - FirstHeight + 1 /\ Newer(t0, b)
  /\ \A k \in DOMAIN t0.entries \cup DOMAIN t0.ids : k[1] # h

LEMMA TxHere ==
  ASSUME NEW b \in Block, NEW j, j \in DOMAIN Txs[b]
  PROVE  /\ Txs[b][j] \in Tx /\ j \in Nat /\ j >= 1
         /\ \E i \in 1..Len(ChainTo[b]) : \E k \in DOMAIN Txs[ChainTo[b][i]] :
              Txs[b][j] = Txs[ChainTo[b][i]][k]
<1>1. PICK c, n : c = ChainTo[b] /\ n = Len(c)
  OBVIOUS
<1>2. n \in 1..n /\ c[n] = b
  BY <1>1, ChainEnds
<1>3. Txs[b] \in Seq(Tx)
  BY LedgerAssumption
<1>4. Txs[b][j] \in Tx /\ j \in Nat /\ j >= 1
  BY <1>3
<1>5. \E i \in 1..n : \E k \in DOMAIN Txs[c[i]] : Txs[b][j] = Txs[c[i]][k]
  BY <1>2
<1> QED
  BY <1>1, <1>4, <1>5

SameRev(s, u) == Shaped(u) /\ u.height = s.height /\ SameOuts(s, u) /\ SameEnts(s, u)

LEMMA RevSame ==
  ASSUME NEW s, NEW u, NEW t0, NEW b, NEW h, NEW j, Rev(s, t0, b, h, j), SameRev(s, u)
  PROVE  Rev(u, t0, b, h, j)
BY OutsSame, EntsSame DEF Rev, SameRev

LEMMA SettleRev ==
  ASSUME NEW s, NEW t0, NEW b, NEW h, NEW j, NEW a, Base(t0, b, h), Rev(s, t0, b, h, j),
         j \in DOMAIN Txs[b]
  PROVE  Rev(Settle(s, a, Txs[b][j]), t0, b, h, j)
<1>1. PICK u, tx : u = Settle(s, a, tx) /\ tx = Txs[b][j]
  OBVIOUS
<1>2. b \in Block /\ h \in Nat /\ j \in Nat /\ s.height = h /\ Shaped(s) /\ Outs(s, t0, b, j) /\ Newer(t0, b)
      /\ Len(ChainTo[b]) = s.height - FirstHeight + 1 /\ Ents(s, t0, b, h)
  BY TxHere DEF Base, Rev
<1>3. Outs(u, t0, b, j)
  BY <1>1, <1>2, SettleOuts
<1>4. Shaped(u) /\ u.height = h /\ SameEnts(s, u)
  BY <1>1, <1>2, SettleIs DEF SameEnts
<1>5. Ents(u, t0, b, h)
  BY <1>2, <1>4, EntsSame
<1> QED
  BY <1>1, <1>3, <1>4, <1>5 DEF Rev

(* The rune that the j-th transaction may etch.                            *)
MayEtch(s, h, j, tx, rune) ==
  \/ rune = {} \/ rune = {<<h, j - 1>>}
  \/ rune \subseteq Names(tx) /\ Names(tx) \cap DOMAIN s.t.ids = {}

LEMMA FinishRev ==
  ASSUME NEW s, NEW t0, NEW b, NEW h, NEW j, NEW rune, Base(t0, b, h), Rev(s, t0, b, h, j),
         j \in DOMAIN Txs[b], MayEtch(s, h, j, Txs[b][j], rune)
  PROVE  Rev(FinishTx(s, j - 1, Txs[b][j], rune), t0, b, h, j)
<1>1. PICK tx, id, n, a : /\ tx = Txs[b][j] /\ id = <<h, j - 1>> /\ n = (CHOOSE m \in rune : TRUE)
                          /\ a = Allocation(s.left, id, tx, rune)
  OBVIOUS
<1>2. s.height = h /\ b \in Block /\ h \in Nat /\ Shaped(s) /\ Ents(s, t0, b, h) /\ Newer(t0, b)
  BY DEF Rev, Base
<1>3. CASE rune = {}
  BY <1>1, <1>2, <1>3, SettleRev DEF FinishTx
<1>4. CASE rune # {}
  <2>1. PICK p : p = CreateRuneEntry(s, tx, id, n)
    OBVIOUS
  <2>2. n \in rune
    BY <1>1, <1>4
  <2>3. /\ tx \in Tx /\ tx \notin DOMAIN t0.etchings
        /\ \E i \in 1..Len(ChainTo[b]) : \E k \in DOMAIN Txs[ChainTo[b][i]] : tx = Txs[ChainTo[b][i]][k]
    BY <1>1, <1>2, TxHere DEF Newer
  <2>4. id[1] = h /\ id \notin DOMAIN t0.entries
    BY <1>1 DEF Base
  <2>5. n \notin DOMAIN t0.ids /\ n[1] \in 0..h
    <3>1. CASE rune = {<<h, j - 1>>}
      BY <1>2, <2>2, <3>1 DEF Base
    <3>2. CASE rune # {<<h, j - 1>>}
      <4>1. n \in Names(tx) /\ Names(tx) \cap DOMAIN s.t.ids = {}
        BY <1>1, <1>4, <2>2, <3>2 DEF MayEtch
      <4>2. n[1] = 0
        BY <2>3, <4>1, NamesAreNamed
      <4>3. n \notin DOMAIN t0.ids
        BY <1>2, <4>1 DEF Ents, Extends
      <4> QED
        BY <1>2, <4>2, <4>3
    <3> QED
      BY <3>1, <3>2
  <2>6. Ents(p, t0, b, h)
    <3>1. id[1] \in 0..h
      BY <1>2, <2>4
    <3> QED
      BY <1>2, <2>1, <2>3, <2>4, <2>5, <3>1, CreateEnts
  <2>7. Shaped(p) /\ p.height = h /\ SameOuts(s, p)
    BY <1>2, <2>1, CreateIs DEF SameOuts
  <2>8. Rev(p, t0, b, h, j)
    BY <2>6, <2>7, OutsSame DEF Rev
  <2>9. Rev(Settle(p, a, tx), t0, b, h, j)
    BY <1>1, <2>8, SettleRev
  <2>10. FinishTx(s, j - 1, tx, rune) = Settle(p, a, tx)
    BY <1>1, <1>2, <1>4, <2>1 DEF FinishTx
  <2> QED
    BY <1>1, <2>9, <2>10
<1> QED
  BY <1>3, <1>4

LEMMA IndexTxRev ==
  ASSUME NEW s, NEW t0, NEW b, NEW h, NEW j \in Nat, Base(t0, b, h), Rev(s, t0, b, h, j),
         j + 1 \in DOMAIN Txs[b]
  PROVE  Rev(IndexTx(s, j, Txs[b][j + 1]), t0, b, h, j + 1)
<1>1. PICK tx, p, q : tx = Txs[b][j + 1] /\ p = Unallocated(s, tx) /\ q = MintRune(p, tx)
  OBVIOUS
<1>2. b \in Block /\ Shaped(s) /\ Outs(s, t0, b, j) /\ Ents(s, t0, b, h) /\ s.height = h
  BY DEF Base, Rev
<1>3. Shaped(p) /\ p.height = h /\ SameEnts(s, p)
  BY <1>1, <1>2, UnallocatedIs DEF SameEnts
<1>4. Outs(p, t0, b, j + 1) /\ Ents(p, t0, b, h)
  BY <1>1, <1>2, <1>3, UnallocatedOuts, EntsSame
<1>5. Ents(q, t0, b, h)
  BY <1>1, <1>3, <1>4, MintEnts
<1>6. Shaped(q) /\ q.height = h /\ SameOuts(p, q)
  <2>0. q = MintRune(p, tx)
    BY <1>1
  <2>1. CASE Minted(p.t.entries, p.height, tx) = {}
    <3>1. q = p
      BY <2>0, <2>1 DEF MintRune
    <3> QED
      BY <1>3, <3>1 DEF SameOuts
  <2>2. CASE Minted(p.t.entries, p.height, tx) # {}
    <3>1. /\ Shaped(q) /\ q.height = p.height
          /\ q.t.balances = p.t.balances /\ q.t.heights = p.t.heights
          /\ q.record.removed = p.record.removed /\ q.record.added = p.record.added
      BY ZenonT(60), <1>3, <2>0, <2>2, MintIs
    <3> QED
      BY <1>3, <3>1 DEF SameOuts
  <2> QED
    BY <2>1, <2>2
<1>7. Rev(q, t0, b, h, j + 1)
  BY <1>4, <1>5, <1>6, OutsSame DEF Rev
<1>8. IndexTx(s, j, tx) = AfterMint(q, j, tx) /\ (j + 1) - 1 = j
  BY <1>1 DEF IndexTx
<1>9. CASE NeedsLookup(q, tx)
  <2>1. PICK x : x = [q EXCEPT !.at = j + 1]
    OBVIOUS
  <2>2. SameRev(q, x)
    <3>1. Shaped(x) /\ x.t = q.t /\ x.record = q.record /\ x.height = q.height
      BY <1>6, <2>1 DEF Shaped, UpdaterFields
    <3> QED
      BY <3>1 DEF SameRev, SameOuts, SameEnts
  <2>3. Rev(x, t0, b, h, j + 1)
    BY <1>7, <2>2, RevSame
  <2> QED
    BY <1>1, <1>8, <1>9, <2>1, <2>3 DEF AfterMint
<1>10. CASE ~ NeedsLookup(q, tx) /\ IsReserved(tx)
  <2>1. PICK x : x = Reserve(q)
    OBVIOUS
  <2>2. SameRev(q, x)
    BY <1>6, <2>1, ReserveIs DEF SameRev, SameOuts, SameEnts
  <2>3. Rev(x, t0, b, h, j + 1)
    BY <1>7, <2>2, RevSame
  <2>4. AfterMint(q, j, tx) = FinishTx(x, j, tx, {<<h, j>>})
    BY <1>6, <1>10, <2>1 DEF AfterMint
  <2>5. MayEtch(x, h, j + 1, tx, {<<h, j>>})
    BY <1>8 DEF MayEtch
  <2>6. Rev(FinishTx(x, (j + 1) - 1, tx, {<<h, j>>}), t0, b, h, j + 1)
    BY <1>1, <2>3, <2>5, FinishRev
  <2> QED
    BY <1>1, <1>8, <2>4, <2>6
<1>11. CASE ~ NeedsLookup(q, tx) /\ ~ IsReserved(tx)
  <2>1. AfterMint(q, j, tx) = FinishTx(q, j, tx, {})
    BY <1>11 DEF AfterMint
  <2>2. MayEtch(q, h, j + 1, tx, {})
    BY DEF MayEtch
  <2>3. Rev(FinishTx(q, (j + 1) - 1, tx, {}), t0, b, h, j + 1)
    BY <1>1, <1>7, <2>2, FinishRev
  <2> QED
    BY <1>1, <1>8, <2>1, <2>3
<1> QED
  BY <1>9, <1>10, <1>11

-----------------------------------------------------------------------------
(***************************************************************************)
(* The loop over the transactions has run from the i-th up to the j-th, or *)
(* waits for the commitment of one of them, in the indexer and the replay. *)
(***************************************************************************)
Pair(s, r, t0, W, b, h, i, j) ==
  /\ Twins(s, r, t0, W, h)
  /\ s.at = 0 => Rev(s, t0, b, h, j)
  /\ s.at # 0 => s.at \in (i + 1)..j /\ Rev(s, t0, b, h, s.at)

LEMMA OneMorePair ==
  ASSUME NEW s, NEW r, NEW t0, NEW W, NEW b, NEW h, NEW i \in Nat, NEW j \in Nat, i <= j,
         Base(t0, b, h), s.at = 0, Pair(s, r, t0, W, b, h, i, j), j + 1 \in DOMAIN Txs[b]
  PROVE  Pair(IndexTx(s, j, Txs[b][j + 1]), IndexTx(r, j, Txs[b][j + 1]), t0, W, b, h, i, j + 1)
<1>1. PICK tx, p, q : tx = Txs[b][j + 1] /\ p = IndexTx(s, j, tx) /\ q = IndexTx(r, j, tx)
  OBVIOUS
<1>2. h \in Nat /\ Twins(s, r, t0, W, h) /\ Rev(s, t0, b, h, j) /\ Shaped(s)
  BY DEF Base, Pair, Rev
<1>3. Twins(p, q, t0, W, h)
  BY <1>1, <1>2, IndexTxTwins
<1>4. Rev(p, t0, b, h, j + 1)
  BY <1>1, <1>2, IndexTxRev
<1>5. p.at = 0 \/ p.at = j + 1
  BY <1>1, <1>2, IndexTxMoves DEF Indexes
<1>6. Pair(p, q, t0, W, b, h, i, j + 1)
  BY <1>3, <1>4, <1>5 DEF Pair
<1> QED
  BY <1>1, <1>6

LEMMA IndexTxsPair ==
  ASSUME NEW s0, NEW r0, NEW t0, NEW W, NEW b, NEW h, NEW i \in Nat, s0.at = 0,
         Base(t0, b, h), Pair(s0, r0, t0, W, b, h, i, i), i <= Len(Txs[b])
  PROVE  Pair(IndexTxs(s0, Txs[b], i), IndexTxs(r0, Txs[b], i), t0, W, b, h, i, Len(Txs[b]))
<1>0. PICK n : n = Len(Txs[b])
  OBVIOUS
<1>1. Txs[b] \in Seq(Tx) /\ n \in Nat /\ DOMAIN Txs[b] = 1..n /\ i <= n
  BY <1>0, LedgerAssumption DEF Base
<1>2. PICK acc : /\ acc[0] = s0 /\ IndexTxs(s0, Txs[b], i) = acc[n]
                 /\ \A j \in 1..n : acc[j] = IF j <= i \/ acc[j-1].at # 0 THEN acc[j-1]
                                             ELSE IndexTx(acc[j-1], j - 1, Txs[b][j])
  <2>1. Runs(s0, Txs[b], i)
    BY <1>1, IndexTxsRuns
  <2> QED
    BY <1>0, <2>1 DEF Runs
<1>3. PICK rac : /\ rac[0] = r0 /\ IndexTxs(r0, Txs[b], i) = rac[n]
                 /\ \A j \in 1..n : rac[j] = IF j <= i \/ rac[j-1].at # 0 THEN rac[j-1]
                                             ELSE IndexTx(rac[j-1], j - 1, Txs[b][j])
  <2>1. Runs(r0, Txs[b], i)
    BY <1>1, IndexTxsRuns
  <2> QED
    BY <1>0, <2>1 DEF Runs
<1> DEFINE P(j) == /\ j <= i => acc[j] = s0 /\ rac[j] = r0
                   /\ i <= j => Pair(acc[j], rac[j], t0, W, b, h, i, j)
<1>4. P(0)
  <2>1. i <= 0 => i = 0
    OBVIOUS
  <2> QED
    BY <1>2, <1>3, <2>1
<1>5. ASSUME NEW j \in Nat, j + 1 <= n, P(j) PROVE P(j + 1)
  <2>1. j + 1 \in 1..n /\ (j + 1) - 1 = j
    BY <1>1, <1>5
  <2>2. acc[j + 1] = IF j + 1 <= i \/ acc[j].at # 0 THEN acc[j]
                     ELSE IndexTx(acc[j], j, Txs[b][j + 1])
    BY <1>2, <2>1
  <2>3. rac[j + 1] = IF j + 1 <= i \/ rac[j].at # 0 THEN rac[j]
                     ELSE IndexTx(rac[j], j, Txs[b][j + 1])
    BY <1>3, <2>1
  <2>4. CASE j + 1 <= i
    <3>1. acc[j + 1] = s0 /\ rac[j + 1] = r0
      BY <1>5, <2>2, <2>3, <2>4
    <3>2. i <= j + 1 => j + 1 = i
      BY <2>4
    <3> QED
      BY <3>1, <3>2
  <2>5. CASE ~ (j + 1 <= i)
    <3>1. i <= j /\ Pair(acc[j], rac[j], t0, W, b, h, i, j)
      BY <1>5, <2>5
    <3>2. acc[j].at = rac[j].at
      BY <3>1 DEF Pair, Twins, Twin
    <3>3. CASE acc[j].at # 0
      <4>1. acc[j + 1] = acc[j] /\ rac[j + 1] = rac[j] /\ acc[j].at \in (i + 1)..j
        BY <2>2, <2>3, <3>1, <3>2, <3>3 DEF Pair
      <4>2. acc[j].at \in (i + 1)..(j + 1)
        BY <4>1
      <4>3. Pair(acc[j], rac[j], t0, W, b, h, i, j + 1)
        BY <3>1, <3>3, <4>2 DEF Pair
      <4> QED
        BY <2>5, <4>1, <4>3
    <3>4. CASE acc[j].at = 0
      <4>1. Pair(IndexTx(acc[j], j, Txs[b][j + 1]), IndexTx(rac[j], j, Txs[b][j + 1]),
                 t0, W, b, h, i, j + 1)
        BY <1>1, <2>1, <3>1, <3>4, OneMorePair
      <4> QED
        BY <2>2, <2>3, <2>5, <3>2, <3>4, <4>1
    <3> QED
      BY <3>3, <3>4
  <2> QED
    BY <2>4, <2>5
<1>6. P(n)
  <2> DEFINE T == {j \in Nat : j <= n /\ ~ P(j)}
  <2> HIDE DEF P
  <2> SUFFICES ASSUME T # {} PROVE FALSE
    BY <1>1
  <2>1. T \subseteq Nat
    OBVIOUS
  <2>2. PICK x \in T : \A y \in T : ~ (y < x)
    <3> HIDE DEF T
    <3> QED
      BY <2>1, TxFold!LeastNatural
  <2>3. x \in Nat /\ x <= n /\ ~ P(x) /\ x # 0
    BY <1>4, <2>2
  <2>4. x - 1 \in Nat /\ x - 1 <= n /\ (x - 1) + 1 = x /\ x - 1 < x
    BY <1>1, <2>3
  <2>5. P(x - 1)
    BY <2>2, <2>4
  <2>6. P((x - 1) + 1)
    BY <1>5, <2>3, <2>4, <2>5
  <2> QED
    BY <2>3, <2>4, <2>6
<1> QED
  BY <1>0, <1>1, <1>2, <1>3, <1>6

(* A lookup is answered for both.                                          *)
LEMMA ContinuePair ==
  ASSUME NEW s, NEW r, NEW t0, NEW W, NEW b, NEW h, NEW i, NEW k,
         Base(t0, b, h), s.at # 0, s.at = k, Pair(s, r, t0, W, b, h, i, Len(Txs[b])), i \in Nat,
         Names(Txs[b][k]) \cap DOMAIN s.t.ids = {}
  PROVE  Pair(Continue(s, Txs[b]), Continue(r, Txs[b]), t0, W, b, h, k, Len(Txs[b]))
<1>1. PICK n : n = Len(Txs[b])
  OBVIOUS
<1>2. Txs[b] \in Seq(Tx) /\ n \in Nat /\ DOMAIN Txs[b] = 1..n
  BY <1>1, LedgerAssumption DEF Base
<1>3. /\ k \in (i + 1)..n /\ r.at = k /\ Twins(s, r, t0, W, h) /\ Rev(s, t0, b, h, k)
      /\ Shaped(s) /\ h \in Nat
  BY <1>1 DEF Pair, Twins, Twin, Rev, Base
<1>4. k \in Nat /\ k \in DOMAIN Txs[b] /\ k <= n
  BY <1>2, <1>3
<1>5. PICK tx, rune : /\ tx = Txs[b][k]
                      /\ rune = IF Commitment[tx] = "yes" THEN Names(tx) ELSE {}
  OBVIOUS
<1>6. PICK p, q : p = FinishTx(s, k - 1, tx, rune) /\ q = FinishTx(r, k - 1, tx, rune)
  OBVIOUS
<1>7. Twins(p, q, t0, W, h)
  BY <1>3, <1>6, FinishTwins
<1>8. MayEtch(s, h, k, tx, rune)
  BY <1>5 DEF MayEtch
<1>9. Rev(p, t0, b, h, k)
  BY <1>3, <1>4, <1>5, <1>6, <1>8, FinishRev
<1>10. p.at = 0
  BY <1>3, <1>6, FinishMoves
<1>11. Pair(p, q, t0, W, b, h, k, k)
  BY <1>7, <1>9, <1>10 DEF Pair
<1>12. Pair(IndexTxs(p, Txs[b], k), IndexTxs(q, Txs[b], k), t0, W, b, h, k, Len(Txs[b]))
  BY <1>1, <1>4, <1>10, <1>11, IndexTxsPair
<1>13. /\ Continue(s, Txs[b]) = IndexTxs(p, Txs[b], k)
       /\ Continue(r, Txs[b]) = IndexTxs(q, Txs[b], k)
  BY <1>3, <1>5, <1>6 DEF Continue
<1> QED
  BY <1>12, <1>13

-----------------------------------------------------------------------------
(***************************************************************************)
(* What the tables of a chain c up to height h are like, and the part of   *)
(* them that a window keeps.                                               *)
(***************************************************************************)
Maps7(t) ==
  /\ IsMap(t) /\ IsMap(t.balances) /\ IsMap(t.heights) /\ IsMap(t.entries)
  /\ IsMap(t.ids) /\ IsMap(t.etchings)
  /\ \A id \in DOMAIN t.entries : IsMap(t.entries[id])

Clear(outs, c) ==
  \A o \in outs : \A i \in 1..Len(c) : \A k \in DOMAIN Txs[c[i]] : o \notin Inputs[Txs[c[i]][k]]

Fine(t, c, h) ==
  /\ ShapedTables(t) /\ Maps7(t) /\ Full(t, h)
  /\ DOMAIN t.balances = DOMAIN t.heights
  /\ Created(t.heights, c) /\ Clear(DOMAIN t.balances, c) /\ EtchedOn(t.etchings, c)
  /\ UpTo(t.ids, h) /\ UpTo(t.entries, h)

Win(t, W) == [t EXCEPT !.runes = InWindow(@, W), !.reserved = InWindow(@, W)]

TFields(t) ==
  DOMAIN t = {"balances", "heights", "entries", "ids", "etchings", "runes", "reserved"}

LEMMA WinIs ==
  ASSUME NEW t, NEW W, ShapedTables(t)
  PROVE  LET u == Win(t, W) IN
         /\ ShapedTables(u) /\ IsMap(u)
         /\ u.balances = t.balances /\ u.heights = t.heights /\ u.entries = t.entries
         /\ u.ids = t.ids /\ u.etchings = t.etchings
         /\ u.runes = InWindow(t.runes, W) /\ u.reserved = InWindow(t.reserved, W)
<1>1. PICK u, p, q : u = Win(t, W) /\ p = InWindow(t.runes, W) /\ q = InWindow(t.reserved, W)
  OBVIOUS
<1>2. u = [t EXCEPT !.runes = p, !.reserved = q]
  BY <1>1 DEF Win
<1>3. TFields(t)
  BY DEF ShapedTables, TableFields, TFields
<1>4. /\ IsMap(u) /\ DOMAIN u = DOMAIN t
      /\ u.balances = t.balances /\ u.heights = t.heights /\ u.entries = t.entries
      /\ u.ids = t.ids /\ u.etchings = t.etchings
      /\ u.runes = p /\ u.reserved = q
  BY <1>2, <1>3 DEF IsMap, TFields
<1>5. ShapedTables(u)
  BY <1>4 DEF ShapedTables
<1> QED
  BY <1>1, <1>4, <1>5

LEMMA SameAll ==
  ASSUME NEW t, NEW u, TFields(t), TFields(u), IsMap(t), IsMap(u),
         t.balances = u.balances, t.heights = u.heights, t.entries = u.entries,
         t.ids = u.ids, t.etchings = u.etchings, t.runes = u.runes, t.reserved = u.reserved
  PROVE  t = u
<1>1. DOMAIN t = DOMAIN u /\ \A x \in DOMAIN t : t[x] = u[x]
  BY DEF TFields
<1> QED
  BY <1>1 DEF IsMap

LEMMA StartIs ==
  ASSUME NEW t, NEW h, ShapedTables(t)
  PROVE  LET s == Started(t, h) IN
         /\ Shaped(s) /\ s.height = h /\ s.at = 0 /\ s.runes = LastRow(t.runes)
         /\ s.burned = EmptyMap /\ s.left = EmptyMap /\ s.record = NoRecord
         /\ s.t.balances = t.balances /\ s.t.heights = t.heights /\ s.t.entries = t.entries
         /\ s.t.ids = t.ids /\ s.t.etchings = t.etchings
         /\ s.t.runes = Put(t.runes, h, LastRow(t.runes))
         /\ s.t.reserved = Put(t.reserved, h, LastRow(t.reserved))
<1>1. PICK p, q, n : /\ p = Put(t.runes, h, LastRow(t.runes))
                     /\ q = Put(t.reserved, h, LastRow(t.reserved)) /\ n = LastRow(t.runes)
  OBVIOUS
<1>2. PICK s, u : s = Started(t, h) /\ u = [t EXCEPT !.runes = p, !.reserved = q]
  OBVIOUS
<1>3. s = [t |-> u, height |-> h, runes |-> n, burned |-> EmptyMap,
           record |-> NoRecord, at |-> 0, left |-> EmptyMap]
  BY <1>1, <1>2 DEF Started
<1>4. TFields(t)
  BY DEF ShapedTables, TableFields, TFields
<1>5. /\ u.balances = t.balances /\ u.heights = t.heights /\ u.entries = t.entries
      /\ u.ids = t.ids /\ u.etchings = t.etchings
      /\ u.runes = p /\ u.reserved = q
  BY <1>2, <1>4 DEF TFields
<1>6. /\ s.t = u /\ s.height = h /\ s.at = 0 /\ s.runes = n
      /\ s.burned = EmptyMap /\ s.left = EmptyMap /\ s.record = NoRecord
  BY <1>3
<1>7. Shaped(s)
  BY <1>2, StartedFields
<1> QED
  BY <1>1, <1>2, <1>5, <1>6, <1>7

(* Chain d is chain c and block b.                                         *)
Grows(c, b, h) ==
  /\ b \in Block /\ h \in Nat /\ FirstHeight <= h /\ c \in Seq(Block)
  /\ Len(c) = h - FirstHeight /\ Len(ChainTo[b]) = h - FirstHeight + 1
  /\ \A i \in 1..Len(c) : ChainTo[b][i] = c[i]

LEMMA BaseFine ==
  ASSUME NEW t0, NEW c, NEW b, NEW h, Grows(c, b, h), Fine(t0, c, h - 1)
  PROVE  Base(t0, b, h)
<1>1. PICK d, n, m : d = ChainTo[b] /\ n = Len(d) /\ m = Len(c)
  OBVIOUS
<1>2. /\ b \in Block /\ h \in Nat /\ FirstHeight \in Nat /\ n = m + 1 /\ m \in Nat
      /\ \A i \in 1..m : d[i] = c[i]
      /\ d[n] = b /\ DOMAIN d = 1..n
  <2>1. b \in Block /\ h \in Nat /\ FirstHeight \in Nat /\ c \in Seq(Block)
    BY LedgerAssumption DEF Grows
  <2>2. d \in Seq(Block) /\ d[n] = b
    BY <1>1, <2>1, ChainEnds
  <2>3. DOMAIN d = 1..n /\ m \in Nat
    BY <1>1, <2>1, <2>2
  <2>4. n = m + 1 /\ \A i \in 1..m : d[i] = c[i]
    BY <1>1, <2>1 DEF Grows
  <2> QED
    BY <2>1, <2>2, <2>3, <2>4
<1>3. Newer(t0, b)
  <2> SUFFICES ASSUME NEW k \in DOMAIN Txs[b]
               PROVE  /\ \A o \in DOMAIN t0.balances : o[1] # Txs[b][k]
                      /\ Txs[b][k] \notin DOMAIN t0.etchings
    BY DEF Newer
  <2>1. ASSUME NEW i \in 1..m, NEW l \in DOMAIN Txs[c[i]] PROVE Txs[c[i]][l] # Txs[b][k]
    <3>1. i \in DOMAIN d /\ n \in DOMAIN d /\ <<i, l>> # <<n, k>> /\ d[i] = c[i]
      BY <1>2
    <3>2. Txs[d[i]][l] # Txs[d[n]][k]
      <4>1. l \in DOMAIN Txs[d[i]] /\ k \in DOMAIN Txs[d[n]]
        BY <1>2, <3>1
      <4> QED
        BY ZenonT(60), <1>1, <1>2, <3>1, <4>1, OncePerChain
    <3> QED
      BY <1>2, <3>1, <3>2
  <2>2. ASSUME NEW o \in DOMAIN t0.balances PROVE o[1] # Txs[b][k]
    <3>1. PICK i \in 1..m : \E l \in DOMAIN Txs[c[i]] : o[1] = Txs[c[i]][l]
      BY <1>1 DEF Fine, Created
    <3> QED
      BY <2>1, <3>1
  <2>3. Txs[b][k] \notin DOMAIN t0.etchings
    BY <1>1, <2>1 DEF Fine, EtchedOn
  <2> QED
    BY <2>2, <2>3
<1>4. \A k \in DOMAIN t0.entries \cup DOMAIN t0.ids : k[1] # h
  <2>1. \A k \in DOMAIN t0.entries \cup DOMAIN t0.ids : k[1] \in 0..h - 1
    BY DEF Fine, UpTo
  <2> QED
    BY <1>2, <2>1
<1> QED
  BY <1>2, <1>3, <1>4 DEF Base, Grows

(* The heights of the window end below h.                                  *)
Opens(W, h) == (W = {} /\ h = FirstHeight) \/ (h - 1 \in Nat /\ Span(W, h - 1))

RowsOpen(m, W, h) ==
  /\ LastRow(InWindow(m, W)) = LastRow(m)
  /\ \A v : Put(InWindow(m, W), h, v) = InWindow(Put(m, h, v), W \cup {h})
  /\ \A v : /\ DOMAIN Put(m, h, v) = FirstHeight..h /\ IsMap(Put(m, h, v))
            /\ \A k \in FirstHeight..h : k # h => Put(m, h, v)[k] = m[k]
  /\ Span(W \cup {h}, h)

LEMMA OpensRows ==
  ASSUME NEW m, NEW W, NEW h \in Nat, Opens(W, h), DOMAIN m = FirstHeight..h - 1
  PROVE  RowsOpen(m, W, h)
<1>1. FirstHeight \in Nat /\ FirstHeight <= h
  BY LedgerAssumption DEF Opens, Span
<1>2. LastRow(InWindow(m, W)) = LastRow(m)
  <2>1. CASE W = {} /\ h = FirstHeight
    <3>1. DOMAIN m = {} /\ DOMAIN InWindow(m, W) = {}
      BY <1>1, <2>1 DEF InWindow
    <3> QED
      BY <3>1 DEF LastRow
  <2>2. CASE h - 1 \in Nat /\ Span(W, h - 1)
    BY <2>2, WindowRow
  <2> QED
    BY <2>1, <2>2 DEF Opens
<1>3. \A v : Put(InWindow(m, W), h, v) = InWindow(Put(m, h, v), W \cup {h})
  BY DEF Put, InWindow
<1>4. ASSUME NEW v
      PROVE  /\ DOMAIN Put(m, h, v) = FirstHeight..h /\ IsMap(Put(m, h, v))
             /\ \A k \in FirstHeight..h : k # h => Put(m, h, v)[k] = m[k]
  <2>1. FirstHeight..h = (FirstHeight..h - 1) \cup {h}
    BY <1>1
  <2> QED
    BY <2>1 DEF Put, IsMap
<1>5. Span(W \cup {h}, h)
  <2>1. CASE W = {} /\ h = FirstHeight
    <3>1. W \cup {h} = h..h
      BY <1>1, <2>1
    <3> QED
      BY <1>1, <2>1, <3>1 DEF Span
  <2>2. CASE h - 1 \in Nat /\ Span(W, h - 1)
    <3>1. PICK lo \in Nat : W = lo..h - 1 /\ FirstHeight <= lo /\ lo <= h - 1
      BY <2>2 DEF Span
    <3>2. W \cup {h} = lo..h
      BY <3>1
    <3> QED
      BY <3>1, <3>2 DEF Span
  <2> QED
    BY <2>1, <2>2 DEF Opens
<1> QED
  BY <1>2, <1>3, <1>4, <1>5 DEF RowsOpen

LEMMA StartTwins ==
  ASSUME NEW t0, NEW W, NEW h \in Nat, ShapedTables(t0), Full(t0, h - 1), Opens(W, h)
  PROVE  Twins(Started(Win(t0, W), h), Started(t0, h), t0, W \cup {h}, h)
<1>1. PICK t : t = Win(t0, W)
  OBVIOUS
<1>2. PICK s, r : s = Started(t, h) /\ r = Started(t0, h)
  OBVIOUS
<1>3. /\ ShapedTables(t)
      /\ t.balances = t0.balances /\ t.heights = t0.heights /\ t.entries = t0.entries
      /\ t.ids = t0.ids /\ t.etchings = t0.etchings
      /\ t.runes = InWindow(t0.runes, W) /\ t.reserved = InWindow(t0.reserved, W)
  BY <1>1, WinIs
<1>4. RowsOpen(t0.runes, W, h) /\ RowsOpen(t0.reserved, W, h)
  <2>1. /\ DOMAIN t0.runes = FirstHeight..h - 1 /\ DOMAIN t0.reserved = FirstHeight..h - 1
    BY DEF Full
  <2> QED
    BY <2>1, OpensRows
<1>5. PICK n, k : n = LastRow(t0.runes) /\ k = LastRow(t0.reserved)
  OBVIOUS
<1>6. LastRow(t.runes) = n /\ LastRow(t.reserved) = k
  BY <1>3, <1>4, <1>5 DEF RowsOpen
<1>7. /\ Shaped(s) /\ s.height = h /\ s.at = 0 /\ s.runes = n
      /\ s.burned = EmptyMap /\ s.left = EmptyMap
      /\ s.t.balances = t.balances /\ s.t.heights = t.heights /\ s.t.entries = t.entries
      /\ s.t.ids = t.ids /\ s.t.etchings = t.etchings
      /\ s.t.runes = Put(t.runes, h, n) /\ s.t.reserved = Put(t.reserved, h, k)
  BY <1>2, <1>3, <1>6, StartIs
<1>8. /\ Shaped(r) /\ r.height = h /\ r.at = 0 /\ r.runes = n
      /\ r.burned = EmptyMap /\ r.left = EmptyMap
      /\ r.t.balances = t0.balances /\ r.t.heights = t0.heights /\ r.t.entries = t0.entries
      /\ r.t.ids = t0.ids /\ r.t.etchings = t0.etchings
      /\ r.t.runes = Put(t0.runes, h, n) /\ r.t.reserved = Put(t0.reserved, h, k)
  BY <1>2, <1>5, StartIs
<1>9. /\ s.t.runes = InWindow(r.t.runes, W \cup {h})
      /\ s.t.reserved = InWindow(r.t.reserved, W \cup {h})
      /\ Span(W \cup {h}, h)
  BY <1>3, <1>4, <1>7, <1>8 DEF RowsOpen
<1>10. Twin(s, r, W \cup {h})
  BY <1>3, <1>7, <1>8, <1>9 DEF Twin, SameTables
<1>11. Full(r.t, h)
  BY <1>4, <1>8 DEF RowsOpen, Full
<1>12. \A j \in FirstHeight..h : j # h => r.t.runes[j] = t0.runes[j] /\ r.t.reserved[j] = t0.reserved[j]
  BY <1>4, <1>8 DEF RowsOpen
<1>13. Twins(s, r, t0, W \cup {h}, h)
  BY <1>8, <1>9, <1>10, <1>11, <1>12 DEF Twins
<1> QED
  BY <1>1, <1>2, <1>13

LEMMA StartRev ==
  ASSUME NEW t0, NEW W, NEW c, NEW b, NEW h, Grows(c, b, h), Fine(t0, c, h - 1)
  PROVE  Rev(Started(Win(t0, W), h), t0, b, h, 0)
<1>1. PICK t : t = Win(t0, W)
  OBVIOUS
<1>2. PICK s : s = Started(t, h)
  OBVIOUS
<1>3. ShapedTables(t0) /\ Maps7(t0)
  BY DEF Fine
<1>4. /\ ShapedTables(t)
      /\ t.balances = t0.balances /\ t.heights = t0.heights /\ t.entries = t0.entries
      /\ t.ids = t0.ids /\ t.etchings = t0.etchings
  BY <1>1, <1>3, WinIs
<1>5. /\ Shaped(s) /\ s.height = h /\ s.record = NoRecord
      /\ s.t.balances = t.balances /\ s.t.heights = t.heights /\ s.t.entries = t.entries
      /\ s.t.ids = t.ids /\ s.t.etchings = t.etchings
  BY <1>2, <1>4, StartIs
<1>6. /\ s.t.balances = t0.balances /\ s.t.heights = t0.heights /\ s.t.entries = t0.entries
      /\ s.t.ids = t0.ids /\ s.t.etchings = t0.etchings
  BY <1>4, <1>5
<1>7. /\ DOMAIN s.record.removed = {} /\ s.record.added = {} /\ DOMAIN s.record.mints = {}
      /\ s.record.etched = {}
  BY <1>5 DEF NoRecord, EmptyMap
<1>8. PICK d, n, m : d = ChainTo[b] /\ n = Len(d) /\ m = Len(c)
  OBVIOUS
<1>9. /\ b \in Block /\ n = m + 1 /\ m \in Nat /\ h \in Nat
      /\ \A i \in 1..m : d[i] = c[i] /\ i \in 1..n
  <2>1. b \in Block /\ h \in Nat /\ FirstHeight \in Nat /\ c \in Seq(Block)
    BY LedgerAssumption DEF Grows
  <2>2. n = m + 1 /\ m \in Nat /\ \A i \in 1..m : d[i] = c[i]
    BY <1>8, <2>1 DEF Grows
  <2> QED
    BY <2>1, <2>2
<1>10. Created(s.t.heights, d)
  <2> SUFFICES ASSUME NEW o \in DOMAIN s.t.heights
               PROVE  \E i \in 1..n : /\ s.t.heights[o] = FirstHeight + i - 1
                                      /\ \E k \in DOMAIN Txs[d[i]] : o[1] = Txs[d[i]][k]
    BY <1>8 DEF Created
  <2>1. PICK i \in 1..m : /\ t0.heights[o] = FirstHeight + i - 1
                          /\ \E k \in DOMAIN Txs[c[i]] : o[1] = Txs[c[i]][k]
    BY <1>6, <1>8 DEF Fine, Created
  <2> QED
    BY <1>6, <1>9, <2>1
<1>11. Unspent(DOMAIN s.t.balances, d, 0)
  <2> SUFFICES ASSUME NEW o \in DOMAIN s.t.balances, NEW i \in 1..n,
                      NEW k \in DOMAIN Txs[d[i]], i < n \/ k <= 0
               PROVE  o \notin Inputs[Txs[d[i]][k]]
    BY <1>8 DEF Unspent
  <2>1. d[i] \in Block
    BY <1>8, <1>9, ChainEnds
  <2>2. k \in Nat /\ k >= 1
    BY <2>1, TxHere
  <2>3. i \in 1..m
    BY <1>9, <2>2
  <2>4. o \in DOMAIN t0.balances /\ d[i] = c[i]
    BY <1>6, <1>9, <2>3
  <2> QED
    BY <1>8, <2>3, <2>4 DEF Fine, Clear
<1>12. Outs(s, t0, b, 0)
  <2>1. IsMap(s.t.balances) /\ IsMap(s.t.heights) /\ DOMAIN s.t.balances = DOMAIN s.t.heights
    BY <1>3, <1>6 DEF Maps7, Fine
  <2>2. \A o \in DOMAIN t0.balances : OutKept(o, s, t0) /\ o \notin s.record.added
    BY <1>6, <1>7 DEF OutKept
  <2>3. \A o \in DOMAIN s.t.balances \cup DOMAIN s.record.removed : o \in DOMAIN t0.balances
    BY <1>6, <1>7
  <2> QED
    BY <1>8, <1>10, <1>11, <2>1, <2>2, <2>3 DEF Outs
<1>13. EtchedOn(s.t.etchings, d)
  <2> SUFFICES ASSUME NEW x \in DOMAIN s.t.etchings
               PROVE  \E i \in 1..n : \E k \in DOMAIN Txs[d[i]] : x = Txs[d[i]][k]
    BY <1>8 DEF EtchedOn
  <2>1. PICK i \in 1..m : \E k \in DOMAIN Txs[c[i]] : x = Txs[c[i]][k]
    BY SMTT(30), <1>6, <1>8 DEF Fine, EtchedOn
  <2> QED
    BY <1>9, <2>1
<1>14. Ents(s, t0, b, h)
  <2>1. /\ Etched(s.record, 1) = {} /\ Etched(s.record, 2) = {} /\ Etched(s.record, 3) = {}
    BY <1>7 DEF Etched
  <2>2. IsMap(s.t.entries) /\ \A id \in DOMAIN s.t.entries : IsMap(s.t.entries[id])
    BY <1>3, <1>6 DEF Maps7
  <2>3. \A id \in DOMAIN t0.entries : EntryKept(id, s, t0)
    BY <1>6, <1>7 DEF EntryKept
  <2>4. Extends(s.t.ids, t0.ids, {}) /\ Extends(s.t.etchings, t0.etchings, {})
    BY <1>3, <1>6 DEF Maps7, Extends
  <2>5. UpTo(s.t.ids, h) /\ UpTo(s.t.entries, h)
    <3>1. UpTo(t0.ids, h - 1) /\ UpTo(t0.entries, h - 1)
      BY DEF Fine
    <3>2. \A x \in 0..h - 1 : x \in 0..h
      BY <1>9
    <3> QED
      BY <1>6, <3>1, <3>2 DEF UpTo
  <2> QED
    BY <1>6, <1>8, <1>13, <2>1, <2>2, <2>3, <2>4, <2>5 DEF Ents
<1>15. Rev(s, t0, b, h, 0)
  BY <1>5, <1>12, <1>14 DEF Rev
<1> QED
  BY <1>1, <1>2, <1>15

LEMMA StartPair ==
  ASSUME NEW t0, NEW W, NEW c, NEW b, NEW h, Grows(c, b, h), Fine(t0, c, h - 1), Opens(W, h)
  PROVE  /\ Started(Win(t0, W), h).at = 0
         /\ Pair(Started(Win(t0, W), h), Started(t0, h), t0, W \cup {h}, b, h, 0, 0)
<1>1. ShapedTables(t0) /\ Full(t0, h - 1) /\ h \in Nat
  BY DEF Fine, Grows
<1>2. Twins(Started(Win(t0, W), h), Started(t0, h), t0, W \cup {h}, h)
  BY <1>1, StartTwins
<1>3. Rev(Started(Win(t0, W), h), t0, b, h, 0)
  BY StartRev
<1>4. Started(Win(t0, W), h).at = 0
  BY <1>1, WinIs, StartIs
<1> QED
  BY <1>2, <1>3, <1>4 DEF Pair

-----------------------------------------------------------------------------
(* The end of a block, and its change record undone.                       *)

Burns(entries, burned) ==
  [id \in DOMAIN entries |->
     IF id \in DOMAIN burned THEN [entries[id] EXCEPT !.burned = @ + burned[id]]
     ELSE entries[id]]

BurnedBefore(entries, burned) == [id \in DOMAIN burned |-> entries[id].burned]

LEMMA UpdatedIs ==
  ASSUME NEW s, Shaped(s)
  PROVE  LET u == Updated(s) IN
         /\ u.t.entries = Burns(s.t.entries, s.burned) /\ IsMap(u.t)
         /\ u.t.balances = s.t.balances /\ u.t.heights = s.t.heights
         /\ u.t.ids = s.t.ids /\ u.t.etchings = s.t.etchings
         /\ u.t.runes = s.t.runes /\ u.t.reserved = s.t.reserved
         /\ u.record.burned = BurnedBefore(s.t.entries, s.burned)
         /\ u.record.removed = s.record.removed /\ u.record.added = s.record.added
         /\ u.record.mints = s.record.mints /\ u.record.etched = s.record.etched
         /\ u.height = s.height
<1>1. PICK e, before : /\ e = Burns(s.t.entries, s.burned)
                       /\ before = BurnedBefore(s.t.entries, s.burned)
  OBVIOUS
<1>2. PICK u : u = Updated(s)
  OBVIOUS
<1>3. u = [s EXCEPT !.t.entries = e, !.record.burned = before]
  BY <1>1, <1>2 DEF Updated, Burns, BurnedBefore
<1>4. Fields(s)
  BY ShapedFields
<1>5. /\ u.t = [s.t EXCEPT !.entries = e] /\ u.record = [s.record EXCEPT !.burned = before]
      /\ u.height = s.height
  BY <1>3, <1>4 DEF Fields
<1>6. /\ u.t.entries = e /\ IsMap(u.t)
      /\ u.t.balances = s.t.balances /\ u.t.heights = s.t.heights
      /\ u.t.ids = s.t.ids /\ u.t.etchings = s.t.etchings
      /\ u.t.runes = s.t.runes /\ u.t.reserved = s.t.reserved
  BY <1>4, <1>5 DEF Fields, IsMap
<1>7. /\ u.record.burned = before
      /\ u.record.removed = s.record.removed /\ u.record.added = s.record.added
      /\ u.record.mints = s.record.mints /\ u.record.etched = s.record.etched
  BY <1>4, <1>5 DEF Fields
<1> QED
  BY <1>1, <1>2, <1>5, <1>6, <1>7

(* The tables the indexer and the replay end a block with.                 *)
LEMMA EndTwins ==
  ASSUME NEW s, NEW r, NEW t0, NEW W, NEW h, Twins(s, r, t0, W, h), Burnable(s)
  PROVE  /\ ShapedTables(Updated(s).t) /\ ShapedTables(Updated(r).t) /\ IsMap(Updated(s).t)
         /\ SameTables(Updated(s).t, Updated(r).t, W)
<1>1. PICK u, v : u = Updated(s) /\ v = Updated(r)
  OBVIOUS
<1>2. Shaped(s) /\ Shaped(r) /\ SameTables(s.t, r.t, W) /\ s.burned = r.burned
  BY DEF Twins, Twin
<1>3. Burnable(r)
  BY <1>2 DEF Burnable, SameTables
<1>4. ShapedTables(u.t) /\ ShapedTables(v.t)
  BY <1>1, <1>2, <1>3, UpdatedFields DEF Shaped
<1>5. /\ u.t.entries = Burns(s.t.entries, s.burned) /\ IsMap(u.t)
      /\ u.t.balances = s.t.balances /\ u.t.heights = s.t.heights
      /\ u.t.ids = s.t.ids /\ u.t.etchings = s.t.etchings
      /\ u.t.runes = s.t.runes /\ u.t.reserved = s.t.reserved
  BY <1>1, <1>2, UpdatedIs
<1>6. /\ v.t.entries = Burns(r.t.entries, r.burned)
      /\ v.t.balances = r.t.balances /\ v.t.heights = r.t.heights
      /\ v.t.ids = r.t.ids /\ v.t.etchings = r.t.etchings
      /\ v.t.runes = r.t.runes /\ v.t.reserved = r.t.reserved
  BY <1>1, <1>2, UpdatedIs
<1>7. SameTables(u.t, v.t, W)
  BY <1>2, <1>5, <1>6 DEF SameTables
<1> QED
  BY <1>1, <1>4, <1>5, <1>7

LEMMA EndFine ==
  ASSUME NEW s, NEW r, NEW t0, NEW W, NEW b, NEW h, NEW i, Base(t0, b, h), s.at = 0,
         Pair(s, r, t0, W, b, h, i, Len(Txs[b])), Burnable(s)
  PROVE  Fine(Updated(r).t, ChainTo[b], h)
<1>1. PICK t, d, m, n : /\ t = Updated(r).t /\ d = ChainTo[b] /\ m = Len(d) /\ n = Len(Txs[b])
  OBVIOUS
<1>2. /\ Twins(s, r, t0, W, h) /\ Outs(s, t0, b, n) /\ Ents(s, t0, b, h) /\ b \in Block
      /\ Shaped(r) /\ SameTables(s.t, r.t, W)
  BY <1>1 DEF Pair, Rev, Base, Twins, Twin
<1>3. ShapedTables(t)
  BY <1>1, <1>2, EndTwins
<1>4. /\ t.entries = Burns(r.t.entries, r.burned) /\ IsMap(t)
      /\ t.balances = r.t.balances /\ t.heights = r.t.heights
      /\ t.ids = r.t.ids /\ t.etchings = r.t.etchings
      /\ t.runes = r.t.runes /\ t.reserved = r.t.reserved
  BY <1>1, <1>2, UpdatedIs
<1>5. /\ t.entries = Burns(s.t.entries, r.burned)
      /\ t.balances = s.t.balances /\ t.heights = s.t.heights
      /\ t.ids = s.t.ids /\ t.etchings = s.t.etchings
  BY <1>2, <1>4 DEF SameTables
<1>6. DOMAIN t.entries = DOMAIN s.t.entries /\ IsMap(t.entries)
  BY <1>5 DEF Burns, IsMap
<1>7. ASSUME NEW id \in DOMAIN t.entries PROVE IsMap(t.entries[id])
  <2>1. PICK e, k : e = s.t.entries[id] /\ k = r.burned[id]
    OBVIOUS
  <2>2. IsMap(e)
    BY <1>2, <1>6, <2>1 DEF Ents
  <2>3. t.entries[id] = [e EXCEPT !.burned = @ + k] \/ t.entries[id] = e
    BY <1>5, <1>6, <2>1 DEF Burns
  <2> QED
    BY <2>2, <2>3 DEF IsMap
<1>8. Maps7(t)
  BY <1>2, <1>4, <1>5, <1>6, <1>7 DEF Maps7, Outs, Ents, Extends
<1>9. Full(t, h)
  BY <1>2, <1>4 DEF Twins, Full
<1>10. DOMAIN t.balances = DOMAIN t.heights /\ Created(t.heights, d)
  BY <1>1, <1>2, <1>5 DEF Outs
<1>11. Clear(DOMAIN t.balances, d)
  <2> SUFFICES ASSUME NEW o \in DOMAIN t.balances, NEW j \in 1..m, NEW k \in DOMAIN Txs[d[j]]
               PROVE  o \notin Inputs[Txs[d[j]][k]]
    BY <1>1 DEF Clear
  <2>1. m \in Nat /\ d[m] = b /\ Txs[b] \in Seq(Tx)
    BY <1>1, <1>2, ChainEnds, LedgerAssumption
  <2>2. j < m \/ k <= n
    BY <1>1, <2>1
  <2> QED
    BY <1>1, <1>2, <1>5, <2>2 DEF Outs, Unspent
<1>12. EtchedOn(t.etchings, d) /\ UpTo(t.ids, h) /\ UpTo(t.entries, h)
  BY <1>1, <1>2, <1>5, <1>6 DEF Ents, UpTo
<1> QED
  BY <1>1, <1>3, <1>8, <1>9, <1>10, <1>11, <1>12 DEF Fine

(***************************************************************************)
(* handle_reorg for one height, field by field.                            *)
(***************************************************************************)
BalancesBack(outs, removed, added) ==
  Except(Override(outs, [o \in DOMAIN removed |-> removed[o].balances]), added)

HeightsBack(outs, removed, added) ==
  Except(Override(outs, [o \in DOMAIN removed |-> removed[o].height]), added)

Reset(e, id, record) ==
  [e EXCEPT !.burned = IF id \in DOMAIN record.burned THEN record.burned[id] ELSE @,
            !.mints = IF id \in DOMAIN record.mints THEN record.mints[id] ELSE @]

ResetAll(entries, record) == [id \in DOMAIN entries |-> Reset(entries[id], id, record)]

UndoesTo(u, t, record, h) ==
  /\ IsMap(u) /\ TFields(u)
  /\ u.balances = BalancesBack(t.balances, record.removed, record.added)
  /\ u.heights = HeightsBack(t.heights, record.removed, record.added)
  /\ u.entries = Except(ResetAll(t.entries, record), Etched(record, 2))
  /\ u.ids = Except(t.ids, Etched(record, 1))
  /\ u.etchings = Except(t.etchings, Etched(record, 3))
  /\ u.runes = Except(t.runes, {h}) /\ u.reserved = Except(t.reserved, {h})

LEMMA UndoIs ==
  ASSUME NEW t, NEW record, NEW h
  PROVE  UndoesTo(Undo(t, record, h), t, record, h)
<1>1. PICK balances, heights, entries, ids, etchings, runes, reserved :
        /\ balances = BalancesBack(t.balances, record.removed, record.added)
        /\ heights = HeightsBack(t.heights, record.removed, record.added)
        /\ entries = Except(ResetAll(t.entries, record),
                            Etched(record, 2))
        /\ ids = Except(t.ids, Etched(record, 1))
        /\ etchings = Except(t.etchings, Etched(record, 3))
        /\ runes = Except(t.runes, {h}) /\ reserved = Except(t.reserved, {h})
  OBVIOUS
<1>2. PICK u : u = Undo(t, record, h)
  OBVIOUS
<1>3. u = [balances |-> balances, heights |-> heights, entries |-> entries, ids |-> ids,
           etchings |-> etchings, runes |-> runes, reserved |-> reserved]
  BY <1>1, <1>2 DEF Undo, BalancesBack, HeightsBack, Reset, ResetAll, Etched
<1>4. /\ IsMap(u) /\ TFields(u)
      /\ u.balances = balances /\ u.heights = heights /\ u.entries = entries /\ u.ids = ids
      /\ u.etchings = etchings /\ u.runes = runes /\ u.reserved = reserved
  BY <1>3 DEF IsMap, TFields
<1> QED
  BY <1>1, <1>2, <1>4 DEF UndoesTo

(* One entry, burned amounts added and taken back.                         *)
LEMMA EntryBack ==
  ASSUME NEW e, NEW x, NEW old, NEW id, NEW burned, NEW record, IsMap(old), IsMap(e),
         DOMAIN old = EntryFields, DOMAIN e = EntryFields,
         \A f \in EntryFields : f # "mints" => e[f] = old[f],
         id \in DOMAIN record.mints => record.mints[id] = old.mints,
         id \notin DOMAIN record.mints => e.mints = old.mints,
         DOMAIN record.burned = DOMAIN burned,
         id \in DOMAIN burned => record.burned[id] = e.burned,
         x = IF id \in DOMAIN burned THEN [e EXCEPT !.burned = @ + burned[id]] ELSE e
  PROVE  Reset(x, id, record) = old
<1>1. /\ "burned" \in EntryFields /\ "mints" \in EntryFields
  BY DEF EntryFields
<1>2. /\ IsMap(x) /\ DOMAIN x = EntryFields
      /\ \A f \in EntryFields : f # "mints" /\ f # "burned" => x[f] = old[f]
      /\ x.mints = e.mints
      /\ id \notin DOMAIN burned => x.burned = old.burned
  <2>1. CASE id \in DOMAIN burned
    <3>1. PICK k : k = e.burned + burned[id]
      OBVIOUS
    <3>2. x = [e EXCEPT !.burned = k]
      BY <2>1, <3>1
    <3> QED
      BY <1>1, <2>1, <3>2 DEF IsMap
  <2>2. CASE id \notin DOMAIN burned
    BY <1>1, <2>2
  <2> QED
    BY <2>1, <2>2
<1>3. PICK p, q : /\ p = IF id \in DOMAIN record.burned THEN record.burned[id] ELSE x.burned
                  /\ q = IF id \in DOMAIN record.mints THEN record.mints[id] ELSE x.mints
  OBVIOUS
<1>4. p = old.burned
  BY <1>1, <1>2, <1>3
<1>5. q = old.mints
  BY <1>2, <1>3
<1>6. PICK y : y = Reset(x, id, record)
  OBVIOUS
<1>7. y = [x EXCEPT !.burned = p, !.mints = q]
  BY <1>1, <1>2, <1>3, <1>6 DEF Reset
<1>8. IsMap(y) /\ DOMAIN y = EntryFields /\ y.burned = p /\ y.mints = q
      /\ \A f \in EntryFields : f # "mints" /\ f # "burned" => y[f] = x[f]
  BY <1>1, <1>2, <1>7 DEF IsMap
<1>9. \A f \in EntryFields : y[f] = old[f]
  BY <1>2, <1>4, <1>5, <1>8
<1>10. y = old
  BY <1>8, <1>9 DEF IsMap
<1> QED
  BY <1>6, <1>10

LEMMA OutsBack ==
  ASSUME NEW s, NEW t0, NEW b, NEW j, Outs(s, t0, b, j)
  PROVE  /\ IsMap(t0.balances) =>
              BalancesBack(s.t.balances, s.record.removed, s.record.added) = t0.balances
         /\ IsMap(t0.heights) /\ DOMAIN t0.heights = DOMAIN t0.balances =>
              HeightsBack(s.t.heights, s.record.removed, s.record.added) = t0.heights
<1>1. PICK balances, heights, removed, added :
        /\ balances = s.t.balances /\ heights = s.t.heights
        /\ removed = s.record.removed /\ added = s.record.added
  OBVIOUS
<1>2. /\ DOMAIN balances = DOMAIN heights
      /\ \A o \in DOMAIN t0.balances :
           /\ o \notin added
           /\ \/ /\ o \in DOMAIN balances /\ o \notin DOMAIN removed
                 /\ balances[o] = t0.balances[o] /\ heights[o] = t0.heights[o]
              \/ /\ o \in DOMAIN removed
                 /\ removed[o].balances = t0.balances[o] /\ removed[o].height = t0.heights[o]
      /\ \A o \in DOMAIN balances \cup DOMAIN removed : o \in DOMAIN t0.balances \/ o \in added
  BY <1>1 DEF Outs, OutKept, OutTaken
<1>3. ASSUME IsMap(t0.balances)
      PROVE  BalancesBack(balances, removed, added) = t0.balances
  <2>1. PICK m : m = BalancesBack(balances, removed, added)
    OBVIOUS
  <2>2. /\ IsMap(m) /\ DOMAIN m = (DOMAIN balances \cup DOMAIN removed) \ added
        /\ \A o \in DOMAIN m : m[o] = IF o \in DOMAIN removed THEN removed[o].balances ELSE balances[o]
    BY <2>1 DEF BalancesBack, Override, Except, IsMap
  <2>3. DOMAIN m = DOMAIN t0.balances
    BY <1>2, <2>2
  <2>4. \A o \in DOMAIN m : m[o] = t0.balances[o]
    BY <1>2, <2>2, <2>3
  <2> QED
    BY <1>3, <2>1, <2>2, <2>3, <2>4 DEF IsMap
<1>4. ASSUME IsMap(t0.heights), DOMAIN t0.heights = DOMAIN t0.balances
      PROVE  HeightsBack(heights, removed, added) = t0.heights
  <2>1. PICK m : m = HeightsBack(heights, removed, added)
    OBVIOUS
  <2>2. /\ IsMap(m) /\ DOMAIN m = (DOMAIN heights \cup DOMAIN removed) \ added
        /\ \A o \in DOMAIN m : m[o] = IF o \in DOMAIN removed THEN removed[o].height ELSE heights[o]
    BY <2>1 DEF HeightsBack, Override, Except, IsMap
  <2>3. DOMAIN m = DOMAIN t0.heights
    BY <1>2, <1>4, <2>2
  <2>4. \A o \in DOMAIN m : m[o] = t0.heights[o]
    BY <1>2, <1>4, <2>2, <2>3
  <2> QED
    BY <1>4, <2>1, <2>2, <2>3, <2>4 DEF IsMap
<1> QED
  BY <1>1, <1>3, <1>4

RecordOf(s, burned, record) ==
  /\ record.mints = s.record.mints /\ record.etched = s.record.etched
  /\ record.burned = BurnedBefore(s.t.entries, burned)

LEMMA EntsBack ==
  ASSUME NEW s, NEW t0, NEW b, NEW h, NEW burned, NEW record, Shaped(s), Ents(s, t0, b, h),
         ShapedTables(t0), Maps7(t0),
         RecordOf(s, burned, record)
  PROVE  Except(ResetAll(Burns(s.t.entries, burned), record), Etched(record, 2))
           = t0.entries
<1>1. PICK entries, now, m : /\ entries = s.t.entries /\ now = Burns(entries, burned)
                             /\ m = Except(ResetAll(now, record), Etched(record, 2))
  OBVIOUS
<1>2. Etched(record, 2) = Etched(s.record, 2)
  BY DEF Etched, RecordOf
<1>3. DOMAIN now = DOMAIN entries
  BY <1>1 DEF Burns
<1>4. /\ IsMap(m) /\ DOMAIN m = DOMAIN entries \ Etched(s.record, 2)
      /\ \A id \in DOMAIN m : m[id] = Reset(now[id], id, record)
  BY <1>1, <1>2, <1>3 DEF Except, ResetAll, IsMap
<1>5. DOMAIN m = DOMAIN t0.entries
  BY <1>1, <1>4 DEF Ents
<1>6. ASSUME NEW id \in DOMAIN t0.entries PROVE m[id] = t0.entries[id]
  <2>1. PICK e, x, old : e = entries[id] /\ x = now[id] /\ old = t0.entries[id]
    OBVIOUS
  <2>2. id \in DOMAIN entries /\ EntryKept(id, s, t0)
    BY <1>1 DEF Ents
  <2>3. x = IF id \in DOMAIN burned THEN [e EXCEPT !.burned = @ + burned[id]] ELSE e
    BY <1>1, <2>1, <2>2 DEF Burns
  <2>4. IsMap(old) /\ IsMap(e) /\ DOMAIN old = EntryFields /\ DOMAIN e = EntryFields
    BY <1>1, <2>1, <2>2 DEF Maps7, ShapedTables, Ents, Shaped
  <2>5. DOMAIN record.burned = DOMAIN burned /\ (id \in DOMAIN burned => record.burned[id] = e.burned)
    BY <1>1, <2>1 DEF BurnedBefore, RecordOf
  <2>6. /\ \A f \in EntryFields : f # "mints" => e[f] = old[f]
        /\ id \in DOMAIN record.mints => record.mints[id] = old.mints
        /\ id \notin DOMAIN record.mints => e.mints = old.mints
    BY <1>1, <2>1, <2>2, <2>4 DEF EntryKept, RecordOf
  <2>7. Reset(x, id, record) = old
    BY <2>3, <2>4, <2>5, <2>6, EntryBack
  <2> QED
    BY <1>4, <1>5, <2>1, <2>7
<1>7. m = t0.entries
  BY <1>4, <1>5, <1>6 DEF IsMap, Maps7
<1> QED
  BY <1>1, <1>7

RowsKept(m, m0, h) ==
  /\ IsMap(m0) /\ DOMAIN m = FirstHeight..h /\ DOMAIN m0 = FirstHeight..h - 1
  /\ \A k \in FirstHeight..h : k # h => m[k] = m0[k]

LEMMA RowsBack ==
  ASSUME NEW m, NEW m0, NEW h \in Nat, RowsKept(m, m0, h)
  PROVE  Except(m, {h}) = m0
<1>1. FirstHeight \in Nat
  BY LedgerAssumption
<1>2. (FirstHeight..h) \ {h} = FirstHeight..h - 1
  BY <1>1
<1>3. \A k \in FirstHeight..h - 1 : k \in FirstHeight..h /\ k # h
  BY <1>1
<1> QED
  BY <1>2, <1>3 DEF Except, IsMap, RowsKept

LEMMA KeysBack ==
  ASSUME NEW m, NEW m0, NEW keys, Extends(m, m0, keys), IsMap(m0)
  PROVE  Except(m, keys) = m0
<1>1. DOMAIN m \ keys = DOMAIN m0
  BY DEF Extends
<1> QED
  BY <1>1 DEF Extends, Except, IsMap

(* The rollback of one block undoes what indexing it did.                  *)
LEMMA UndoBack ==
  ASSUME NEW s, NEW r, NEW t0, NEW W, NEW c, NEW b, NEW h, NEW i, Base(t0, b, h),
         Fine(t0, c, h - 1), s.at = 0, Pair(s, r, t0, W, b, h, i, Len(Txs[b]))
  PROVE  Undo(Updated(r).t, Updated(s).record, h) = t0
<1>1. PICK t, record, n, u : /\ t = Updated(r).t /\ record = Updated(s).record
                             /\ n = Len(Txs[b]) /\ u = Undo(t, record, h)
  OBVIOUS
<1>2. /\ Twins(s, r, t0, W, h) /\ Outs(s, t0, b, n) /\ Ents(s, t0, b, h) /\ h \in Nat
      /\ Shaped(s) /\ Shaped(r) /\ SameTables(s.t, r.t, W) /\ s.burned = r.burned
  BY <1>1 DEF Pair, Rev, Base, Twins, Twin
<1>3. /\ ShapedTables(t0) /\ Maps7(t0) /\ Full(t0, h - 1) /\ DOMAIN t0.balances = DOMAIN t0.heights
  BY DEF Fine
<1>4. /\ t.entries = Burns(r.t.entries, r.burned)
      /\ t.balances = r.t.balances /\ t.heights = r.t.heights
      /\ t.ids = r.t.ids /\ t.etchings = r.t.etchings
      /\ t.runes = r.t.runes /\ t.reserved = r.t.reserved
  BY <1>1, <1>2, UpdatedIs
<1>5. /\ record.burned = BurnedBefore(s.t.entries, s.burned)
      /\ record.removed = s.record.removed /\ record.added = s.record.added
      /\ record.mints = s.record.mints /\ record.etched = s.record.etched
  BY <1>1, <1>2, UpdatedIs
<1>6. /\ IsMap(u) /\ TFields(u)
      /\ u.balances = BalancesBack(t.balances, record.removed, record.added)
      /\ u.heights = HeightsBack(t.heights, record.removed, record.added)
      /\ u.entries = Except(ResetAll(t.entries, record),
                            Etched(record, 2))
      /\ u.ids = Except(t.ids, Etched(record, 1))
      /\ u.etchings = Except(t.etchings, Etched(record, 3))
      /\ u.runes = Except(t.runes, {h}) /\ u.reserved = Except(t.reserved, {h})
  <2>1. u = Undo(t, record, h)
    BY <1>1
  <2>2. UndoesTo(u, t, record, h)
    BY <2>1, UndoIs
  <2> QED
    BY <2>2 DEF UndoesTo
<1>7. /\ t.entries = Burns(s.t.entries, s.burned)
      /\ t.balances = s.t.balances /\ t.heights = s.t.heights
      /\ t.ids = s.t.ids /\ t.etchings = s.t.etchings
  BY <1>2, <1>4 DEF SameTables
<1>8. u.balances = t0.balances /\ u.heights = t0.heights
  <2>1. IsMap(t0.balances) /\ IsMap(t0.heights)
    BY <1>3 DEF Maps7
  <2>2. /\ BalancesBack(s.t.balances, s.record.removed, s.record.added) = t0.balances
        /\ HeightsBack(s.t.heights, s.record.removed, s.record.added) = t0.heights
    BY <1>2, <1>3, <2>1, OutsBack
  <2> QED
    BY <1>5, <1>6, <1>7, <2>2
<1>9. u.entries = t0.entries
  <2>1. Except(ResetAll(Burns(s.t.entries, s.burned), record), Etched(record, 2))
           = t0.entries
    <3>1. PICK burned : burned = s.burned
      OBVIOUS
    <3>2. RecordOf(s, burned, record)
      BY <1>5, <3>1 DEF RecordOf
    <3>3. Except(ResetAll(Burns(s.t.entries, burned), record), Etched(record, 2)) = t0.entries
      BY <1>2, <1>3, <3>2, EntsBack
    <3> QED
      BY <3>1, <3>3
  <2> QED
    BY <1>6, <1>7, <2>1
<1>10. u.ids = t0.ids /\ u.etchings = t0.etchings
  <2>1. /\ Extends(t.ids, t0.ids, Etched(s.record, 1))
        /\ Extends(t.etchings, t0.etchings, Etched(s.record, 3))
    BY <1>2, <1>7 DEF Ents
  <2>2. Etched(record, 1) = Etched(s.record, 1) /\ Etched(record, 3) = Etched(s.record, 3)
    BY <1>5 DEF Etched
  <2>3. IsMap(t0.ids) /\ IsMap(t0.etchings)
    BY <1>3 DEF Maps7
  <2> QED
    BY <1>6, <2>1, <2>2, <2>3, KeysBack
<1>11. u.runes = t0.runes /\ u.reserved = t0.reserved
  <2>1. /\ DOMAIN t.runes = FirstHeight..h /\ DOMAIN t.reserved = FirstHeight..h
        /\ \A k \in FirstHeight..h : k # h => t.runes[k] = t0.runes[k] /\ t.reserved[k] = t0.reserved[k]
    BY <1>2, <1>4 DEF Twins, Full
  <2>2. /\ IsMap(t0.runes) /\ DOMAIN t0.runes = FirstHeight..h - 1
        /\ IsMap(t0.reserved) /\ DOMAIN t0.reserved = FirstHeight..h - 1
    BY <1>3 DEF Full
  <2>3. RowsKept(t.runes, t0.runes, h) /\ RowsKept(t.reserved, t0.reserved, h)
    BY <2>1, <2>2 DEF RowsKept
  <2> QED
    BY <1>2, <1>6, <2>3, RowsBack
<1>12. TFields(t0) /\ IsMap(t0)
  BY <1>3 DEF ShapedTables, TableFields, TFields, Maps7
<1>13. u = t0
  BY <1>6, <1>8, <1>9, <1>10, <1>11, <1>12, SameAll
<1> QED
  BY <1>1, <1>13

-----------------------------------------------------------------------------
(* The window, a rollback and pruning.                                     *)

LEMMA WindowExcept ==
  ASSUME NEW m, NEW W, NEW h
  PROVE  Except(InWindow(m, W), {h}) = InWindow(Except(m, {h}), W \ {h})
BY DEF Except, InWindow

LEMMA WinUndo ==
  ASSUME NEW t, NEW W, NEW record, NEW h, ShapedTables(t)
  PROVE  Undo(Win(t, W), record, h) = Win(Undo(t, record, h), W \ {h})
<1>1. PICK w, u, p, q : /\ w = Win(t, W) /\ u = Undo(t, record, h)
                        /\ p = Undo(w, record, h) /\ q = Win(u, W \ {h})
  OBVIOUS
<1>2. /\ w.balances = t.balances /\ w.heights = t.heights /\ w.entries = t.entries
      /\ w.ids = t.ids /\ w.etchings = t.etchings
      /\ w.runes = InWindow(t.runes, W) /\ w.reserved = InWindow(t.reserved, W)
  BY <1>1, WinIs
<1>3. UndoesTo(u, t, record, h) /\ UndoesTo(p, w, record, h)
  BY <1>1, UndoIs
<1>4. ShapedTables(u)
  BY <1>1, UndoFields
<1>5. /\ ShapedTables(q) /\ IsMap(q)
      /\ q.balances = u.balances /\ q.heights = u.heights /\ q.entries = u.entries
      /\ q.ids = u.ids /\ q.etchings = u.etchings
      /\ q.runes = InWindow(u.runes, W \ {h}) /\ q.reserved = InWindow(u.reserved, W \ {h})
  BY <1>1, <1>4, WinIs
<1>6. /\ p.balances = q.balances /\ p.heights = q.heights /\ p.entries = q.entries
      /\ p.ids = q.ids /\ p.etchings = q.etchings
  BY <1>2, <1>3, <1>5 DEF UndoesTo
<1>7. p.runes = q.runes /\ p.reserved = q.reserved
  <2>1. /\ p.runes = Except(InWindow(t.runes, W), {h})
        /\ p.reserved = Except(InWindow(t.reserved, W), {h})
        /\ q.runes = InWindow(Except(t.runes, {h}), W \ {h})
        /\ q.reserved = InWindow(Except(t.reserved, {h}), W \ {h})
    BY <1>2, <1>3, <1>5 DEF UndoesTo
  <2>2. PICK x, y : x = t.runes /\ y = t.reserved
    OBVIOUS
  <2>3. /\ Except(InWindow(x, W), {h}) = InWindow(Except(x, {h}), W \ {h})
        /\ Except(InWindow(y, W), {h}) = InWindow(Except(y, {h}), W \ {h})
    BY ZenonT(60), WindowExcept
  <2> QED
    BY <2>1, <2>2, <2>3
<1>8. TFields(p) /\ TFields(q) /\ IsMap(p)
  BY <1>3, <1>5 DEF UndoesTo, ShapedTables, TableFields, TFields
<1>9. p = q
  BY <1>5, <1>6, <1>7, <1>8, SameAll
<1> QED
  BY <1>1, <1>9

LEMMA WindowPruned ==
  ASSUME NEW m, NEW W, NEW V, NEW h, V = {k \in W : k > h - MaxDepth}
  PROVE  Pruned(InWindow(m, W), h) = InWindow(m, V)
<1>1. DOMAIN Pruned(InWindow(m, W), h) = DOMAIN m \cap V
  BY DEF Pruned, InWindow
<1> QED
  BY <1>1 DEF Pruned, InWindow

LEMMA WinPruned ==
  ASSUME NEW u, NEW t, NEW W, NEW V, NEW h, V = {k \in W : k > h - MaxDepth},
         ShapedTables(u), ShapedTables(t), SameTables(u, t, W)
  PROVE  PrunedTables(u, h) = Win(t, V)
<1>1. PICK p, q, a, c : /\ p = PrunedTables(u, h) /\ q = Win(t, V)
                        /\ a = Pruned(u.runes, h) /\ c = Pruned(u.reserved, h)
  OBVIOUS
<1>2. p = [u EXCEPT !.runes = a, !.reserved = c]
  BY <1>1 DEF PrunedTables
<1>3. TFields(u)
  BY DEF ShapedTables, TableFields, TFields
<1>4. /\ TFields(p) /\ IsMap(p)
      /\ p.balances = u.balances /\ p.heights = u.heights /\ p.entries = u.entries
      /\ p.ids = u.ids /\ p.etchings = u.etchings /\ p.runes = a /\ p.reserved = c
  BY <1>2, <1>3 DEF TFields, IsMap
<1>5. /\ ShapedTables(q) /\ IsMap(q)
      /\ q.balances = t.balances /\ q.heights = t.heights /\ q.entries = t.entries
      /\ q.ids = t.ids /\ q.etchings = t.etchings
      /\ q.runes = InWindow(t.runes, V) /\ q.reserved = InWindow(t.reserved, V)
  BY <1>1, WinIs
<1>6. a = InWindow(t.runes, V) /\ c = InWindow(t.reserved, V)
  <2>1. u.runes = InWindow(t.runes, W) /\ u.reserved = InWindow(t.reserved, W)
    BY DEF SameTables
  <2> QED
    BY <1>1, <2>1, WindowPruned
<1>7. /\ p.balances = q.balances /\ p.heights = q.heights /\ p.entries = q.entries
      /\ p.ids = q.ids /\ p.etchings = q.etchings /\ p.runes = q.runes /\ p.reserved = q.reserved
  BY <1>4, <1>5, <1>6 DEF SameTables
<1>8. TFields(q)
  BY <1>5 DEF ShapedTables, TableFields, TFields
<1>9. p = q
  BY <1>4, <1>5, <1>7, <1>8, SameAll
<1> QED
  BY <1>1, <1>9

(* Once no transaction waits, further answers change nothing.              *)
LEMMA AnswersStay ==
  ASSUME NEW acc, NEW t, NEW h, NEW b \in Block, Iterates(acc, t, h, b),
         NEW k \in 0..Len(Txs[b]), acc[k].at = 0
  PROVE  IndexWhole(t, h, b) = Updated(acc[k]).t
<1>1. PICK n : n = Len(Txs[b])
  OBVIOUS
<1>2. n \in Nat /\ k \in Nat /\ k <= n
  BY <1>1, LedgerAssumption
<1> DEFINE P(j) == k <= j => acc[j] = acc[k]
<1>3. P(0)
  <2>1. k <= 0 => k = 0
    BY <1>2
  <2> QED
    BY <2>1
<1>4. ASSUME NEW j \in Nat, j + 1 <= n, P(j) PROVE P(j + 1)
  <2>1. CASE k <= j
    <3>1. j + 1 \in 1..n /\ (j + 1) - 1 = j
      BY <1>2, <1>4
    <3>2. acc[j + 1] = IF acc[j].at = 0 THEN acc[j] ELSE Continue(acc[j], Txs[b])
      BY <1>1, <3>1 DEF Iterates
    <3> QED
      BY <1>4, <2>1, <3>2
  <2>2. CASE ~ (k <= j)
    <3>1. k <= j + 1 => k = j + 1
      BY <1>2, <2>2
    <3> QED
      BY <3>1
  <2> QED
    BY <2>1, <2>2
<1>5. P(n)
  <2> DEFINE T == {j \in Nat : j <= n /\ ~ P(j)}
  <2> HIDE DEF P
  <2> SUFFICES ASSUME T # {} PROVE FALSE
    BY <1>2
  <2>1. T \subseteq Nat
    OBVIOUS
  <2>2. PICK x \in T : \A y \in T : ~ (y < x)
    <3> HIDE DEF T
    <3> QED
      BY <2>1, TxFold!LeastNatural
  <2>3. x \in Nat /\ x <= n /\ ~ P(x) /\ x # 0
    BY <1>3, <2>2
  <2>4. x - 1 \in Nat /\ x - 1 <= n /\ (x - 1) + 1 = x /\ x - 1 < x
    BY <1>2, <2>3
  <2>5. P(x - 1)
    BY <2>2, <2>4
  <2>6. P((x - 1) + 1)
    BY <1>4, <2>3, <2>4, <2>5
  <2> QED
    BY <2>3, <2>4, <2>6
<1>6. acc[n] = acc[k]
  BY <1>2, <1>5
<1> QED
  BY <1>1, <1>6 DEF Iterates

-----------------------------------------------------------------------------
(***************************************************************************)
(* The invariant, while no attempt was cut off: the tables are those of    *)
(* the replay, as far as the window keeps them, and each change record     *)
(* leads back to the tables of the block below.  In the middle of a block  *)
(* they follow the replay of that block, lookup by lookup.                 *)
(***************************************************************************)
Follows(s, t0, W, b, h) ==
  \E k, i \in Nat :
    /\ k <= i /\ k <= Len(Txs[b])
    /\ Pair(s, Answers(t0, h, b)[k], t0, W, b, h, i, Len(Txs[b]))

Returns(h) ==
  h - 1 \in DOMAIN headers => Undo(Pure(headers[h]), records[h], h) = Pure(headers[h - 1])

Match ==
  /\ \A h \in DOMAIN headers : Fine(Pure(headers[h]), ChainTo[headers[h]], h)
  /\ \A h \in DOMAIN headers : Returns(h)
  /\ block = NoBlock => tables = Win(Pure(Latest), DOMAIN headers)
  /\ block # NoBlock =>
       Follows(Joined, Pure(Latest), DOMAIN headers \cup {NextHeight}, block, NextHeight)

ReplayInv == cutOffs \in Nat /\ (cutOffs = 0 => LedgerInv /\ Match)

LEMMA NoTablesFine ==
  Fine(NoTables, <<>>, FirstHeight - 1)
<1>1. /\ DOMAIN NoTables.balances = {} /\ DOMAIN NoTables.heights = {}
      /\ DOMAIN NoTables.entries = {} /\ DOMAIN NoTables.ids = {} /\ DOMAIN NoTables.etchings = {}
      /\ DOMAIN NoTables.runes = {} /\ DOMAIN NoTables.reserved = {}
      /\ DOMAIN NoTables = TableFields
  BY DEF NoTables, EmptyMap, TableFields
<1>2. IsMap(EmptyMap) /\ IsMap(NoTables)
  BY DEF IsMap, EmptyMap, NoTables
<1>3. /\ NoTables.balances = EmptyMap /\ NoTables.heights = EmptyMap /\ NoTables.entries = EmptyMap
      /\ NoTables.ids = EmptyMap /\ NoTables.etchings = EmptyMap /\ NoTables.runes = EmptyMap
      /\ NoTables.reserved = EmptyMap
  BY DEF NoTables
<1>4. FirstHeight..FirstHeight - 1 = {}
  BY LedgerAssumption
<1>5. ShapedTables(NoTables) /\ Maps7(NoTables) /\ Full(NoTables, FirstHeight - 1)
  BY <1>1, <1>2, <1>3, <1>4 DEF ShapedTables, Maps7, Full
<1> QED
  BY <1>1, <1>5 DEF Fine, Created, Clear, EtchedOn, UpTo

LEMMA GrowsHere ==
  ASSUME Window, OneChain, NEW b \in Block, Parent[b] = Latest
  PROVE  Grows(Indexed, b, NextHeight) /\ Opens(DOMAIN headers, NextHeight)
<1>1. PICK h, c, W : h = NextHeight /\ c = Indexed /\ W = DOMAIN headers
  OBVIOUS
<1>2. /\ c \in Seq(Block) /\ Len(c) = h - FirstHeight /\ Len(ChainTo[b]) = h - FirstHeight + 1
      /\ \A i \in 1..Len(c) : ChainTo[b][i] = c[i]
  BY <1>1, ChainNext
<1>3. /\ h \in Nat /\ FirstHeight <= h
      /\ W = {} => h = FirstHeight
      /\ W # {} => /\ Top \in Nat /\ h = Top + 1
                   /\ \E lo \in W : FirstHeight <= lo /\ W = lo..Top /\ Top \in W
  BY <1>1, WindowFacts
<1>4. Grows(c, b, h)
  BY <1>2, <1>3 DEF Grows
<1>5. Opens(W, h)
  <2>1. CASE W = {}
    BY <1>3, <2>1 DEF Opens
  <2>2. CASE W # {}
    <3>1. PICK top \in Nat : /\ h = top + 1 /\ top \in W
                             /\ \E lo \in W : FirstHeight <= lo /\ W = lo..top
      BY <1>3, <2>2
    <3>2. PICK lo \in W : FirstHeight <= lo /\ W = lo..top
      BY <3>1
    <3>3. lo \in Nat
      BY <1>1 DEF Window
    <3>4. h - 1 = top
      BY <3>1
    <3>5. Span(W, top)
      BY <3>1, <3>2, <3>3 DEF Span
    <3> QED
      BY <3>1, <3>4, <3>5 DEF Opens
  <2> QED
    BY <2>1, <2>2
<1> QED
  BY <1>1, <1>4, <1>5

LEMMA LatestFine ==
  ASSUME Window, OneChain, Match
  PROVE  Fine(Pure(Latest), Indexed, NextHeight - 1)
<1>1. CASE DOMAIN headers = {}
  <2>1. Latest = NoBlock /\ NextHeight = FirstHeight
    BY <1>1, WindowFacts
  <2>2. Indexed = <<>> /\ Pure(Latest) = NoTables
    BY <2>1 DEF Indexed, Pure
  <2> QED
    BY <2>1, <2>2, NoTablesFine
<1>2. CASE DOMAIN headers # {}
  <2>1. PICK top \in Nat : top \in DOMAIN headers /\ NextHeight = top + 1 /\ Latest = headers[top]
    BY <1>2, WindowFacts
  <2>2. Latest \in Block /\ Latest # NoBlock
    BY <2>1, LedgerAssumption DEF OneChain
  <2>3. Indexed = ChainTo[Latest]
    BY <2>2 DEF Indexed
  <2>4. Fine(Pure(Latest), ChainTo[Latest], top)
    BY <2>1 DEF Match
  <2>5. NextHeight - 1 = top
    BY <2>1
  <2> QED
    BY <2>3, <2>4, <2>5
<1> QED
  BY <1>1, <1>2

LEMMA BaseHere ==
  ASSUME Window, OneChain, Match, NEW b \in Block, Parent[b] = Latest
  PROVE  Base(Pure(Latest), b, NextHeight)
BY LatestFine, GrowsHere, BaseFine

-----------------------------------------------------------------------------
(* The steps.                                                              *)

LEMMA SavedPair ==
  ASSUME NEW s, NEW r, NEW t0, NEW W, NEW b, NEW h, NEW i, NEW j, Pair(s, r, t0, W, b, h, i, j)
  PROVE  Pair(Put(Apart(s), "t", s.t), r, t0, W, b, h, i, j)
<1>1. PICK p : p = Put(Apart(s), "t", s.t)
  OBVIOUS
<1>2. Shaped(s)
  BY DEF Pair, Twins, Twin
<1>3. DOMAIN s = UpdaterFields \cup {"t"}
  BY <1>2 DEF Shaped
<1>4. DOMAIN Apart(s) = UpdaterFields /\ \A k \in UpdaterFields : Apart(s)[k] = s[k]
  BY <1>3 DEF Apart, Except, UpdaterFields
<1>5. DOMAIN p = UpdaterFields \cup {"t"} /\ p.t = s.t /\ \A k \in UpdaterFields : p[k] = s[k]
  BY <1>1, <1>4 DEF Put, UpdaterFields
<1>6. /\ p.t = s.t /\ p.height = s.height /\ p.runes = s.runes /\ p.burned = s.burned
      /\ p.record = s.record /\ p.at = s.at /\ p.left = s.left
  BY <1>5 DEF UpdaterFields
<1>7. Shaped(p)
  BY <1>2, <1>5, <1>6 DEF Shaped
<1>8. SameRev(s, p)
  BY <1>6, <1>7 DEF SameRev, SameOuts, SameEnts
<1>9. Twins(p, r, t0, W, h)
  BY <1>6, <1>7 DEF Pair, Twins, Twin
<1>10. Pair(p, r, t0, W, b, h, i, j)
  BY <1>6, <1>8, <1>9, RevSame DEF Pair
<1> QED
  BY <1>1, <1>10

LEMMA SuspendedMatch ==
  ASSUME Match, NEW b \in Block, NEW s, Suspended(b, s),
         Follows(s, Pure(Latest), DOMAIN headers \cup {NextHeight}, b, NextHeight)
  PROVE  Match'
<1>1. /\ s.at # 0 /\ tables' = s.t /\ block' = b /\ updater' = Apart(s)
      /\ UNCHANGED <<records, headers, cutOffs, tried>>
  BY DEF Suspended
<1>2. NextHeight' = NextHeight /\ Latest' = Latest
  BY <1>1 DEF NextHeight, Latest, Top
<1>3. PICK p : p = Put(Apart(s), "t", s.t)
  OBVIOUS
<1>4. Joined' = p
  BY <1>1, <1>3 DEF Joined
<1>5. Follows(p, Pure(Latest), DOMAIN headers \cup {NextHeight}, b, NextHeight)
  BY <1>3, SavedPair DEF Follows
<1>6. block' # NoBlock
  BY <1>1, LedgerAssumption
<1>7. /\ \A h \in DOMAIN headers : Fine(Pure(headers[h]), ChainTo[headers[h]], h)
      /\ \A h \in DOMAIN headers : Returns(h)
  BY DEF Match
<1>8. \A h : Returns(h)' <=> Returns(h)
  BY <1>1 DEF Returns
<1> QED
  BY <1>1, <1>2, <1>4, <1>5, <1>6, <1>7, <1>8 DEF Match

(***************************************************************************)
(* A block that has ended, and its replay.                                 *)
(***************************************************************************)
LEMMA EndOfBlock ==
  ASSUME NEW s, NEW t0, NEW W, NEW c, NEW b \in Block, NEW h \in Nat, Base(t0, b, h),
         Fine(t0, c, h - 1), t0 = Pure(Parent[b]), s.at = 0, Burnable(s), Follows(s, t0, W, b, h)
  PROVE  /\ Fine(Pure(b), ChainTo[b], h)
         /\ Undo(Pure(b), Updated(s).record, h) = t0
         /\ ShapedTables(Updated(s).t) /\ SameTables(Updated(s).t, Pure(b), W)
         /\ Updated(s).height = h
<1>1. PICK k \in Nat, i \in Nat :
        /\ k <= i /\ k <= Len(Txs[b])
        /\ Pair(s, Answers(t0, h, b)[k], t0, W, b, h, i, Len(Txs[b]))
  BY DEF Follows
<1>2. PICK acc : acc = Answers(t0, h, b) /\ Iterates(acc, t0, h, b)
  BY AnswersIterate
<1>3. PICK r : r = acc[k]
  OBVIOUS
<1>4. Pair(s, r, t0, W, b, h, i, Len(Txs[b]))
  BY <1>1, <1>2, <1>3
<1>5. Twins(s, r, t0, W, h) /\ s.height = h /\ Shaped(s) /\ r.at = 0
  BY <1>4 DEF Pair, Twins, Twin, Rev
<1>6. k \in 0..Len(Txs[b])
  BY <1>1, LedgerAssumption
<1>7. IndexWhole(t0, h, b) = Updated(r).t
  BY <1>2, <1>3, <1>5, <1>6, AnswersStay
<1>8. Pure(b) = Updated(r).t
  <2>1. Len(ChainTo[b]) = h - FirstHeight + 1
    BY DEF Base
  <2> QED
    BY <1>7, <2>1, PureNext
<1>9. Fine(Pure(b), ChainTo[b], h)
  BY <1>4, <1>8, EndFine
<1>10. Undo(Pure(b), Updated(s).record, h) = t0
  BY <1>4, <1>8, UndoBack
<1>11. ShapedTables(Updated(s).t) /\ SameTables(Updated(s).t, Pure(b), W)
  BY <1>5, <1>8, EndTwins
<1>12. Updated(s).height = h
  BY <1>5, UpdatedIs
<1> QED
  BY <1>9, <1>10, <1>11, <1>12

LEMMA DoneMatch ==
  ASSUME Window, OneChain, Match, NEW b \in Block, Parent[b] = Latest, NEW s, Done(s, b),
         Follows(s, Pure(Latest), DOMAIN headers \cup {NextHeight}, b, NextHeight)
  PROVE  Match'
<1>1. PICK h, t0, W, V, c, u, record :
        /\ h = NextHeight /\ t0 = Pure(Latest) /\ W = DOMAIN headers \cup {h} /\ c = Indexed
        /\ V = {k \in W : k > h - MaxDepth} /\ u = Updated(s).t /\ record = Updated(s).record
  OBVIOUS
<1>2. h \in Nat /\ Base(t0, b, h) /\ Fine(t0, c, h - 1)
  BY <1>1, WindowFacts, BaseHere, LatestFine
<1>3. /\ Fine(Pure(b), ChainTo[b], h) /\ Undo(Pure(b), record, h) = t0
      /\ ShapedTables(u) /\ SameTables(u, Pure(b), W) /\ Updated(s).height = h
  <2>1. s.at = 0 /\ Burnable(s) /\ t0 = Pure(Parent[b]) /\ Follows(s, t0, W, b, h)
    BY <1>1 DEF Done
  <2> QED
    BY <1>1, <1>2, <2>1, EndOfBlock
<1>4. /\ tables' = PrunedTables(u, h)
      /\ records' = Pruned(Put(records, h, record), h)
      /\ headers' = Put(Pruned(headers, h), h, b)
      /\ block' = NoBlock
  BY <1>1, <1>3 DEF Done
<1>5. /\ Window' /\ NextHeight' = h + 1 /\ Latest' = b
      /\ DOMAIN headers' = V
      /\ headers'[h] = b
      /\ \A k \in DOMAIN headers' : k # h => k \in DOMAIN headers /\ headers'[k] = headers[k]
      /\ records'[h] = record
      /\ \A k \in DOMAIN records' : k # h => k \in DOMAIN records /\ records'[k] = records[k]
  BY ZenonT(60), <1>1, <1>4, WindowMoves
<1>6. tables' = Win(Pure(b), V)
  BY <1>1, <1>3, <1>4, WinPruned DEF Fine
<1>7. \A k \in DOMAIN headers' : Fine(Pure(headers'[k]), ChainTo[headers'[k]], k)
  BY <1>3, <1>5 DEF Match
<1>8. ASSUME NEW k \in DOMAIN headers', k - 1 \in DOMAIN headers'
      PROVE  Undo(Pure(headers'[k]), records'[k], k) = Pure(headers'[k - 1])
  <2>1. k \in Nat /\ k - 1 \in Nat /\ DOMAIN records' = DOMAIN headers'
    BY <1>5, <1>8 DEF Window
  <2>2. CASE k = h
    <3>1. k - 1 # h
      BY <1>2, <2>2
    <3>2. k - 1 \in DOMAIN headers /\ headers'[k - 1] = headers[k - 1]
      BY <1>5, <1>8, <3>1
    <3>3. PICK top \in Nat : NextHeight = top + 1 /\ Latest = headers[top]
      BY <3>2, WindowFacts
    <3>4. k - 1 = top
      BY <1>1, <2>2, <3>3
    <3> QED
      BY <1>1, <1>3, <1>5, <2>2, <3>2, <3>3, <3>4
  <2>3. CASE k # h
    <3>1. k \in DOMAIN headers /\ headers'[k] = headers[k] /\ records'[k] = records[k] /\ k < h
      BY <1>1, <1>5, <1>8, <2>1, <2>3, WindowFacts DEF Window
    <3>2. k - 1 # h
      BY <1>2, <2>1, <3>1
    <3>3. k - 1 \in DOMAIN headers /\ headers'[k - 1] = headers[k - 1]
      BY <1>5, <1>8, <3>2
    <3>4. Returns(k)
      BY <3>1 DEF Match
    <3> QED
      BY <3>1, <3>3, <3>4 DEF Returns
  <2> QED
    BY <2>2, <2>3
<1>9. \A k \in DOMAIN headers' : Returns(k)'
  BY <1>8 DEF Returns
<1> QED
  BY <1>4, <1>5, <1>6, <1>7, <1>9 DEF Match

(***************************************************************************)
(* The updater follows the replay from one lookup to the next.             *)
(***************************************************************************)
LEMMA BeginFollows ==
  ASSUME NEW t0, NEW W, NEW c, NEW b, NEW h, Grows(c, b, h), Fine(t0, c, h - 1), Opens(W, h)
  PROVE  Follows(IndexTxs(Started(Win(t0, W), h), Txs[b], 0), t0, W \cup {h}, b, h)
<1>1. PICK s, r : s = Started(Win(t0, W), h) /\ r = Started(t0, h)
  OBVIOUS
<1>2. s.at = 0 /\ Pair(s, r, t0, W \cup {h}, b, h, 0, 0)
  BY <1>1, StartPair
<1>3. Base(t0, b, h) /\ b \in Block
  BY BaseFine DEF Grows
<1>4. PICK n \in Nat : n = Len(Txs[b])
  BY <1>3, LedgerAssumption
<1>5. Pair(IndexTxs(s, Txs[b], 0), IndexTxs(r, Txs[b], 0), t0, W \cup {h}, b, h, 0, Len(Txs[b]))
  BY <1>2, <1>3, <1>4, IndexTxsPair
<1>6. IndexTxs(r, Txs[b], 0) = Answers(t0, h, b)[0]
  BY <1>1, <1>3, AnswersIterate DEF Iterates
<1> QED
  BY <1>1, <1>4, <1>5, <1>6 DEF Follows

LEMMA ContinueFollows ==
  ASSUME NEW s, NEW t0, NEW W, NEW b \in Block, NEW h, Base(t0, b, h), s.at # 0,
         Follows(s, t0, W, b, h), Names(Txs[b][s.at]) \cap DOMAIN s.t.ids = {}
  PROVE  Follows(Continue(s, Txs[b]), t0, W, b, h)
<1>1. PICK k \in Nat, i \in Nat :
        /\ k <= i /\ k <= Len(Txs[b])
        /\ Pair(s, Answers(t0, h, b)[k], t0, W, b, h, i, Len(Txs[b]))
  BY DEF Follows
<1>2. PICK acc : acc = Answers(t0, h, b) /\ Iterates(acc, t0, h, b)
  BY AnswersIterate
<1>3. PICK r, at, n : r = acc[k] /\ at = s.at /\ n = Len(Txs[b])
  OBVIOUS
<1>4. Pair(s, r, t0, W, b, h, i, n)
  BY <1>1, <1>2, <1>3
<1>5. n \in Nat /\ at \in (i + 1)..n /\ r.at = at
  BY <1>3, <1>4, LedgerAssumption DEF Pair, Twins, Twin
<1>6. Pair(Continue(s, Txs[b]), Continue(r, Txs[b]), t0, W, b, h, at, n)
  BY <1>3, <1>4, ContinuePair
<1>7. k + 1 \in 1..n /\ (k + 1) - 1 = k /\ k + 1 \in Nat /\ k + 1 <= at /\ at \in Nat
  BY <1>1, <1>5
<1>8. acc[k + 1] = Continue(r, Txs[b])
  <2>1. acc[k + 1] = IF r.at = 0 THEN r ELSE Continue(r, Txs[b])
    BY <1>2, <1>3, <1>7 DEF Iterates
  <2> QED
    BY <1>3, <1>5, <2>1
<1> QED
  BY <1>2, <1>3, <1>6, <1>7, <1>8 DEF Follows

LEMMA IndexRuneMatch ==
  ASSUME Window, OneChain, Match, NEW b \in Block, IndexRune(b)
  PROVE  Match'
<1>1. /\ block = NoBlock /\ Parent[b] = Latest
      /\ Reached(b, IndexTxs(Started(tables, NextHeight), Txs[b], 0))
  BY DEF IndexRune
<1>2. PICK t0, W, h, c, s : /\ t0 = Pure(Latest) /\ W = DOMAIN headers /\ h = NextHeight /\ c = Indexed
                            /\ s = IndexTxs(Started(tables, h), Txs[b], 0)
  OBVIOUS
<1>3. tables = Win(t0, W)
  BY <1>1, <1>2 DEF Match
<1>4. Grows(c, b, h) /\ Fine(t0, c, h - 1) /\ Opens(W, h)
  BY <1>1, <1>2, GrowsHere, LatestFine
<1>5. Follows(s, t0, W \cup {h}, b, h)
  BY <1>2, <1>3, <1>4, BeginFollows
<1>6. Suspended(b, s) \/ Done(s, b)
  BY <1>1, <1>2 DEF Reached
<1> QED
  BY <1>1, <1>2, <1>5, <1>6, SuspendedMatch, DoneMatch

LEMMA AnsweredMatch ==
  ASSUME LedgerInv, Match, Answered
  PROVE  Match'
<1>1. block # NoBlock /\ Reached(block, Continue(Joined, Txs[block]))
  BY DEF Answered
<1>2. PICK b \in Block : b = block
  BY <1>1 DEF LedgerInv, Progress
<1>3. PICK p, s, h, t0, W : /\ p = Joined /\ s = Continue(p, Txs[b]) /\ h = NextHeight
                            /\ t0 = Pure(Latest) /\ W = DOMAIN headers \cup {h}
  OBVIOUS
<1>4. /\ Parent[b] = Latest /\ p.at # 0 /\ Window /\ OneChain
      /\ Reach(p, b, h, Len(Txs[b]), records, cutOffs = 0, SameTip)
  BY <1>1, <1>2, <1>3 DEF LedgerInv, Busy
<1>5. Names(Txs[b][p.at]) \cap DOMAIN p.t.ids = {}
  BY <1>4 DEF Reach
<1>6. Base(t0, b, h)
  BY <1>3, <1>4, BaseHere
<1>7. Follows(p, t0, W, b, h)
  BY <1>1, <1>2, <1>3 DEF Match
<1>8. Follows(s, t0, W, b, h)
  BY <1>3, <1>4, <1>5, <1>6, <1>7, ContinueFollows
<1>9. Suspended(b, s) \/ Done(s, b)
  BY <1>1, <1>2, <1>3 DEF Reached
<1> QED
  BY <1>3, <1>4, <1>8, <1>9, SuspendedMatch, DoneMatch

(***************************************************************************)
(* A rollback walks down the replay, height by height.                     *)
(***************************************************************************)
LEMMA UndoneWin ==
  ASSUME Window, OneChain, Match, block = NoBlock, NEW f \in DOMAIN headers, f < Top
  PROVE  Undone(f) = Win(Pure(headers[f]), DOMAIN headers \ ((f + 1)..Top))
<1>1. /\ Top \in Nat /\ Top \in DOMAIN headers /\ Latest = headers[Top]
      /\ \E lo \in DOMAIN headers : FirstHeight <= lo /\ DOMAIN headers = lo..Top
  BY WindowFacts
<1>2. PICK top \in Nat : top = Top /\ top \in DOMAIN headers /\ Latest = headers[top]
  BY <1>1
<1>3. PICK lo \in Nat : DOMAIN headers = lo..top
  BY <1>1, <1>2 DEF Window
<1>4. f \in Nat /\ lo <= f /\ f < top
  BY <1>2, <1>3
<1>5. PICK rs, hs : rs = records /\ hs = headers
  OBVIOUS
<1> HIDE DEF Top, Latest, Undone
<1>6. PICK acc : /\ acc[0] = tables /\ Undone(f) = acc[top - f]
                 /\ \A j \in 1..(top - f) : acc[j] = Undo(acc[j-1], rs[top + 1 - j], top + 1 - j)
  <2>1. RunsBack(f, Top, records)
    BY <1>2, <1>4, UndoneRuns
  <2>2. RunsBack(f, top, rs)
    BY <1>2, <1>5, <2>1
  <2> QED
    BY <2>2 DEF RunsBack
<1> DEFINE P(j) == acc[j] = Win(Pure(hs[top - j]), lo..(top - j))
<1>7. P(0)
  <2>1. top - 0 = top
    BY <1>2
  <2> QED
    BY <1>2, <1>3, <1>5, <1>6, <2>1 DEF Match
<1>8. ASSUME NEW j \in Nat, j + 1 <= top - f, P(j) PROVE P(j + 1)
  <2>1. PICK h \in Nat : h = top - j
    BY <1>4, <1>8
  <2>2. /\ j + 1 \in 1..(top - f) /\ (j + 1) - 1 = j /\ top + 1 - (j + 1) = h
        /\ top - (j + 1) = h - 1 /\ h \in lo..top /\ h - 1 \in lo..top
        /\ (lo..h) \ {h} = lo..(h - 1)
    BY <1>4, <1>8, <2>1
  <2>3. acc[j + 1] = Undo(acc[j], rs[h], h)
    BY <1>6, <2>2
  <2>4. PICK t, u : t = Pure(hs[h]) /\ u = Pure(hs[h - 1])
    OBVIOUS
  <2>5. acc[j] = Win(t, lo..h)
    BY <1>8, <2>1, <2>4
  <2>6. ShapedTables(t) /\ Undo(t, rs[h], h) = u
    <3>1. h \in DOMAIN headers /\ h - 1 \in DOMAIN headers
      BY <1>3, <2>2
    <3>2. Fine(Pure(headers[h]), ChainTo[headers[h]], h) /\ Returns(h)
      BY <3>1 DEF Match
    <3> QED
      BY <1>5, <2>4, <3>1, <3>2 DEF Fine, Returns
  <2>7. Undo(Win(t, lo..h), rs[h], h) = Win(u, (lo..h) \ {h})
    BY <2>6, WinUndo
  <2>8. acc[j + 1] = Win(u, lo..(h - 1))
    BY <2>2, <2>3, <2>5, <2>7
  <2> QED
    BY <2>2, <2>4, <2>8
<1>9. P(top - f)
  <2>1. PICK n \in Nat : n = top - f
    BY <1>4
  <2> DEFINE T == {j \in Nat : j <= n /\ ~ P(j)}
  <2> HIDE DEF P
  <2> SUFFICES ASSUME T # {} PROVE FALSE
    BY <2>1
  <2>2. T \subseteq Nat
    OBVIOUS
  <2>3. PICK x \in T : \A y \in T : ~ (y < x)
    <3> HIDE DEF T
    <3> QED
      BY <2>2, TxFold!LeastNatural
  <2>4. x \in Nat /\ x <= n /\ ~ P(x) /\ x # 0
    BY <1>7, <2>3
  <2>5. x - 1 \in Nat /\ x - 1 <= n /\ (x - 1) + 1 = x /\ x - 1 < x
    BY <2>1, <2>4
  <2>6. P(x - 1)
    BY <2>3, <2>5
  <2>7. P((x - 1) + 1)
    BY <1>8, <2>1, <2>4, <2>5, <2>6
  <2> QED
    BY <2>4, <2>5, <2>7
<1>10. top - (top - f) = f
  BY <1>4
<1>11. (lo..top) \ ((f + 1)..top) = lo..f
  BY <1>4
<1> QED
  BY <1>2, <1>3, <1>5, <1>6, <1>9, <1>10, <1>11

LEMMA HandleReorgMatch ==
  ASSUME Window, OneChain, Match, NEW f \in DOMAIN headers, HandleReorg(f)
  PROVE  Match'
<1>1. /\ block = NoBlock /\ f < Top
      /\ tables' = Undone(f)
      /\ records' = Except(records, (f + 1)..Top)
      /\ headers' = Except(headers, (f + 1)..Top)
      /\ block' = NoBlock
  BY DEF HandleReorg, MovesBack
<1>2. /\ Top \in Nat
      /\ \E lo \in DOMAIN headers : FirstHeight <= lo /\ DOMAIN headers = lo..Top
  BY WindowFacts
<1>3. PICK top \in Nat : top = Top
  BY <1>2
<1>4. PICK lo \in Nat : DOMAIN headers = lo..top
  BY <1>2, <1>3 DEF Window
<1>5. f \in Nat /\ lo <= f /\ f < top /\ DOMAIN records = lo..top
  BY <1>1, <1>3, <1>4 DEF Window
<1>6. tables' = Win(Pure(headers[f]), DOMAIN headers \ ((f + 1)..top))
  BY <1>1, <1>3, UndoneWin
<1> HIDE DEF Top
<1>7. (lo..top) \ ((f + 1)..top) = lo..f
  BY <1>5
<1>8. /\ DOMAIN headers' = lo..f /\ DOMAIN records' = lo..f
      /\ \A k \in lo..f : headers'[k] = headers[k] /\ records'[k] = records[k]
  BY <1>1, <1>3, <1>4, <1>5, <1>7 DEF Except
<1>9. Top' = f /\ headers' # EmptyMap
  <2>1. DOMAIN EmptyMap = {}
    BY DEF EmptyMap
  <2>2. f \in DOMAIN headers'
    BY <1>5, <1>8
  <2>3. Top' = f
    BY <1>5, <1>8, MaxOfInterval DEF Top
  <2> QED
    BY <2>1, <2>2, <2>3
<1>10. Latest' = headers[f]
  <2>1. Latest' = headers'[Top']
    BY <1>9 DEF Latest
  <2> QED
    BY <1>5, <1>8, <1>9, <2>1
<1>11. tables' = Win(Pure(Latest)', DOMAIN headers')
  BY <1>4, <1>6, <1>7, <1>8, <1>10
<1>12. ASSUME NEW k \in DOMAIN headers'
       PROVE  Fine(Pure(headers'[k]), ChainTo[headers'[k]], k) /\ Returns(k)'
  <2>1. k \in lo..f /\ k \in DOMAIN headers /\ headers'[k] = headers[k] /\ records'[k] = records[k]
    BY <1>4, <1>5, <1>8
  <2>2. Fine(Pure(headers[k]), ChainTo[headers[k]], k) /\ Returns(k)
    BY <2>1 DEF Match
  <2>3. k - 1 \in DOMAIN headers' => k - 1 \in DOMAIN headers /\ headers'[k - 1] = headers[k - 1]
    BY <1>4, <1>5, <1>8
  <2> QED
    BY <2>1, <2>2, <2>3 DEF Returns
<1> QED
  BY <1>1, <1>11, <1>12 DEF Match

-----------------------------------------------------------------------------
LEMMA MatchInit ==
  ASSUME Init
  PROVE  Match
<1>1. /\ headers = EmptyMap /\ tables = NoTables /\ block = NoBlock /\ DOMAIN headers = {}
  BY DEF Init, EmptyMap
<1>2. Latest = NoBlock /\ Pure(Latest) = NoTables
  BY <1>1 DEF Latest, Pure
<1>3. PICK u : u = Win(NoTables, {})
  OBVIOUS
<1>4. ShapedTables(NoTables) /\ Maps7(NoTables)
  BY NoTablesFine DEF Fine
<1>5. /\ ShapedTables(u) /\ IsMap(u)
      /\ u.balances = NoTables.balances /\ u.heights = NoTables.heights
      /\ u.entries = NoTables.entries /\ u.ids = NoTables.ids /\ u.etchings = NoTables.etchings
      /\ u.runes = InWindow(NoTables.runes, {}) /\ u.reserved = InWindow(NoTables.reserved, {})
  BY <1>3, <1>4, WinIs
<1>6. NoTables.runes = EmptyMap /\ NoTables.reserved = EmptyMap
  BY DEF NoTables
<1>7. InWindow(EmptyMap, {}) = EmptyMap
  BY DEF InWindow, EmptyMap
<1>8. TFields(u) /\ TFields(NoTables)
  BY <1>4, <1>5 DEF ShapedTables, TableFields, TFields
<1>9. u = NoTables
  BY <1>4, <1>5, <1>6, <1>7, <1>8, SameAll DEF Maps7
<1> QED
  BY <1>1, <1>2, <1>3, <1>9 DEF Match

LEMMA MatchNext ==
  ASSUME LedgerInv, Match, [Next]_vars, cutOffs = 0, cutOffs' = 0
  PROVE  Match'
<1>1. Window /\ OneChain
  BY DEF LedgerInv
<1>2. ASSUME NEW b \in Block, IndexRune(b) PROVE Match'
  BY <1>1, <1>2, IndexRuneMatch
<1>3. ASSUME Answered PROVE Match'
  BY <1>3, AnsweredMatch
<1>4. ASSUME CutOff PROVE Match'
  BY <1>4 DEF CutOff
<1>5. ASSUME NEW f \in DOMAIN headers, HandleReorg(f) PROVE Match'
  BY <1>1, <1>5, HandleReorgMatch
<1>6. ASSUME UNCHANGED vars PROVE Match'
  BY <1>6 DEF vars, Match, Returns, Joined, NextHeight, Latest, Top
<1> QED
  BY <1>2, <1>3, <1>4, <1>5, <1>6 DEF Next

(* No step takes a cut-off back.                                           *)
LEMMA CutOffsStay ==
  ASSUME cutOffs \in Nat, [Next]_vars
  PROVE  cutOffs' \in Nat /\ (cutOffs' = 0 => cutOffs = 0)
<1>1. UNCHANGED cutOffs \/ cutOffs' = cutOffs + 1
  BY DEF Next, IndexRune, Answered, CutOff, HandleReorg, MovesBack, Reached, Suspended, Done, vars
<1> QED
  BY <1>1

LEMMA ReplayInit ==
  ASSUME Init
  PROVE  ReplayInv
<1>1. cutOffs = 0
  BY DEF Init
<1> QED
  BY <1>1, LedgerInit, MatchInit DEF ReplayInv

LEMMA ReplayNext ==
  ASSUME ReplayInv, [Next]_vars
  PROVE  ReplayInv'
<1>1. cutOffs' \in Nat /\ (cutOffs' = 0 => cutOffs = 0)
  BY CutOffsStay DEF ReplayInv
<1>2. ASSUME cutOffs' = 0 PROVE LedgerInv' /\ Match'
  <2>1. cutOffs = 0 /\ LedgerInv /\ Match
    BY <1>1, <1>2 DEF ReplayInv
  <2> QED
    BY <1>2, <2>1, LedgerNext, MatchNext
<1> QED
  BY <1>1, <1>2 DEF ReplayInv

(***************************************************************************)
(* The invariant needs no assumption on the bounds: from the first cut-off *)
(* on it says nothing, and before it rollbacks may be of any depth that    *)
(* handle_reorg recovers.                                                  *)
(***************************************************************************)
THEOREM ReplayCorrect == Spec => []ReplayInv
<1>1. Init => ReplayInv
  BY ReplayInit
<1>2. ReplayInv /\ [Next]_vars => ReplayInv'
  BY ReplayNext
<1> QED
  BY <1>1, <1>2, PTL DEF Spec

(***************************************************************************)
(* After every cycle the rune tables are those of the indexed chain, as if *)
(* it had been indexed in one go and nothing rolled back: handle_reorg     *)
(* undoes exactly what index_rune and RuneUpdater::update did, whatever    *)
(* was minted, burned, moved or etched in the abandoned blocks.            *)
(***************************************************************************)
THEOREM TablesCorrect == Spec => []TablesMatchChain
<1>1. ReplayInv => TablesMatchChain
  <2> SUFFICES ASSUME ReplayInv, block = NoBlock, cutOffs = 0
               PROVE  tables = Expected(Indexed, DOMAIN headers)
    BY DEF TablesMatchChain, Clean
  <2>1. tables = Win(Pure(Latest), DOMAIN headers)
    BY DEF ReplayInv, Match
  <2>2. Pure(Latest) = Replayed(Indexed)
    BY NoReplay DEF Pure, Indexed
  <2>3. Expected(Indexed, DOMAIN headers) = Win(Replayed(Indexed), DOMAIN headers)
    BY DEF Expected, Win
  <2> QED
    BY <2>1, <2>2, <2>3
<1> QED
  BY <1>1, ReplayCorrect, PTL

(***************************************************************************)
(* After every cycle runes are held by outputs of the indexed chain that   *)
(* it does not spend, each with the height of its block: what the queries  *)
(* that count confirmations of a balance rely on.                          *)
(***************************************************************************)
THEOREM UnspentCorrect == Spec => []BalancesAreUnspent
<1>1. ReplayInv => BalancesAreUnspent
  <2> SUFFICES ASSUME ReplayInv, block = NoBlock, cutOffs = 0
               PROVE  /\ DOMAIN tables.balances = DOMAIN tables.heights
                      /\ DOMAIN tables.balances \cap Spent(Indexed) = {}
                      /\ \A o \in DOMAIN tables.heights :
                           LET i == tables.heights[o] - FirstHeight + 1 IN
                           i \in DOMAIN Indexed /\ o[1] \in ToSet(Txs[Indexed[i]])
    BY DEF BalancesAreUnspent, Clean
  <2>1. LedgerInv /\ Match
    BY DEF ReplayInv
  <2>2. PICK t, c : t = Pure(Latest) /\ c = Indexed
    OBVIOUS
  <2>3. tables = Win(t, DOMAIN headers)
    BY <2>1, <2>2 DEF Match
  <2>4. Fine(t, c, NextHeight - 1)
    BY <2>1, <2>2, LatestFine DEF LedgerInv
  <2>5. /\ tables.balances = t.balances /\ tables.heights = t.heights
    BY <2>3, <2>4, WinIs DEF Fine
  <2>6. c \in Seq(Block)
    <3>1. Latest \in Block \cup {NoBlock}
      BY <2>1, WindowFacts DEF LedgerInv, OneChain
    <3> QED
      BY <2>2, <3>1, ChainEnds DEF Indexed
  <2>7. DOMAIN c = 1..Len(c) /\ Len(c) \in Nat
    BY <2>6
  <2>8. DOMAIN t.balances \cap Spent(c) = {}
    <3> SUFFICES ASSUME NEW o \in DOMAIN t.balances, o \in Spent(c) PROVE FALSE
      OBVIOUS
    <3>1. PICK i \in DOMAIN c : \E j \in DOMAIN Txs[c[i]] : o \in Inputs[Txs[c[i]][j]]
      BY DEF Spent
    <3>2. Clear(DOMAIN t.balances, c)
      BY <2>4 DEF Fine
    <3> QED
      BY <2>7, <3>1, <3>2 DEF Clear
  <2>9. ASSUME NEW o \in DOMAIN t.heights
        PROVE  /\ t.heights[o] - FirstHeight + 1 \in DOMAIN c
               /\ o[1] \in ToSet(Txs[c[t.heights[o] - FirstHeight + 1]])
    <3>1. PICK i \in 1..Len(c) :
            t.heights[o] = FirstHeight + i - 1 /\ \E k \in DOMAIN Txs[c[i]] : o[1] = Txs[c[i]][k]
      BY <2>4 DEF Fine, Created
    <3>2. t.heights[o] - FirstHeight + 1 = i
      BY <2>7, <3>1, LedgerAssumption
    <3> QED
      BY <2>7, <3>1, <3>2 DEF ToSet
  <2>10. DOMAIN t.balances = DOMAIN t.heights
    BY <2>4 DEF Fine
  <2> QED
    BY <2>2, <2>5, <2>8, <2>9, <2>10
<1> QED
  BY <1>1, ReplayCorrect, PTL
=============================================================================
