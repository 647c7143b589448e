------------------------ MODULE IndexerLedgerProofs ------------------------
(***************************************************************************)
(* The tables that blocks write, against the chain the headers are on: the *)
(* rune ledger and the UTXO table of Indexer.tla, for one index thread and *)
(* every block tree, window and set of fallible calls.                     *)
(***************************************************************************)
EXTENDS IndexerChainProofs, SequenceTheorems

(* Chain c has block b at height h.                                        *)
HasAt(c, h, b) == h + 1 <= Len(c) /\ c[h + 1] = b

Placed(h, b) == \E c \in Chain : HasAt(c, h, b)

(***************************************************************************)
(* What the node answers with is on one of its chains at that height, and  *)
(* so is every block a thread works on and every header.                   *)
(***************************************************************************)
HeadersPlaced == \A h \in DOMAIN headers : Placed(h, headers[h])

BlocksPlaced ==
  \A l \in Loop : loop[l].pc \in {"block", "detect", "utxo", "rune"} =>
                    Placed(loop[l].height, loop[l].block)

LEMMA ChainType ==
  ASSUME NEW c \in Chain
  PROVE  /\ c \in Seq(Block) /\ Len(c) \in Nat
         /\ \A i \in 1..Len(c) : c[i] \in Block
         /\ \A i \in 2..Len(c) : Parent[c[i]] = c[i - 1]
BY ChainAssumption

(***************************************************************************)
(* Two chains with the same block at a height are the same up to it.       *)
(***************************************************************************)
LEMMA SameBelow ==
  ASSUME NEW c \in Chain, NEW d \in Chain, NEW n \in Nat,
         n <= Len(c), n <= Len(d), n > 0, c[n] = d[n]
  PROVE  \A i \in 1..n : c[i] = d[i]
<1> DEFINE T == {i \in 1..n : c[i] # d[i]}
<1> SUFFICES ASSUME T # {} PROVE FALSE
  OBVIOUS
<1>1. PICK i \in T : \A k \in T : k <= i
  <2>1. T \subseteq Nat /\ \A h \in T : h <= n
    OBVIOUS
  <2> HIDE DEF T
  <2> QED
    BY <2>1, LargestNatural
<1>2. i \in 1..n /\ i # n
  BY <1>1
<1>3. i + 1 \in 2..n /\ i + 1 \notin T
  BY <1>1, <1>2
<1>4. c[i + 1] = d[i + 1] /\ (i + 1) - 1 = i
  BY <1>2, <1>3
<1>5. i + 1 \in 2..Len(c) /\ i + 1 \in 2..Len(d)
  BY <1>3, ChainType
<1>6. c[i] = d[i]
  BY <1>4, <1>5, ChainType
<1> QED
  BY <1>1, <1>6

(***************************************************************************)
(* A chain that has the latest header has all of them.                     *)
(***************************************************************************)
LEMMA HeadersAlong ==
  ASSUME ChainInv, ~ NoHeaders, NEW c \in Chain, HasAt(c, Top(headers), headers[Top(headers)])
  PROVE  \A h \in DOMAIN headers : HasAt(c, h, headers[h])
<1> DEFINE t == Top(headers)
           T == {h \in DOMAIN headers : ~ HasAt(c, h, headers[h])}
<1>1. /\ t \in DOMAIN headers /\ t \in Nat /\ DOMAIN headers \subseteq Nat
      /\ \A k \in DOMAIN headers : k <= t
  BY TopFacts DEF ChainInv, TypeOK, TablesOK
<1> SUFFICES ASSUME T # {} PROVE FALSE
  OBVIOUS
<1> HIDE DEF t
<1>2. PICK h \in T : \A k \in T : k <= h
  <2>1. T \subseteq Nat /\ \A h \in T : h <= t
    BY <1>1
  <2> HIDE DEF T
  <2> QED
    BY <1>1, <2>1, LargestNatural
<1>3. h \in DOMAIN headers /\ h \in Nat /\ h # t /\ h + 1 \in h..t
  BY <1>1, <1>2 DEF t
<1>4. h + 1 \in DOMAIN headers
  BY <1>1, <1>3 DEF ChainInv, HeadersLinked, Consecutive
<1>5. HasAt(c, h + 1, headers[h + 1])
  BY <1>2, <1>3, <1>4
<1>6. Parent[headers[h + 1]] = headers[h]
  BY <1>3, <1>4 DEF ChainInv, HeadersLinked, Linked
<1>7. HasAt(c, h, headers[h])
  BY <1>3, <1>5, <1>6, ChainType DEF HasAt
<1> QED
  BY <1>2, <1>7

-----------------------------------------------------------------------------
(* Blocks and headers stay where the node had them.                        *)

LEMMA NodeAnswerPlaced ==
  ASSUME ChainTypeOK, NEW h \in Nat, NodeBlockHash(h) # NoBlock
  PROVE  Placed(h, NodeBlockHash(h))
BY DEF ChainTypeOK, NodeBlockHash, Placed, HasAt

(***************************************************************************)
(* The only thread is past its cycle, or goes on with the same block.      *)
(***************************************************************************)
LEMMA SameBlockPlaced ==
  ASSUME SingleThread, BlocksPlaced, LoopsOK, NEW l \in Loop,
         \/ loop'[l].pc \in {"timer", "hash", "notify"} \cup Ended
         \/ /\ loop[l].pc \in {"block", "detect", "utxo", "rune"}
            /\ loop'[l].height = loop[l].height /\ loop'[l].block = loop[l].block
  PROVE  BlocksPlaced'
<1>1. \A m \in Loop : m = l
  BY DEF SingleThread
<1> QED
  BY <1>1 DEF BlocksPlaced, Placed, Ended

(***************************************************************************)
(* Where a step leaves the thread that takes it.                           *)
(***************************************************************************)
LEMMA StepMoves ==
  ASSUME LoopsOK, NEW l \in Loop, Step(l)
  PROVE  \/ loop'[l].pc \in {"timer", "hash", "notify"} \cup Ended
         \/ /\ HashFound(l) /\ loop'[l].height = loop[l].height
            /\ loop'[l].block = NodeBlockHash(loop[l].height)
         \/ /\ loop[l].pc \in {"block", "detect", "utxo", "rune"}
            /\ loop'[l].height = loop[l].height /\ loop'[l].block = loop[l].block
<1> USE DEF stable
<1>0. loop \in [Loop -> LoopState] /\ loop[l] \in LoopState
  BY DEF LoopsOK
<1> DEFINE Over == loop'[l].pc \in {"timer", "hash", "notify"} \cup Ended
           Same == loop'[l].height = loop[l].height /\ loop'[l].block = loop[l].block
<1>1. ASSUME Rearm(l) \/ Return(l) \/ Panic(l)
      PROVE  Over
  BY <1>0, <1>1 DEF Rearm, Rearmed, Return, Panic, Idle, Ended
<1>2. ASSUME NEW b \in Block, BlockIndexed(l, b)
      PROVE  Over
  <2>1. CASE loop[l].subs = <<>>
    BY <1>1, <1>2, <2>1 DEF BlockIndexed, Rearm
  <2>2. CASE loop[l].subs # <<>>
    BY <1>0, <1>2, <2>2 DEF BlockIndexed, LoopState
  <2> QED
    BY <2>1, <2>2
<1>3. ASSUME NEW depth \in Nat, Probe(l, loop[l].block, depth)
      PROVE  Over \/ Same
  <2>1. CASE Return(l) \/ Panic(l)
    BY <1>1, <2>1
  <2>2. CASE ~ Return(l) /\ ~ Panic(l)
    BY <1>0, <1>3, <2>2 DEF Probe, LoopState
  <2> QED
    BY <2>1, <2>2
<1>4. CASE Fire(l)
  BY <1>0, <1>4 DEF Fire, LoopState
<1>5. CASE HashFound(l)
  BY <1>0, <1>5 DEF HashFound, LoopState
<1>6. CASE HashMissing(l) \/ BlockFails(l) \/ InputsFail(l) \/ ForkFound(l) \/ ForkFails(l)
           \/ CommitmentFails(l) \/ CommitmentPanics(l)
  BY <1>1, <1>6 DEF HashMissing, BlockFails, InputsFail, ForkFound, HandleReorg, ForkFails,
                    CommitmentFails, CommitmentPanics
<1>7. CASE BlockForks(l)
  BY <1>3, <1>7 DEF BlockForks
<1>8. CASE ForkDeeper(l)
  <2>1. loop[l].depth + 1 \in Nat
    BY <1>0 DEF LoopState
  <2> QED
    BY <1>3, <1>8, <2>1 DEF ForkDeeper
<1>9. CASE BlockFits(l) \/ InputsFetched(l) \/ CommitmentChecked(l)
  <2>1. loop[l].pc \in {"block", "utxo", "rune"} /\ loop[l].block \in Block
    BY <1>9 DEF BlockFits, InputsFetched, CommitmentChecked, LoopsOK, Await
  <2>2. \/ BlockIndexed(l, loop[l].block) \/ Panic(l)
        \/ \E pc \in {"utxo", "rune"} :
             loop' = [loop EXCEPT ![l].pc = pc, ![l].block = loop[l].block]
    BY <1>9 DEF BlockFits, InputsFetched, CommitmentChecked, IndexBlock, IndexRuneBlock
  <2>3. CASE BlockIndexed(l, loop[l].block) \/ Panic(l)
    BY <1>1, <1>2, <2>1, <2>3
  <2>4. ASSUME NEW pc \in {"utxo", "rune"},
               loop' = [loop EXCEPT ![l].pc = pc, ![l].block = loop[l].block]
        PROVE  Same
    BY <1>0, <2>4 DEF LoopState
  <2> QED
    BY <2>1, <2>2, <2>3, <2>4
<1>10. CASE Notified(l)
  <2>1. CASE Rearm(l)
    BY <1>1, <2>1
  <2>2. CASE loop' = [loop EXCEPT ![l].next = @ + 1]
    BY <1>0, <1>10, <2>2 DEF Notified, LoopState
  <2> QED
    BY <1>10, <2>1, <2>2 DEF Notified
<1> QED
  BY <1>4, <1>5, <1>6, <1>7, <1>8, <1>9, <1>10 DEF Step

LEMMA BlocksPlacedStep ==
  ASSUME SingleThread, ChainInv, BlocksPlaced, [Next]_vars
  PROVE  BlocksPlaced'
<1>0. LoopsOK /\ ChainTypeOK
  BY DEF ChainInv, TypeOK
<1>1. CASE UNCHANGED vars \/ NodeStep \/ Stop
  BY <1>1 DEF vars, NodeStep, Stop, BlocksPlaced, Placed
<1>2. CASE Upgrade
  BY <1>2 DEF Upgrade, Idle, BlocksPlaced
<1>3. ASSUME NEW l \in Loop, Start(l)
      PROVE  BlocksPlaced'
  <2>1. loop'[l].pc = "timer"
    BY <1>0, <1>3 DEF Start, Idle, LoopsOK
  <2> QED
    BY <1>0, <2>1, SameBlockPlaced
<1>4. ASSUME NEW l \in Loop, Step(l)
      PROVE  BlocksPlaced'
  <2>1. CASE /\ HashFound(l) /\ loop'[l].height = loop[l].height
             /\ loop'[l].block = NodeBlockHash(loop[l].height)
    <3>1. loop[l].height \in Nat
      BY <1>0 DEF LoopsOK, LoopState
    <3>2. Placed(loop'[l].height, loop'[l].block)
      BY <1>0, <2>1, <3>1, NodeAnswerPlaced DEF HashFound
    <3>3. \A m \in Loop : m = l
      BY DEF SingleThread
    <3> QED
      BY <3>2, <3>3 DEF BlocksPlaced, Placed
  <2> QED
    BY <1>0, <1>4, <2>1, StepMoves, SameBlockPlaced
<1> QED
  BY <1>1, <1>2, <1>3, <1>4 DEF Next

LEMMA FitsPlaced ==
  ASSUME BlocksPlaced, NEW l \in Loop, NEW b \in Block, Fits(l, b)
  PROVE  Placed(NextHeight, b)
BY DEF BlocksPlaced, Fits

(***************************************************************************)
(* handle_reorg leaves the headers up to a height and undoes one record    *)
(* for each height above it.                                               *)
(***************************************************************************)
LEMMA RollbackShape ==
  ASSUME ChainInv, RecordsMatchHeaders, NEW l \in Loop, ForkFound(l), HandleReorg(l)
  PROVE  \E m \in DOMAIN headers :
           /\ headers' = [k \in {j \in DOMAIN headers : j <= m} |-> headers[k]]
           /\ Cardinality(DOMAIN records \cap RolledBack(l)) = Top(headers) - m
           /\ m = Top(headers) \/ (IndexRunes /\ m + 1 >= FirstRuneHeight)
<1> DEFINE t == Top(headers)
           low == loop[l].height - loop[l].depth + 1
           first == IF low < FirstRuneHeight THEN FirstRuneHeight ELSE low
<1>1. /\ ~ NoHeaders /\ loop[l].height = t + 1 /\ loop[l].depth \in 1..(MaxDepth - 1)
      /\ low - 1 \in DOMAIN headers
  BY RolledBackTop, IndexerAssumption DEF ChainInv, TypeOK, TablesOK, LoopsOK, LoopState
<1>2. /\ t \in DOMAIN headers /\ t \in Nat
      /\ \A k \in DOMAIN headers : k <= t /\ k \in Nat
      /\ FirstRuneHeight \in Nat /\ MaxDepth \in Nat /\ low \in Int
  BY <1>1, TopFacts, IndexerAssumption DEF ChainInv, TypeOK, TablesOK
<1>3. headers' = [k \in DOMAIN headers \ RolledBack(l) |-> headers[k]]
  BY DEF HandleReorg, Without
<1>4. RolledBack(l) = IF IndexRunes THEN first..t ELSE {}
  BY <1>1, <1>2 DEF RolledBack, IndexesRunes
<1>5. DOMAIN records = {k \in DOMAIN headers : IndexesRunes(k)}
  BY DEF RecordsMatchHeaders
<1>6. CASE ~ IndexRunes \/ first > t
  <2>1. DOMAIN records \cap RolledBack(l) = {}
    BY <1>2, <1>4, <1>5, <1>6
  <2>2. DOMAIN headers \ RolledBack(l) = {j \in DOMAIN headers : j <= t}
    BY <1>2, <1>4, <1>6
  <2>3. Cardinality(DOMAIN records \cap RolledBack(l)) = t - t
    <3>1. Cardinality(DOMAIN records \cap RolledBack(l)) = 0
      BY <2>1, FS_EmptySet, Zenon
    <3> QED
      BY <1>2, <3>1
  <2> HIDE DEF first, low, t
  <2> QED
    BY <1>2, <1>3, <2>2, <2>3 DEF t
<1>7. CASE IndexRunes /\ first <= t
  <2> DEFINE m == first - 1
  <2>1. m \in DOMAIN headers /\ m \in Nat /\ m < t
    BY <1>1, <1>2, <1>7 DEF ChainInv, HeadersLinked, Consecutive
  <2>2. DOMAIN headers \ RolledBack(l) = {j \in DOMAIN headers : j <= m}
    BY <1>2, <1>4, <1>7
  <2>3. m + 1 >= FirstRuneHeight /\ first \in Int /\ m + 1 = first
    BY <1>2
  <2> HIDE DEF first, low, t
  <2>4. first..t \subseteq DOMAIN headers
    <3> SUFFICES ASSUME NEW j \in first..t PROVE j \in DOMAIN headers
      OBVIOUS
    <3>1. j \in m..t
      BY <1>2, <2>1, <2>3
    <3> QED
      BY <1>2, <2>1, <3>1 DEF ChainInv, HeadersLinked, Consecutive
  <2>5. DOMAIN records \cap RolledBack(l) = first..t
    BY <1>2, <1>4, <1>5, <1>7, <2>3, <2>4 DEF IndexesRunes
  <2>6. Cardinality(DOMAIN records \cap RolledBack(l)) = Cardinality(first..t)
    BY <2>5, Zenon
  <2>7. Cardinality(DOMAIN records \cap RolledBack(l)) = t - m
    BY <1>2, <1>7, <2>3, <2>6, FS_Interval
  <2> QED
    BY <1>3, <1>7, <2>1, <2>2, <2>3, <2>7 DEF t
<1>8. first > t \/ first <= t
  BY <1>2
<1> QED
  BY <1>6, <1>7, <1>8

(***************************************************************************)
(* Which height is the latest after the header table changed.              *)
(***************************************************************************)
LEMMA FitsTop ==
  ASSUME ChainInv, ChainInv', NEW l \in Loop, NEW b \in Block, Fits(l, b)
  PROVE  /\ DOMAIN headers' # {}
         /\ Top(headers)' = NextHeight
         /\ headers'[NextHeight] = b
         /\ \A k \in DOMAIN headers' \ {NextHeight} :
              k \in DOMAIN headers /\ headers'[k] = headers[k]
<1>1. /\ headers' = Put(Pruned(headers, NextHeight), NextHeight, b) /\ NextHeight \in Nat
      /\ \A k \in DOMAIN headers : k < NextHeight /\ k \in Nat
  BY FitsHeaders
<1> DEFINE n == NextHeight
<1> HIDE DEF n
<1>2. /\ n \in DOMAIN headers' /\ headers'[n] = b
      /\ \A k \in DOMAIN headers' \ {n} : k \in DOMAIN headers /\ headers'[k] = headers[k]
  BY <1>1 DEF Put, Pruned, n
<1>3. \A k \in DOMAIN headers' : k <= n /\ k \in Nat
  BY <1>1, <1>2 DEF n
<1>4. Top(headers') = n
  BY <1>2, <1>3, <1>1 DEF Top, n
<1> QED
  BY <1>2, <1>4 DEF n, Top

LEMMA RollbackTop ==
  ASSUME ChainInv, NEW m \in DOMAIN headers,
         headers' = [k \in {j \in DOMAIN headers : j <= m} |-> headers[k]]
  PROVE  /\ DOMAIN headers' # {} /\ Top(headers)' = m
         /\ \A k \in DOMAIN headers' : k \in DOMAIN headers /\ headers'[k] = headers[k]
<1>1. DOMAIN headers \subseteq Nat
  BY DEF ChainInv, TypeOK, TablesOK
<1>2. m \in DOMAIN headers' /\ \A k \in DOMAIN headers' : k <= m /\ k \in Nat
  BY <1>1
<1>3. Top(headers') = m
  BY <1>1, <1>2 DEF Top
<1> QED
  BY <1>1, <1>2, <1>3 DEF Top

(***************************************************************************)
(* The parts of a chain that the ledger holds.                             *)
(***************************************************************************)
LEMMA PartGrows ==
  ASSUME NEW c \in Chain, NEW m \in Nat, NEW n \in Nat, 1 <= m, m <= n, n <= Len(c)
  PROVE  SubSeq(c, m, n) = Append(SubSeq(c, m, n - 1), c[n])
<1>1. c \in Seq(Block) /\ Len(c) \in Nat /\ m \in 1..Len(c) /\ n \in m..Len(c)
  BY ChainType
<1>2. SubSeq(c, m, n) = SubSeq(c, m, n - 1) \o <<c[n]>>
  BY <1>1, SubSeqRecursiveSecond
<1>3. SubSeq(c, m, n - 1) \in Seq(Block) /\ c[n] \in Block
  BY <1>1, ChainType, SubSeqProperties
<1> QED
  BY <1>2, <1>3, AppendIsConcat

LEMMA PartShrinks ==
  ASSUME NEW c \in Chain, NEW m \in Nat, NEW n \in Nat, NEW k \in Nat,
         1 <= m, m <= n + 1, n <= Len(c), m <= k + 1, k <= n
  PROVE  /\ Len(SubSeq(c, m, n)) = n - m + 1
         /\ SubSeq(SubSeq(c, m, n), 1, k - m + 1) = SubSeq(c, m, k)
<1> DEFINE s == SubSeq(c, m, n)
           r == SubSeq(s, 1, k - m + 1)
           q == SubSeq(c, m, k)
<1>1. c \in Seq(Block) /\ \A i \in m..n : c[i] \in Block
  BY ChainType
<1>2. /\ s \in Seq(Block) /\ Len(s) = n - m + 1
      /\ \A i \in 1..(n - m + 1) : s[i] = c[m + i - 1]
  BY <1>1, SubSeqProperties
<1>3. /\ q \in Seq(Block) /\ Len(q) = k - m + 1
      /\ \A i \in 1..(k - m + 1) : q[i] = c[m + i - 1]
  BY <1>1, SubSeqProperties
<1> HIDE DEF s, q
<1>4. \A i \in 1..(k - m + 1) : s[i] \in Block
  BY <1>2, LenProperties
<1>5. /\ r \in Seq(Block) /\ Len(r) = k - m + 1
      /\ \A i \in 1..(k - m + 1) : r[i] = s[i]
  BY <1>4, SubSeqProperties
<1> HIDE DEF r
<1>6. \A i \in 1..(k - m + 1) : i \in 1..(n - m + 1)
  OBVIOUS
<1>7. \A i \in 1..Len(r) : r[i] = q[i]
  BY <1>2, <1>3, <1>5, <1>6
<1>8. r = q
  BY <1>3, <1>5, <1>7, SeqEqual
<1> QED
  BY <1>2, <1>8 DEF s, r, q

LEMMA PartSame ==
  ASSUME NEW c \in Chain, NEW d \in Chain, NEW m \in Nat, NEW n \in Nat,
         1 <= m, n <= Len(c), n <= Len(d), n > 0, c[n] = d[n]
  PROVE  SubSeq(c, m, n) = SubSeq(d, m, n)
<1>1. \A i \in 1..n : c[i] = d[i] /\ c[i] \in Block
  BY SameBelow, ChainType
<1>2. CASE n < m
  BY <1>2, SubSeqEmpty
<1>3. CASE m <= n
  <2> DEFINE s == SubSeq(c, m, n)
             r == SubSeq(d, m, n)
  <2>1. \A i \in m..n : c[i] \in Block /\ d[i] \in Block
    BY <1>1
  <2>2. /\ s \in Seq(Block) /\ Len(s) = n - m + 1
        /\ \A i \in 1..(n - m + 1) : s[i] = c[m + i - 1]
    BY <1>3, <2>1, SubSeqProperties
  <2>3. /\ r \in Seq(Block) /\ Len(r) = n - m + 1
        /\ \A i \in 1..(n - m + 1) : r[i] = d[m + i - 1]
    BY <1>3, <2>1, SubSeqProperties
  <2> HIDE DEF s, r
  <2>4. \A i \in 1..(n - m + 1) : m + i - 1 \in 1..n
    BY <1>3
  <2>5. \A i \in 1..Len(s) : s[i] = r[i]
    BY <1>1, <2>2, <2>3, <2>4
  <2>6. s = r
    BY <2>2, <2>3, <2>5, SeqEqual
  <2> QED
    BY <2>6 DEF s, r
<1> QED
  BY <1>2, <1>3

-----------------------------------------------------------------------------
(* The rune ledger.                                                        *)

(***************************************************************************)
(* RuneLedgerMatchesChain for every chain that ends in the latest header,  *)
(* instead of a chosen one.                                                *)
(***************************************************************************)
LedgerFollows ==
  IndexRunes /\ intact =>
    IF NoHeaders THEN runeLog = <<>>
    ELSE \A c \in Chain : HasAt(c, Top(headers), headers[Top(headers)]) =>
           runeLog = SubSeq(c, FirstRuneHeight + 1, Top(headers) + 1)

(***************************************************************************)
(* No step makes the tables whole again.                                   *)
(***************************************************************************)
LEMMA IntactFalls ==
  ASSUME [Next]_vars, intact'
  PROVE  intact
<1>1. ASSUME NEW l \in Loop, Step(l)
      PROVE  intact
  BY <1>1 DEF Step, Fire, HashFound, HashMissing, BlockFits, BlockForks, BlockFails, InputsFail,
       ForkFound, ForkDeeper, ForkFails, InputsFetched, CommitmentChecked, CommitmentFails,
       CommitmentPanics, Notified, IndexBlock, IndexRuneBlock, stable
<1> QED
  BY <1>1 DEF Next, NodeStep, Start, Stop, Upgrade, vars, stable

LEMMA LedgerStep ==
  ASSUME ChainInv, ChainInv', RecordsMatchHeaders, HeadersPlaced, BlocksPlaced,
         LedgerFollows, [Next]_vars
  PROVE  LedgerFollows'
<1> SUFFICES ASSUME IndexRunes, intact' PROVE LedgerFollows'
  BY DEF LedgerFollows
<1>0. intact /\ FirstRuneHeight \in Nat /\ FirstHeight \in Nat /\ FirstHeight <= FirstRuneHeight
  BY IntactFalls, IndexerAssumption
<1> DEFINE f == FirstRuneHeight + 1
<1>1. CASE UNCHANGED <<headers, runeLog>>
  BY <1>0, <1>1 DEF LedgerFollows, NoHeaders, Top
<1>2. ASSUME NEW l \in Loop, NEW b \in Block, Fits(l, b)
      PROVE  LedgerFollows'
  <2> DEFINE n == NextHeight
  <2>1. /\ DOMAIN headers' # {} /\ Top(headers)' = n /\ headers'[n] = b /\ n \in Nat
        /\ ~ NoHeaders => Parent[b] = headers[n - 1]
    BY <1>2, FitsTop, FitsHeaders
  <2>2. runeLog' = IF n >= FirstRuneHeight THEN Append(runeLog, b) ELSE runeLog
    BY <1>2 DEF Fits, BlockIndexed, IndexesRunes
  <2>3. SUFFICES ASSUME NEW c \in Chain, HasAt(c, n, b)
                 PROVE  runeLog' = SubSeq(c, f, n + 1)
    BY <2>1 DEF LedgerFollows, NoHeaders, Top
  <2>4. n + 1 <= Len(c) /\ c[n + 1] = b
    BY <2>3 DEF HasAt
  <2>5. runeLog = SubSeq(c, f, n)
    <3>1. CASE NoHeaders
      <4>1. n = FirstHeight /\ runeLog = <<>>
        BY <1>0, <3>1 DEF LedgerFollows, NextHeight
      <4> QED
        BY <1>0, <4>1, SubSeqEmpty
    <3>2. CASE ~ NoHeaders
      <4>1. n = Top(headers) + 1 /\ Top(headers) \in Nat
        BY <3>2, TopFacts DEF ChainInv
      <4>2. Parent[c[n + 1]] = c[n] /\ n <= Len(c)
        BY <2>1, <2>4, <4>1, ChainType
      <4>3. HasAt(c, Top(headers), headers[Top(headers)])
        BY <2>1, <2>4, <3>2, <4>1, <4>2 DEF HasAt
      <4> QED
        BY <1>0, <3>2, <4>1, <4>3 DEF LedgerFollows
    <3> QED
      BY <3>1, <3>2
  <2> HIDE DEF n
  <2>6. CASE n >= FirstRuneHeight
    <3>1. SubSeq(c, f, n + 1) = Append(SubSeq(c, f, (n + 1) - 1), c[n + 1])
      BY <1>0, <2>1, <2>4, <2>6, PartGrows
    <3>2. (n + 1) - 1 = n
      BY <2>1
    <3> QED
      BY <2>2, <2>4, <2>5, <2>6, <3>1, <3>2
  <2>7. CASE ~ (n >= FirstRuneHeight)
    BY <1>0, <2>1, <2>2, <2>5, <2>7, SubSeqEmpty
  <2> QED
    BY <2>6, <2>7
<1>3. ASSUME NEW l \in Loop, ForkFound(l), HandleReorg(l)
      PROVE  LedgerFollows'
  <2> DEFINE t == Top(headers)
             undone == Cardinality(DOMAIN records \cap RolledBack(l))
  <2>1. ~ NoHeaders
    BY <1>3, RolledBackTop
  <2>2. PICK m \in DOMAIN headers :
          /\ headers' = [k \in {j \in DOMAIN headers : j <= m} |-> headers[k]]
          /\ undone = t - m
          /\ m = t \/ m + 1 >= FirstRuneHeight
    BY <1>3, RollbackShape
  <2>3. DOMAIN headers' # {} /\ Top(headers)' = m /\ headers'[m] = headers[m]
    BY <2>2, RollbackTop DEF ChainInv, TypeOK, TablesOK
  <2>4. t \in DOMAIN headers /\ t \in Nat /\ m \in Nat /\ m <= t
    BY <2>1, <2>2, TopFacts DEF ChainInv, TypeOK, TablesOK
  <2>5. runeLog' = IF undone <= Len(runeLog)
                   THEN SubSeq(runeLog, 1, Len(runeLog) - undone) ELSE <<>>
    BY <1>3 DEF HandleReorg
  <2>6. PICK c \in Chain : HasAt(c, t, headers[t])
    BY <2>4 DEF HeadersPlaced, Placed
  <2>7. HasAt(c, m, headers[m]) /\ t + 1 <= Len(c)
    BY <2>1, <2>6, HeadersAlong DEF HasAt
  <2>8. runeLog = SubSeq(c, f, t + 1)
    BY <1>0, <2>1, <2>6 DEF LedgerFollows
  <2> HIDE DEF t, undone
  <2>9. runeLog' = SubSeq(c, f, m + 1)
    <3>1. CASE f <= t + 2
      <4>1. f <= (m + 1) + 1
        BY <1>0, <2>2, <2>4, <3>1
      <4>2. /\ Len(runeLog) = (t + 1) - f + 1
            /\ SubSeq(runeLog, 1, (m + 1) - f + 1) = SubSeq(c, f, m + 1)
        <5>1. /\ f \in Nat /\ 1 <= f /\ t + 1 \in Nat /\ m + 1 \in Nat
              /\ f <= (t + 1) + 1 /\ t + 1 <= Len(c) /\ m + 1 <= t + 1
          BY <1>0, <2>4, <2>7, <3>1
        <5> HIDE DEF f
        <5> QED
          BY <2>8, <4>1, <5>1, PartShrinks
      <4>3. f \in Nat /\ undone = t - m
        BY <1>0, <2>2
      <4>4. Len(runeLog) - undone = (m + 1) - f + 1 /\ undone <= Len(runeLog)
        <5> HIDE DEF f
        <5> QED
          BY <2>4, <4>1, <4>2, <4>3
      <4> QED
        BY <2>5, <4>2, <4>4
    <3>2. CASE t + 2 < f
      <4>1. m = t /\ undone = 0
        BY <1>0, <2>2, <2>4, <3>2
      <4>2. runeLog = <<>> /\ SubSeq(c, f, m + 1) = <<>>
        BY <1>0, <2>4, <2>8, <3>2, <4>1, SubSeqEmpty
      <4>3. runeLog' = SubSeq(<<>>, 1, 0)
        BY <2>5, <4>1, <4>2
      <4>4. SubSeq(<<>>, 1, 0) = <<>>
        BY SubSeqEmpty
      <4> QED
        BY <4>2, <4>3, <4>4
    <3> QED
      BY <1>0, <2>4, <3>1, <3>2
  <2>10. ASSUME NEW d \in Chain, HasAt(d, m, headers[m])
         PROVE  runeLog' = SubSeq(d, f, m + 1)
    <3>1. /\ f \in Nat /\ 1 <= f /\ m + 1 \in Nat /\ m + 1 > 0
          /\ m + 1 <= Len(c) /\ m + 1 <= Len(d) /\ c[m + 1] = d[m + 1]
      BY <1>0, <2>4, <2>7, <2>10 DEF HasAt
    <3>2. SubSeq(c, f, m + 1) = SubSeq(d, f, m + 1)
      BY <3>1, PartSame
    <3> QED
      BY <2>9, <3>2
  <2> QED
    BY <2>3, <2>10 DEF LedgerFollows, NoHeaders, Top
<1> QED
  BY <1>1, <1>2, <1>3, ChainChange

LEMMA HeadersPlacedStep ==
  ASSUME ChainInv, ChainInv', RecordsMatchHeaders, HeadersPlaced, BlocksPlaced, [Next]_vars
  PROVE  HeadersPlaced'
<1>1. CASE UNCHANGED headers
  BY <1>1 DEF HeadersPlaced, Placed
<1>2. ASSUME NEW l \in Loop, NEW b \in Block, Fits(l, b)
      PROVE  HeadersPlaced'
  BY <1>2, FitsTop, FitsPlaced DEF HeadersPlaced, Placed
<1>3. ASSUME NEW l \in Loop, ForkFound(l), HandleReorg(l)
      PROVE  HeadersPlaced'
  <2>1. \A k \in DOMAIN headers' : k \in DOMAIN headers /\ headers'[k] = headers[k]
    BY <1>3, RollbackShape, RollbackTop
  <2> QED
    BY <2>1 DEF HeadersPlaced, Placed
<1> QED
  BY <1>1, <1>2, <1>3, ChainChange

(***************************************************************************)
(* The inductive invariant of the tables: ChainInv, where the blocks are,  *)
(* and the ledger.                                                         *)
(***************************************************************************)
LedgerInv == HeadersPlaced /\ BlocksPlaced /\ LedgerFollows

LEMMA LedgerInvHolds ==
  ASSUME SingleThread
  PROVE  Spec => []LedgerInv
<1>1. Init => LedgerInv
  BY DEF Init, LedgerInv, HeadersPlaced, BlocksPlaced, LedgerFollows, Idle, NoHeaders
<1>2. ChainInv /\ ChainInv' /\ RecordsMatchHeaders /\ LedgerInv /\ [Next]_vars => LedgerInv'
  BY HeadersPlacedStep, BlocksPlacedStep, LedgerStep DEF LedgerInv
<1> QED
  BY <1>1, <1>2, ChainInvHolds, RecordsCorrect, PTL DEF Spec

(***************************************************************************)
(* RuneLedgerMatchesChain: with one index thread, as long as no attempt    *)
(* was cut off half-way, the rune tables hold each block of the indexed    *)
(* chain once and in order, through failed attempts, upgrades, pruning and *)
(* reorganisations (index_rune and handle_reorg).                          *)
(***************************************************************************)
THEOREM RuneLedgerCorrect ==
  ASSUME SingleThread
  PROVE  Spec => []RuneLedgerMatchesChain
<1>1. ChainInv /\ LedgerInv => RuneLedgerMatchesChain
  <2> SUFFICES ASSUME ChainInv, LedgerInv, IndexRunes, intact
               PROVE  runeLog = IndexedFrom(FirstRuneHeight)
    BY DEF RuneLedgerMatchesChain
  <2> DEFINE P(d) == HasAt(d, Top(headers), headers[Top(headers)])
  <2>1. CASE NoHeaders
    BY <2>1 DEF LedgerInv, LedgerFollows, IndexedFrom
  <2>2. CASE ~ NoHeaders
    <3>1. Top(headers) \in DOMAIN headers
      BY <2>2, TopFacts DEF ChainInv
    <3>2. \E d \in Chain : P(d)
      BY <3>1 DEF LedgerInv, HeadersPlaced, Placed
    <3> DEFINE c == CHOOSE d \in Chain : P(d)
    <3>3. c \in Chain /\ P(c)
      BY <3>2
    <3>4. IndexedFrom(FirstRuneHeight) = SubSeq(c, FirstRuneHeight + 1, Top(headers) + 1)
      BY <2>2 DEF IndexedFrom, HasAt
    <3> HIDE DEF c
    <3> QED
      BY <2>2, <3>3, <3>4 DEF LedgerInv, LedgerFollows
  <2> QED
    BY <2>1, <2>2
<1> QED
  BY <1>1, ChainInvHolds, LedgerInvHolds, PTL

-----------------------------------------------------------------------------
(* The UTXO table, as long as the node's chain only grew.                  *)

(* The indexed part of the best chain.                                     *)
IndexedBest == SubSeq(best, FirstHeight + 1, NextHeight)

(***************************************************************************)
(* The headers and the block a thread works on are on the best chain, and  *)
(* no thread looks for a fork.                                             *)
(***************************************************************************)
OnBest ==
  /\ FirstHeight <= NextHeight
  /\ ~ NoHeaders => HasAt(best, Top(headers), headers[Top(headers)])
  /\ \A l \in Loop :
       /\ loop[l].pc \in {"block", "utxo", "rune"} =>
            HasAt(best, loop[l].height, loop[l].block)
       /\ loop[l].pc # "detect"

(***************************************************************************)
(* The table is that of the indexed blocks, or that of one block more, or  *)
(* on the way from the one to the other.                                   *)
(***************************************************************************)
Whole(b) == (Unspent(IndexedBest) \ Spends[b]) \cup Creates[b]

UtxoAt ==
  \/ utxo = Unspent(IndexedBest)
  \/ \E b \in Block :
       /\ HasAt(best, NextHeight, b)
       /\ \/ utxo = Whole(b)
          \/ \E met \in SUBSET Spends[b] : utxo = Unspent(IndexedBest) \ met

RunesAfterUtxo == \A l \in Loop : loop[l].pc = "rune" => utxo = Whole(loop[l].block)

UtxoInv == NeverReorganised => OnBest /\ UtxoAt /\ RunesAfterUtxo

(***************************************************************************)
(* What one more block does to the unspent outputs.                        *)
(***************************************************************************)
LEMMA UnspentAppend ==
  ASSUME NEW s \in Seq(Block), NEW b \in Block
  PROVE  Unspent(Append(s, b)) = (Unspent(s) \ Spends[b]) \cup Creates[b]
<1> DEFINE r == Append(s, b)
           n == Len(s)
<1>1. /\ n \in Nat /\ Len(r) = n + 1 /\ r[n + 1] = b
      /\ \A i \in 1..n : r[i] = s[i]
  BY AppendProperties, LenProperties
<1>2. Creates[b] \subseteq Outpoint
  BY IndexerAssumption
<1> HIDE DEF r, n
<1>3. ASSUME NEW o \in Unspent(r)
      PROVE  o \in (Unspent(s) \ Spends[b]) \cup Creates[b]
  <2>1. PICK i \in 1..(n + 1) : /\ o \in Creates[r[i]]
                                /\ \A j \in i+1..(n + 1) : o \notin Spends[r[j]]
    BY <1>1, <1>3 DEF Unspent
  <2>2. CASE i = n + 1
    BY <1>1, <2>1, <2>2
  <2>3. CASE i # n + 1
    <3>1. i \in 1..n /\ n + 1 \in i+1..(n + 1)
      BY <1>1, <2>1, <2>3
    <3>2. o \notin Spends[b] /\ o \in Creates[s[i]]
      BY <1>1, <2>1, <3>1
    <3>3. \A j \in i+1..n : o \notin Spends[s[j]]
      <4> TAKE j \in i+1..n
      <4>1. j \in i+1..(n + 1) /\ j \in 1..n
        BY <1>1, <3>1
      <4> QED
        BY <1>1, <2>1, <4>1
    <3>4. o \in Unspent(s)
      BY <1>3, <3>1, <3>2, <3>3 DEF Unspent, n
    <3> QED
      BY <3>2, <3>4
  <2> QED
    BY <2>2, <2>3
<1>4. ASSUME NEW o \in (Unspent(s) \ Spends[b]) \cup Creates[b]
      PROVE  o \in Unspent(r)
  <2>1. CASE o \in Creates[b]
    <3>1. n + 1 \in 1..(n + 1) /\ (n + 1) + 1..(n + 1) = {}
      BY <1>1
    <3> QED
      BY <1>1, <1>2, <2>1, <3>1 DEF Unspent
  <2>2. CASE o \in Unspent(s) /\ o \notin Spends[b]
    <3>1. PICK i \in 1..n : /\ o \in Creates[s[i]] /\ o \in Outpoint
                            /\ \A j \in i+1..n : o \notin Spends[s[j]]
      BY <2>2 DEF Unspent, n
    <3>2. \A j \in i+1..(n + 1) : o \notin Spends[r[j]]
      <4> TAKE j \in i+1..(n + 1)
      <4>1. CASE j = n + 1
        BY <1>1, <2>2, <4>1
      <4>2. CASE j # n + 1
        <5>1. j \in i+1..n /\ j \in 1..n
          BY <1>1, <4>2
        <5> QED
          BY <1>1, <3>1, <5>1
      <4> QED
        BY <4>1, <4>2
    <3>3. i \in 1..(n + 1)
      BY <1>1
    <3> QED
      BY <1>1, <3>1, <3>2, <3>3 DEF Unspent
  <2> QED
    BY <1>4, <2>1, <2>2
<1> QED
  BY <1>3, <1>4 DEF r

(***************************************************************************)
(* When the node's chain only grew so far, it did so before, and the       *)
(* previous best chain is a part of the new one.                           *)
(***************************************************************************)
LEMMA BestGrows ==
  ASSUME ChainTypeOK, ChainTypeOK', NewBest, NeverReorganised'
  PROVE  /\ NeverReorganised
         /\ Len(best) < Len(best')
         /\ \A i \in 1..Len(best) : best'[i] = best[i]
<1>1. best \in Chain /\ best' \in Chain /\ Len(best) < Len(best')
  BY ChainType DEF ChainTypeOK, NewBest
<1>2. Len(best) \in Nat /\ Len(best') \in Nat
  BY <1>1, ChainType
<1>3. ASSUME NEW c \in Chain, Len(c) < Len(best')
      PROVE  \A i \in 1..Len(c) : best'[i] = c[i]
  <2>1. SubSeq(best', 1, Len(c)) = c /\ Len(c) \in Nat
    BY <1>3, ChainType DEF NeverReorganised
  <2>2. \A i \in 1..Len(c) : best'[i] \in Block
    BY <1>1, <1>2, <1>3, <2>1, ChainType
  <2>3. \A i \in 1..Len(c) : SubSeq(best', 1, Len(c))[i] = best'[1 + i - 1]
    BY <2>1, <2>2, SubSeqProperties
  <2> QED
    BY <2>1, <2>3
<1>4. \A i \in 1..Len(best) : best'[i] = best[i]
  BY <1>1, <1>3
<1>5. ASSUME NEW c \in Chain, Len(c) < Len(best)
      PROVE  SubSeq(best, 1, Len(c)) = c
  <2> DEFINE r == SubSeq(best, 1, Len(c))
  <2>1. Len(c) \in Nat /\ c \in Seq(Block) /\ Len(c) < Len(best')
    BY <1>1, <1>2, <1>5, ChainType
  <2>2. \A i \in 1..Len(c) : best[i] = c[i] /\ best[i] \in Block
    BY <1>1, <1>2, <1>3, <1>4, <1>5, <2>1, ChainType
  <2>3. r \in Seq(Block) /\ Len(r) = Len(c) /\ \A i \in 1..Len(c) : r[i] = best[1 + i - 1]
    BY <2>1, <2>2, SubSeqProperties
  <2>4. \A i \in 1..Len(r) : r[i] = c[i]
    BY <2>1, <2>2, <2>3
  <2> HIDE DEF r
  <2>5. r = c
    BY <2>1, <2>3, <2>4, SeqEqual
  <2> QED
    BY <2>5 DEF r
<1> QED
  BY <1>1, <1>4, <1>5 DEF NeverReorganised

LEMMA HeightType ==
  ASSUME ChainInv
  PROVE  NextHeight \in Nat /\ FirstHeight \in Nat
BY TopFacts, IndexerAssumption DEF ChainInv, NextHeight

(***************************************************************************)
(* The node's chain grew.                                                  *)
(***************************************************************************)
LEMMA UtxoNodeStep ==
  ASSUME ChainInv, ChainInv', UtxoInv, NodeStep
  PROVE  UtxoInv'
<1> SUFFICES ASSUME NeverReorganised' PROVE (OnBest /\ UtxoAt /\ RunesAfterUtxo)'
  BY DEF UtxoInv
<1>0. UNCHANGED <<headers, loop, utxo>> /\ NewBest
  BY DEF NodeStep, stable
<1>1. /\ NeverReorganised /\ best \in Chain /\ best' \in Chain
      /\ Len(best) < Len(best') /\ \A i \in 1..Len(best) : best'[i] = best[i]
  BY <1>0, BestGrows DEF ChainInv, TypeOK, ChainTypeOK
<1>2. OnBest /\ UtxoAt /\ RunesAfterUtxo
  BY <1>1 DEF UtxoInv
<1>3. ASSUME NEW h \in Nat, NEW b, HasAt(best, h, b)
      PROVE  HasAt(best', h, b)
  <2>1. Len(best) \in Nat /\ Len(best') \in Nat
    BY <1>1, ChainType
  <2>2. h + 1 \in 1..Len(best)
    BY <1>3, <2>1 DEF HasAt
  <2> QED
    BY <1>1, <1>3, <2>1, <2>2 DEF HasAt
<1>4. NextHeight' = NextHeight /\ NoHeaders' = NoHeaders /\ Top(headers)' = Top(headers)
  BY <1>0 DEF NextHeight, NoHeaders, Top
<1>5. NextHeight \in Nat /\ FirstHeight \in Nat
  BY HeightType
<1>6. SubSeq(best', FirstHeight + 1, NextHeight) = SubSeq(best, FirstHeight + 1, NextHeight)
  <2>1. CASE NoHeaders
    BY <1>5, <2>1, SubSeqEmpty DEF NextHeight
  <2>2. CASE ~ NoHeaders
    <3>1. NextHeight = Top(headers) + 1 /\ Top(headers) \in Nat
      BY <2>2, TopFacts DEF ChainInv
    <3>2. /\ HasAt(best, Top(headers), headers[Top(headers)])
          /\ HasAt(best', Top(headers), headers[Top(headers)])
      BY <1>2, <1>3, <2>2, <3>1 DEF OnBest
    <3>3. NextHeight <= Len(best) /\ NextHeight <= Len(best') /\ NextHeight > 0
          /\ best'[NextHeight] = best[NextHeight]
      BY <3>1, <3>2 DEF HasAt
    <3> QED
      BY <1>1, <1>5, <3>3, PartSame
  <2> QED
    BY <2>1, <2>2
<1>7. IndexedBest' = IndexedBest
  BY <1>4, <1>6 DEF IndexedBest
<1>8. OnBest'
  <2>1. ~ NoHeaders => Top(headers) \in Nat
    BY TopFacts DEF ChainInv
  <2>2. \A l \in Loop : loop[l].height \in Nat
    BY DEF ChainInv, TypeOK, LoopsOK, LoopState
  <2> QED
    BY <1>0, <1>2, <1>3, <1>4, <2>1, <2>2 DEF OnBest
<1>9. Unspent(IndexedBest)' = Unspent(IndexedBest) /\ \A b \in Block : Whole(b)' = Whole(b)
  BY <1>7 DEF Unspent, Whole
<1>10. UtxoAt'
  BY <1>0, <1>2, <1>3, <1>4, <1>5, <1>9 DEF UtxoAt
<1>11. RunesAfterUtxo'
  <2>1. \A l \in Loop : loop[l].pc = "rune" => loop[l].block \in Block
    BY DEF ChainInv, TypeOK, LoopsOK, Await
  <2> QED
    BY <1>0, <1>2, <1>9, <2>1 DEF RunesAfterUtxo
<1> QED
  BY <1>8, <1>10, <1>11

(***************************************************************************)
(* Headers, table and chain stay, and each thread is as it was, or at an   *)
(* await where it holds no block, or holds the block that comes next.      *)
(***************************************************************************)
LEMMA UtxoRestStep ==
  ASSUME UtxoInv, UNCHANGED <<best, headers, utxo>>,
         \A l \in Loop :
           \/ loop'[l] = loop[l]
           \/ loop'[l].pc \in {"timer", "hash", "notify"} \cup Ended
           \/ loop'[l].pc \in {"block", "utxo"} /\ HasAt(best, loop'[l].height, loop'[l].block)
  PROVE  UtxoInv'
<1> SUFFICES ASSUME NeverReorganised' PROVE (OnBest /\ UtxoAt /\ RunesAfterUtxo)'
  BY DEF UtxoInv
<1>0. OnBest /\ UtxoAt /\ RunesAfterUtxo
  BY DEF UtxoInv, NeverReorganised
<1>1. NextHeight' = NextHeight /\ IndexedBest' = IndexedBest
  BY DEF NextHeight, NoHeaders, Top, IndexedBest
<1>2. /\ Unspent(IndexedBest)' = Unspent(IndexedBest)
      /\ \A b : Whole(b)' = Whole(b)
  BY <1>1 DEF Unspent, Whole
<1>3. UtxoAt'
  BY <1>0, <1>1, <1>2 DEF UtxoAt
<1>4. OnBest'
  BY <1>0, <1>1 DEF OnBest, NoHeaders, Top, Ended
<1>5. RunesAfterUtxo'
  <2> SUFFICES ASSUME NEW l \in Loop, loop'[l].pc = "rune"
               PROVE  utxo' = Whole(loop[l].block)'
    BY DEF RunesAfterUtxo
  <2>1. PICK b : b = loop[l].block
    OBVIOUS
  <2>2. loop'[l] = loop[l]
    BY DEF Ended
  <2>3. utxo = Whole(b)
    BY <1>0, <2>1, <2>2 DEF RunesAfterUtxo
  <2>4. Whole(loop[l].block)' = Whole(b)'
    BY <2>1, <2>2 DEF Whole
  <2> QED
    BY <1>2, <2>3, <2>4
<1> QED
  BY <1>3, <1>4, <1>5

LEMMA UtxoQuietStep ==
  ASSUME SingleThread, UtxoInv, NEW l \in Loop, UNCHANGED <<best, headers, utxo>>,
         \/ loop'[l].pc \in {"timer", "hash", "notify"} \cup Ended
         \/ loop'[l].pc \in {"block", "utxo"} /\ HasAt(best, loop'[l].height, loop'[l].block)
  PROVE  UtxoInv'
<1>1. \A m \in Loop : m = l
  BY DEF SingleThread
<1> QED
  BY <1>1, UtxoRestStep

(***************************************************************************)
(* What a thread that indexes a block knows of it.                         *)
(***************************************************************************)
LEMMA NextOnBest ==
  ASSUME ChainInv, OnBest, NEW l \in Loop, loop[l].pc \in {"block", "utxo", "rune"}
  PROVE  /\ loop[l].height = NextHeight /\ loop[l].block \in Block
         /\ HasAt(best, NextHeight, loop[l].block)
         /\ loop[l].prev \in {NoBlock, Parent[loop[l].block]}
<1> DEFINE b == loop[l].block
           t == Top(headers)
<1>1. /\ loop[l].height = NextHeight /\ loop[l].prev = PrevBlock /\ b \in Block
      /\ HasAt(best, NextHeight, b)
  BY DEF ChainInv, TypeOK, LoopsOK, Await, ReadsStayCurrent, OnBest
<1>2. CASE NoHeaders
  BY <1>1, <1>2 DEF PrevBlock
<1>3. CASE ~ NoHeaders
  <2>1. NextHeight = t + 1 /\ t \in Nat /\ PrevBlock = headers[t]
    BY <1>3, TopFacts DEF ChainInv
  <2>2. HasAt(best, t, headers[t]) /\ best \in Chain
    BY <1>3 DEF OnBest, ChainInv, TypeOK, ChainTypeOK
  <2>3. (t + 1) + 1 <= Len(best) /\ best[(t + 1) + 1] = b /\ best[t + 1] = PrevBlock
    BY <1>1, <2>1, <2>2 DEF HasAt
  <2>4. Parent[b] = PrevBlock
    BY <2>1, <2>2, <2>3, ChainType
  <2> QED
    BY <1>1, <2>4
<1> QED
  BY <1>2, <1>3

(***************************************************************************)
(* Indexing a block leaves the same table, whatever an earlier attempt at  *)
(* it did.                                                                 *)
(***************************************************************************)
LEMMA WholeAfter ==
  ASSUME UtxoAt, NEW b \in Block, HasAt(best, NextHeight, b)
  PROVE  /\ (utxo \ Spends[b]) \cup Creates[b] = Whole(b)
         /\ \A met \in SUBSET Spends[b] :
              \/ utxo \ met = Whole(b)
              \/ \E all \in SUBSET Spends[b] : utxo \ met = Unspent(IndexedBest) \ all
<1> DEFINE U == Unspent(IndexedBest)
<1>1. \/ utxo = U \/ utxo = Whole(b)
      \/ \E met \in SUBSET Spends[b] : utxo = U \ met
  <2>1. \A c \in Block : HasAt(best, NextHeight, c) => c = b
    BY DEF HasAt
  <2> QED
    BY <2>1 DEF UtxoAt
<1>2. Spends[b] \cap Creates[b] = {}
  BY IndexerAssumption
<1> HIDE DEF U
<1>3. Whole(b) = (U \ Spends[b]) \cup Creates[b]
  BY DEF U, Whole
<1>4. CASE utxo = U
  <2>1. \A met \in SUBSET Spends[b] : utxo \ met = U \ met
    BY <1>4
  <2> QED
    BY <1>3, <1>4, <2>1 DEF U
<1>5. CASE utxo = Whole(b)
  <2>1. (utxo \ Spends[b]) \cup Creates[b] = Whole(b)
    BY <1>3, <1>5
  <2>2. ASSUME NEW met \in SUBSET Spends[b]
        PROVE  utxo \ met = Whole(b)
    BY <1>2, <1>3, <1>5
  <2> QED
    BY <2>1, <2>2
<1>6. ASSUME NEW some \in SUBSET Spends[b], utxo = U \ some
      PROVE  /\ (utxo \ Spends[b]) \cup Creates[b] = Whole(b)
             /\ \A met \in SUBSET Spends[b] :
                  \E all \in SUBSET Spends[b] : utxo \ met = U \ all
  <2>1. (utxo \ Spends[b]) \cup Creates[b] = Whole(b)
    BY <1>3, <1>6
  <2>2. ASSUME NEW met \in SUBSET Spends[b]
        PROVE  \E all \in SUBSET Spends[b] : utxo \ met = U \ all
    <3>1. utxo \ met = U \ (some \cup met) /\ some \cup met \in SUBSET Spends[b]
      BY <1>6
    <3> QED
      BY <3>1
  <2> QED
    BY <2>1, <2>2
<1> QED
  BY <1>1, <1>4, <1>5, <1>6 DEF U

(***************************************************************************)
(* The rest of a block after its outputs: its header goes in, or the       *)
(* thread waits in index_rune.                                             *)
(***************************************************************************)
LEMMA UtxoAdded ==
  ASSUME SingleThread, ChainInv, ChainInv', OnBest, NEW l \in Loop, NEW b \in Block,
         Fits(l, b), HasAt(best, NextHeight, b), UNCHANGED best, utxo' = Whole(b),
         loop'[l].pc \in {"timer", "hash", "notify"} \cup Ended
  PROVE  UtxoInv'
<1> DEFINE n == NextHeight
<1>1. /\ DOMAIN headers' # {} /\ Top(headers)' = n /\ headers'[n] = b
  BY FitsTop
<1>2. n \in Nat /\ FirstHeight \in Nat /\ best \in Chain /\ FirstHeight <= n
  BY HeightType DEF ChainInv, TypeOK, ChainTypeOK, OnBest
<1>3. ~ NoHeaders' /\ NextHeight' = n + 1
  BY <1>1 DEF NoHeaders, NextHeight, Top
<1>4. n + 1 <= Len(best) /\ best[n + 1] = b
  BY DEF HasAt
<1> HIDE DEF n
<1>5. SubSeq(best, FirstHeight + 1, n + 1) = Append(SubSeq(best, FirstHeight + 1, n), b)
  <2>1. /\ FirstHeight + 1 \in Nat /\ 1 <= FirstHeight + 1 /\ FirstHeight + 1 <= n + 1
        /\ n + 1 \in Nat /\ (n + 1) - 1 = n
    BY <1>2
  <2> QED
    BY <1>2, <1>4, <2>1, PartGrows
<1>6. SubSeq(best, FirstHeight + 1, n) \in Seq(Block)
  <2>1. \A i \in FirstHeight + 1..n : best[i] \in Block
    BY <1>2, <1>4, ChainType
  <2> QED
    BY <1>2, <2>1, SubSeqProperties
<1>7. IndexedBest' = Append(IndexedBest, b) /\ IndexedBest \in Seq(Block)
  BY <1>3, <1>5, <1>6 DEF IndexedBest, n
<1>8. utxo' = Unspent(Append(IndexedBest, b))
  BY <1>7, UnspentAppend DEF Whole
<1>9. utxo' = Unspent(IndexedBest)'
  BY <1>7, <1>8 DEF Unspent
<1>10. \A m \in Loop : m = l
  BY DEF SingleThread
<1>11. OnBest'
  BY <1>1, <1>2, <1>3, <1>4, <1>10 DEF OnBest, HasAt, Ended
<1> QED
  BY <1>9, <1>10, <1>11 DEF UtxoInv, UtxoAt, RunesAfterUtxo, Ended

LEMMA UtxoRuneStep ==
  ASSUME SingleThread, ChainInv, OnBest, NEW l \in Loop, NEW b \in Block,
         HasAt(best, NextHeight, b), UNCHANGED <<best, headers>>, utxo' = Whole(b),
         loop'[l].pc = "rune", loop'[l].height = NextHeight, loop'[l].block = b
  PROVE  UtxoInv'
<1>1. \A m \in Loop : m = l
  BY DEF SingleThread
<1>2. NextHeight' = NextHeight /\ IndexedBest' = IndexedBest
  BY DEF NextHeight, NoHeaders, Top, IndexedBest
<1>3. Whole(b)' = Whole(b)
  BY <1>2 DEF Unspent, Whole
<1>4. OnBest'
  BY <1>1, <1>2 DEF OnBest, NoHeaders, Top
<1>5. UtxoAt'
  BY <1>2, <1>3 DEF UtxoAt
<1>6. RunesAfterUtxo'
  <2>1. Whole(loop[l].block)' = Whole(b)'
    BY DEF Whole
  <2> QED
    BY <1>1, <1>3, <2>1 DEF RunesAfterUtxo
<1> QED
  BY <1>4, <1>5, <1>6 DEF UtxoInv

LEMMA UtxoStep ==
  ASSUME SingleThread, IndexUtxo, ChainInv, ChainInv', UtxoInv, [Next]_vars
  PROVE  UtxoInv'
<1> USE DEF stable
<1>0. LoopsOK /\ loop \in [Loop -> LoopState]
  BY DEF ChainInv, TypeOK, LoopsOK
<1>1. CASE NodeStep
  BY <1>1, UtxoNodeStep
<1>2. CASE UNCHANGED vars \/ Stop
  <2>1. UNCHANGED <<best, headers, utxo, loop>>
    BY <1>2 DEF vars, Stop
  <2> QED
    BY <2>1, UtxoRestStep
<1>3. CASE Upgrade
  <2>1. UNCHANGED <<best, headers, utxo>> /\ \A l \in Loop : loop'[l].pc = "off"
    BY <1>3 DEF Upgrade, Idle
  <2> QED
    BY <2>1, UtxoRestStep DEF Ended
<1>4. ASSUME NEW l \in Loop, Start(l)
      PROVE  UtxoInv'
  <2>1. loop'[l].pc = "timer" /\ UNCHANGED <<best, headers, utxo>>
    BY <1>0, <1>4 DEF Start, Idle
  <2> QED
    BY <2>1, UtxoQuietStep
<1>5. ASSUME NEW l \in Loop, Step(l)
      PROVE  UtxoInv'
  <2> SUFFICES ASSUME NeverReorganised' PROVE UtxoInv'
    BY DEF UtxoInv
  <2>0. UNCHANGED best
    BY <1>5 DEF Step, Fire, HashFound, HashMissing, BlockFits, BlockForks, BlockFails, InputsFail,
         ForkFound, ForkDeeper, ForkFails, InputsFetched, CommitmentChecked,
         CommitmentFails, CommitmentPanics, Notified
  <2>1. OnBest /\ UtxoAt /\ RunesAfterUtxo
    BY <2>0 DEF UtxoInv, NeverReorganised
  <2> DEFINE Over == loop'[l].pc \in {"timer", "hash", "notify"} \cup Ended
  <2>2. ASSUME Rearm(l) \/ Return(l) \/ Panic(l)
        PROVE  Over
    BY <1>0, <2>2 DEF Rearm, Rearmed, Return, Panic, Idle, Ended
  <2>3. ASSUME NEW b \in Block, BlockIndexed(l, b)
        PROVE  Over
    <3>1. CASE loop[l].subs = <<>>
      BY <2>2, <2>3, <3>1 DEF BlockIndexed, Rearm
    <3>2. CASE loop[l].subs # <<>>
      BY <1>0, <2>3, <3>2 DEF BlockIndexed, LoopState
    <3> QED
      BY <3>1, <3>2
  <2>4. CASE Fire(l) \/ HashMissing(l) \/ BlockFails(l) \/ InputsFail(l) \/ CommitmentFails(l)
             \/ CommitmentPanics(l) \/ Notified(l)
    <3>1. UNCHANGED <<best, headers, utxo>>
      BY <2>4 DEF Fire, HashMissing, BlockFails, InputsFail, CommitmentFails, CommitmentPanics, Notified
    <3>2. CASE Fire(l)
      BY <1>0, <3>1, <3>2, UtxoQuietStep DEF Fire, LoopState
    <3>3. CASE Notified(l)
      <4>1. CASE Rearm(l)
        BY <2>2, <3>1, <4>1, UtxoQuietStep
      <4>2. CASE loop' = [loop EXCEPT ![l].next = @ + 1]
        BY <1>0, <3>1, <3>3, <4>2, UtxoQuietStep DEF Notified, LoopState
      <4> QED
        BY <3>3, <4>1, <4>2 DEF Notified
    <3>4. CASE ~ Fire(l) /\ ~ Notified(l)
      BY <2>2, <2>4, <3>1, <3>4, UtxoQuietStep
         DEF HashMissing, BlockFails, InputsFail, CommitmentFails, CommitmentPanics
    <3> QED
      BY <3>2, <3>3, <3>4
  <2>5. CASE HashFound(l)
    <3>1. /\ loop'[l].pc = "block" /\ loop'[l].height = loop[l].height
          /\ loop'[l].block = NodeBlockHash(loop[l].height)
          /\ NodeBlockHash(loop[l].height) # NoBlock /\ UNCHANGED <<best, headers, utxo>>
      BY <1>0, <2>5 DEF HashFound, LoopState
    <3>2. HasAt(best, loop'[l].height, loop'[l].block)
      BY <3>1 DEF NodeBlockHash, HasAt
    <3> QED
      BY <3>1, <3>2, UtxoQuietStep
  <2>6. CASE BlockForks(l) \/ ForkFound(l) \/ ForkDeeper(l) \/ ForkFails(l)
    BY <2>1, <2>6, NextOnBest DEF BlockForks, ForkFound, ForkDeeper, ForkFails, OnBest
  <2>7. CASE BlockFits(l) \/ InputsFetched(l) \/ CommitmentChecked(l)
    <3>1. PICK b \in Block : b = loop[l].block
      BY <2>7 DEF BlockFits, InputsFetched, CommitmentChecked, ChainInv, TypeOK, LoopsOK,
                  Await
    <3>2. /\ loop[l].pc \in {"block", "utxo", "rune"} /\ HasAt(best, NextHeight, b)
          /\ loop[l].height = NextHeight
      BY <2>1, <2>7, <3>1, NextOnBest DEF BlockFits, InputsFetched, CommitmentChecked
    <3>3. ASSUME BlockIndexed(l, b), utxo' = Whole(b)
          PROVE  UtxoInv'
      <4>1. loop[l].prev = PrevBlock /\ loop[l].prev \in {NoBlock, Parent[b]}
        BY <2>1, <3>1, <3>2, NextOnBest DEF ChainInv, ReadsStayCurrent
      <4>2. Fits(l, b)
        BY <3>1, <3>2, <3>3, <4>1 DEF Fits
      <4> QED
        BY <2>0, <2>1, <2>3, <3>2, <3>3, <4>2, UtxoAdded
    <3>4. ASSUME IndexRuneBlock(l, b), utxo' = Whole(b)
          PROVE  UtxoInv'
      <4>1. CASE BlockIndexed(l, b)
        BY <3>3, <3>4, <4>1
      <4>2. CASE ~ BlockIndexed(l, b)
        <5>1. loop' = [loop EXCEPT ![l].pc = "rune", ![l].block = b] /\ UNCHANGED headers
          BY <3>4, <4>2 DEF IndexRuneBlock
        <5>2. loop'[l].pc = "rune" /\ loop'[l].height = NextHeight /\ loop'[l].block = b
          BY <1>0, <3>2, <5>1 DEF LoopState
        <5> QED
          BY <2>0, <2>1, <3>2, <3>4, <5>1, <5>2, UtxoRuneStep
      <4> QED
        BY <4>1, <4>2
    <3>5. (utxo \ Spends[b]) \cup Creates[b] = Whole(b)
      BY <2>1, <3>2, WholeAfter
    <3>6. CASE BlockFits(l)
      <4>1. IndexBlock(l, b)
        BY <3>1, <3>6 DEF BlockFits
      <4>2. CASE utxo' = (utxo \ Spends[b]) \cup Creates[b] /\ IndexRuneBlock(l, b)
        BY <3>4, <3>5, <4>2
      <4>3. CASE Panic(l) /\ UNCHANGED stable
        BY <2>0, <2>2, <4>3, UtxoQuietStep
      <4>4. ASSUME NEW met \in SUBSET Spends[b], utxo' = utxo \ met, UNCHANGED headers,
                   loop' = [loop EXCEPT ![l].pc = "utxo", ![l].block = b]
            PROVE  UtxoInv'
        <5>1. loop'[l].pc = "utxo" /\ loop'[l].height = NextHeight /\ loop'[l].block = b
          BY <1>0, <3>2, <4>4 DEF LoopState
        <5>2. \A m \in Loop : m = l
          BY DEF SingleThread
        <5>3. NextHeight' = NextHeight /\ IndexedBest' = IndexedBest
          BY <2>0, <4>4 DEF NextHeight, NoHeaders, Top, IndexedBest
        <5>4. Whole(b)' = Whole(b) /\ Unspent(IndexedBest)' = Unspent(IndexedBest)
          BY <5>3 DEF Unspent, Whole
        <5>5. \/ utxo' = Whole(b)
              \/ \E all \in SUBSET Spends[b] : utxo' = Unspent(IndexedBest) \ all
          BY <2>1, <3>2, <4>4, WholeAfter
        <5>6. UtxoAt'
          BY <2>0, <3>2, <5>3, <5>4, <5>5 DEF UtxoAt
        <5>7. OnBest'
          BY <2>0, <2>1, <3>2, <4>4, <5>1, <5>2, <5>3 DEF OnBest, NoHeaders, Top
        <5> QED
          BY <5>1, <5>2, <5>6, <5>7 DEF UtxoInv, RunesAfterUtxo
      <4> QED
        BY <4>1, <4>2, <4>3, <4>4 DEF IndexBlock
    <3>7. CASE InputsFetched(l)
      BY <3>1, <3>4, <3>5, <3>7 DEF InputsFetched
    <3>8. CASE CommitmentChecked(l)
      BY <2>1, <3>1, <3>3, <3>8 DEF CommitmentChecked, RunesAfterUtxo
    <3> QED
      BY <2>7, <3>6, <3>7, <3>8
  <2> QED
    BY <1>5, <2>4, <2>5, <2>6, <2>7 DEF Step
<1> QED
  BY <1>1, <1>2, <1>3, <1>4, <1>5 DEF Next

(***************************************************************************)
(* UtxoMatchesChain: with one index thread, and until the node's chain is  *)
(* reorganised, the UTXO table is that of the indexed blocks or ahead of   *)
(* them by removals, or by all, of one next block, through every failure   *)
(* and retry (index_utxo_entries and commit).                              *)
(***************************************************************************)
THEOREM UtxoCorrect ==
  ASSUME SingleThread, IndexUtxo
  PROVE  Spec => []UtxoMatchesChain
<1>1. Init => UtxoInv
  <2> SUFFICES ASSUME Init PROVE OnBest /\ UtxoAt /\ RunesAfterUtxo
    BY DEF UtxoInv
  <2>1. NoHeaders /\ NextHeight = FirstHeight /\ FirstHeight \in Nat /\ utxo = {}
        /\ \A l \in Loop : loop[l].pc = "off"
    BY IndexerAssumption DEF Init, NoHeaders, NextHeight, Idle
  <2>2. IndexedBest = <<>>
    BY <2>1, SubSeqEmpty DEF IndexedBest
  <2>3. Unspent(IndexedBest) = {}
    BY <2>2 DEF Unspent
  <2> QED
    BY <2>1, <2>3 DEF OnBest, UtxoAt, RunesAfterUtxo
<1>2. ChainInv /\ ChainInv' /\ UtxoInv /\ [Next]_vars => UtxoInv'
  BY UtxoStep
<1>3. ChainInv /\ UtxoInv => UtxoMatchesChain
  <2> SUFFICES ASSUME ChainInv, UtxoInv, NeverReorganised PROVE UtxoMatchesChain
    BY DEF UtxoMatchesChain
  <2> DEFINE t == Top(headers)
             now == IndexedFrom(FirstHeight)
  <2>1. OnBest /\ UtxoAt /\ best \in Chain /\ NextHeight \in Nat /\ FirstHeight \in Nat
    BY HeightType DEF UtxoInv, ChainInv, TypeOK, ChainTypeOK
  <2>2. now = IndexedBest
    <3>1. CASE NoHeaders
      BY <2>1, <3>1, SubSeqEmpty DEF IndexedFrom, IndexedBest, NextHeight
    <3>2. CASE ~ NoHeaders
      <4> DEFINE P(d) == HasAt(d, Top(headers), headers[Top(headers)])
                 c == CHOOSE d \in Chain : P(d)
      <4>1. NextHeight = t + 1 /\ t \in Nat /\ P(best)
        BY <2>1, <3>2, TopFacts DEF ChainInv, OnBest
      <4>2. c \in Chain /\ P(c)
        BY <2>1, <4>1
      <4>3. IndexedFrom(FirstHeight) = SubSeq(c, FirstHeight + 1, t + 1)
        BY <3>2 DEF IndexedFrom, HasAt
      <4> HIDE DEF c
      <4>4. /\ t + 1 <= Len(c) /\ t + 1 <= Len(best) /\ c[t + 1] = best[t + 1]
            /\ t + 1 \in Nat /\ t + 1 > 0 /\ FirstHeight + 1 \in Nat /\ 1 <= FirstHeight + 1
        BY <2>1, <4>1, <4>2 DEF HasAt
      <4>5. SubSeq(c, FirstHeight + 1, t + 1) = SubSeq(best, FirstHeight + 1, t + 1)
        BY <2>1, <4>2, <4>4, PartSame
      <4> QED
        BY <4>1, <4>3, <4>5 DEF IndexedBest
    <3> QED
      BY <3>1, <3>2
  <2> HIDE DEF now
  <2>3. ASSUME NEW b \in Block, HasAt(best, NextHeight, b)
        PROVE  /\ IF NoHeaders THEN TRUE ELSE Parent[b] = PrevBlock
               /\ Whole(b) = Unspent(Append(now, b))
    <3>1. ASSUME ~ NoHeaders PROVE Parent[b] = PrevBlock
      <4>1. /\ NextHeight = t + 1 /\ t \in Nat /\ PrevBlock = headers[t]
            /\ HasAt(best, t, headers[t])
        BY <2>1, <3>1, TopFacts DEF ChainInv, OnBest
      <4>2. (t + 1) + 1 <= Len(best) /\ best[(t + 1) + 1] = b /\ best[t + 1] = PrevBlock
        BY <2>3, <4>1 DEF HasAt
      <4> QED
        BY <2>1, <4>1, <4>2, ChainType
    <3>2. NextHeight <= Len(best)
      BY <2>1, <2>3, ChainType DEF HasAt
    <3>3. \A i \in FirstHeight + 1..NextHeight : best[i] \in Block
      BY <2>1, <3>2, ChainType
    <3>4. IndexedBest \in Seq(Block)
      BY <2>1, <3>3, SubSeqProperties DEF IndexedBest
    <3>5. Whole(b) = Unspent(Append(now, b))
      BY <2>2, <3>4, UnspentAppend DEF Whole
    <3> QED
      BY <3>1, <3>5
  <2> QED
    BY <2>1, <2>2, <2>3 DEF UtxoMatchesChain, UtxoAt, now
<1> QED
  BY <1>1, <1>2, <1>3, ChainInvHolds, PTL DEF Spec
=============================================================================
