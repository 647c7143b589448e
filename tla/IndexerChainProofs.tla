------------------------ MODULE IndexerChainProofs -------------------------
(***************************************************************************)
(* What the header window and the change records of Indexer.tla satisfy,   *)
(* for every block tree, every window and every set of fallible calls.     *)
(* RecordsCorrect holds of any number of index threads, the others of one. *)
(***************************************************************************)
EXTENDS IndexerProofs

(***************************************************************************)
(* RecordsMatchHeaders: a rollback finds the change record of every header *)
(* it removes, and no other (index_block, prune_change_record and          *)
(* handle_reorg), also with several index threads.                         *)
(***************************************************************************)
THEOREM RecordsCorrect == Spec => []RecordsMatchHeaders
<1>1. Init => RecordsMatchHeaders
  BY DEF Init, RecordsMatchHeaders
<1>2. TypeOK /\ RecordsMatchHeaders /\ [Next]_vars => RecordsMatchHeaders'
  <2> SUFFICES ASSUME TypeOK, RecordsMatchHeaders, [Next]_vars
               PROVE  RecordsMatchHeaders'
    OBVIOUS
  <2> DEFINE Kept(map) == [h \in {k \in DOMAIN map : IndexesRunes(k)} |-> map[h]]
  <2>1. CASE UNCHANGED <<headers, records>>
    BY <2>1 DEF RecordsMatchHeaders, IndexesRunes
  <2>2. ASSUME NEW l \in Loop, NEW b \in Block, BlockIndexed(l, b)
        PROVE  RecordsMatchHeaders'
    <3> DEFINE h == loop[l].height
    <3>1. h \in Nat /\ DOMAIN headers \subseteq Nat /\ MaxDepth \in Nat /\ MaxDepth >= 2
      BY IndexerAssumption DEF TypeOK, TablesOK, LoopsOK, LoopState
    <3>2. headers' = Put(Pruned(headers, h), h, b)
      BY <2>2 DEF BlockIndexed
    <3>3. records' = Pruned(IF IndexesRunes(h) THEN Put(records, h, b) ELSE records, h)
      BY <2>2 DEF BlockIndexed
    <3>4. records = Kept(headers)
      BY DEF RecordsMatchHeaders
    <3> HIDE DEF h
    <3>5. Kept(Put(Pruned(headers, h), h, b))
            = Pruned(IF IndexesRunes(h) THEN Put(Kept(headers), h, b) ELSE Kept(headers), h)
      <4>1. CASE IndexesRunes(h)
        BY <3>1, <4>1 DEF Put, Pruned
      <4>2. CASE ~ IndexesRunes(h)
        BY <3>1, <4>2 DEF Put, Pruned
      <4> QED
        BY <4>1, <4>2
    <3> QED
      BY <3>2, <3>3, <3>4, <3>5 DEF RecordsMatchHeaders, IndexesRunes
  <2>3. ASSUME NEW l \in Loop, HandleReorg(l)
        PROVE  RecordsMatchHeaders'
    <3> DEFINE hs == RolledBack(l)
    <3>1. headers' = Without(headers, hs) /\ records' = Without(records, hs)
      BY <2>3 DEF HandleReorg
    <3>2. records = Kept(headers)
      BY DEF RecordsMatchHeaders
    <3> HIDE DEF hs
    <3>3. Kept(Without(headers, hs)) = Without(Kept(headers), hs)
      BY DEF Without
    <3> QED
      BY <3>1, <3>2, <3>3 DEF RecordsMatchHeaders, IndexesRunes
  <2> QED
    BY <2>1, <2>2, <2>3, HeadersChange
<1> QED
  BY <1>1, <1>2, TypeCorrect, PTL DEF Spec

-----------------------------------------------------------------------------
(* One index thread: what it read is current, and the headers are linked.  *)

SingleThread == \A l, m \in Loop : l = m

(***************************************************************************)
(* The inductive invariant.  HeadersLinked alone is not inductive: that    *)
(* the next header fits depends on what the thread read before its awaits. *)
(***************************************************************************)
ChainInv == TypeOK /\ Bounded /\ HeadersLinked /\ ReadsStayCurrent

LEMMA TopFacts ==
  ASSUME TypeOK, Bounded
  PROVE  ~ NoHeaders => /\ Top(headers) \in DOMAIN headers /\ Top(headers) \in Nat
                        /\ \A k \in DOMAIN headers : k <= Top(headers)
                        /\ NextHeight = Top(headers) + 1
                        /\ PrevBlock = headers[Top(headers)] /\ PrevBlock \in Block
BY TopIsLargest DEF TypeOK, TablesOK, NextHeight, PrevBlock

(***************************************************************************)
(* A block is added where it fits.                                         *)
(***************************************************************************)
Fits(l, b) ==
  /\ BlockIndexed(l, b)
  /\ b = loop[l].block /\ loop[l].pc \in {"block", "utxo", "rune"}
  /\ loop[l].height = NextHeight
  /\ loop[l].prev = PrevBlock
  /\ loop[l].prev \in {NoBlock, Parent[b]}

LEMMA ChainChange ==
  ASSUME ChainInv, [Next]_vars
  PROVE  \/ UNCHANGED <<headers, runeLog>>
         \/ \E l \in Loop, b \in Block : Fits(l, b)
         \/ \E l \in Loop : ForkFound(l) /\ HandleReorg(l)
<1> USE DEF stable
<1>1. CASE UNCHANGED vars \/ NodeStep \/ Stop \/ Upgrade
  BY <1>1 DEF vars, NodeStep, Stop, Upgrade
<1>2. ASSUME NEW l \in Loop, Start(l)
      PROVE  UNCHANGED <<headers, runeLog>>
  BY <1>2 DEF Start
<1>3. ASSUME NEW l \in Loop, Step(l)
      PROVE  \/ UNCHANGED <<headers, runeLog>>
             \/ \E b \in Block : Fits(l, b)
             \/ ForkFound(l) /\ HandleReorg(l)
  <2>1. CASE Fire(l) \/ HashFound(l) \/ HashMissing(l) \/ BlockForks(l)
             \/ BlockFails(l) \/ InputsFail(l) \/ ForkDeeper(l) \/ ForkFails(l) \/ CommitmentFails(l)
             \/ CommitmentPanics(l) \/ Notified(l)
    BY <2>1 DEF Fire, HashFound, HashMissing, BlockForks, BlockFails, InputsFail,
                ForkDeeper, ForkFails, CommitmentFails, CommitmentPanics, Notified
  <2>2. CASE ForkFound(l)
    BY <2>2 DEF ForkFound
  <2>3. CASE BlockFits(l) \/ InputsFetched(l) \/ CommitmentChecked(l)
    <3>1. loop[l].block \in Block
      BY <2>3 DEF BlockFits, InputsFetched, CommitmentChecked, ChainInv, TypeOK, LoopsOK,
                  Await
    <3>2. /\ loop[l].height = NextHeight /\ loop[l].prev = PrevBlock
          /\ loop[l].prev \in {NoBlock, Parent[loop[l].block]}
      BY <2>3 DEF BlockFits, InputsFetched, CommitmentChecked, ChainInv, ReadsStayCurrent
    <3>3. BlockIndexed(l, loop[l].block) \/ UNCHANGED <<headers, runeLog>>
      BY <2>3 DEF BlockFits, InputsFetched, CommitmentChecked, IndexBlock, IndexRuneBlock
    <3>4. loop[l].pc \in {"block", "utxo", "rune"}
      BY <2>3 DEF BlockFits, InputsFetched, CommitmentChecked
    <3> QED
      BY <3>1, <3>2, <3>3, <3>4 DEF Fits
  <2> QED
    BY <1>3, <2>1, <2>2, <2>3 DEF Step
<1> QED
  BY <1>1, <1>2, <1>3 DEF Next

(***************************************************************************)
(* What the header table is after a block was added.                       *)
(***************************************************************************)
LEMMA FitsHeaders ==
  ASSUME ChainInv, NEW l \in Loop, NEW b \in Block, Fits(l, b)
  PROVE  /\ headers' = Put(Pruned(headers, NextHeight), NextHeight, b)
         /\ NextHeight \in Nat
         /\ NextHeight \notin DOMAIN headers
         /\ \A k \in DOMAIN headers : k < NextHeight /\ k \in Nat
         /\ ~ NoHeaders => Parent[b] = headers[NextHeight - 1]
         /\ ~ NoHeaders => NextHeight - 1 \in DOMAIN headers
<1>1. headers' = Put(Pruned(headers, NextHeight), NextHeight, b)
  BY DEF Fits, BlockIndexed
<1>2. CASE NoHeaders
  BY <1>1, <1>2, IndexerAssumption DEF NoHeaders, NextHeight
<1>3. CASE ~ NoHeaders
  <2>1. /\ Top(headers) \in DOMAIN headers /\ Top(headers) \in Nat
        /\ \A k \in DOMAIN headers : k <= Top(headers) /\ k \in Nat
        /\ NextHeight = Top(headers) + 1 /\ PrevBlock = headers[Top(headers)]
        /\ PrevBlock # NoBlock
    BY <1>3, TopFacts, ChainAssumption DEF ChainInv, TypeOK, TablesOK
  <2>2. Parent[b] = PrevBlock
    BY <2>1 DEF Fits
  <2> QED
    BY <1>1, <1>3, <2>1, <2>2
<1> QED
  BY <1>2, <1>3

(***************************************************************************)
(* The heights handle_reorg removes are the top of the window, down to a   *)
(* height above the fork.                                                  *)
(***************************************************************************)
LEMMA RolledBackTop ==
  ASSUME ChainInv, NEW l \in Loop, ForkFound(l)
  PROVE  /\ ~ NoHeaders
         /\ loop[l].height = Top(headers) + 1
         /\ loop[l].depth \in 1..(MaxDepth - 1)
         /\ loop[l].height - loop[l].depth \in DOMAIN headers
         /\ \A h, k \in DOMAIN headers : h \in RolledBack(l) /\ h <= k => k \in RolledBack(l)
<1>1. /\ loop[l].height = NextHeight
      /\ loop[l].depth \in 1..(MaxDepth - 1)
      /\ loop[l].height - loop[l].depth \in DOMAIN headers
  BY DEF ForkFound, ChainInv, ReadsStayCurrent
<1>2. ~ NoHeaders
  BY <1>1 DEF NoHeaders
<1>3. /\ NextHeight = Top(headers) + 1 /\ Top(headers) \in Nat
      /\ \A k \in DOMAIN headers : k <= Top(headers) /\ k \in Nat
  BY <1>2, TopFacts DEF ChainInv, TypeOK, TablesOK
<1> QED
  BY <1>1, <1>2, <1>3, IndexerAssumption DEF RolledBack, IndexesRunes

LEMMA HeadersLinkedStep ==
  ASSUME ChainInv, [Next]_vars
  PROVE  HeadersLinked'
<1> USE DEF HeadersLinked, Consecutive, Linked
<1>1. CASE UNCHANGED headers
  BY <1>1 DEF ChainInv
<1>2. ASSUME NEW l \in Loop, NEW b \in Block, Fits(l, b)
      PROVE  HeadersLinked'
  <2> DEFINE n == NextHeight
             kept == {j \in DOMAIN headers : j > n - MaxDepth}
  <2>1. /\ headers' = Put(Pruned(headers, n), n, b)
        /\ n \in Nat /\ n \notin DOMAIN headers
        /\ \A k \in DOMAIN headers : k < n /\ k \in Nat
        /\ ~ NoHeaders => Parent[b] = headers[n - 1] /\ n - 1 \in DOMAIN headers
    BY <1>2, FitsHeaders
  <2> HIDE DEF n
  <2>2. /\ DOMAIN headers' = kept \cup {n} /\ headers'[n] = b
        /\ \A k \in kept : headers'[k] = headers[k]
    BY <2>1 DEF Put, Pruned
  <2>3. MaxDepth \in Nat /\ Consecutive /\ Linked
    BY IndexerAssumption DEF ChainInv
  <2>4. Consecutive'
    <3> SUFFICES ASSUME NEW h \in DOMAIN headers', NEW k \in DOMAIN headers',
                        NEW j \in h..k
                 PROVE  j \in kept \cup {n}
      BY <2>2
    <3>1. CASE k \in kept
      BY <2>1, <2>2, <2>3, <3>1
    <3>2. CASE k = n /\ j # n
      <4>1. h \in kept /\ ~ NoHeaders /\ j \in h..(n - 1)
        BY <2>1, <2>2, <3>2 DEF NoHeaders
      <4> QED
        BY <2>1, <2>3, <4>1
    <3> QED
      BY <2>2, <3>1, <3>2
  <2>5. Linked'
    <3> SUFFICES ASSUME NEW h \in DOMAIN headers', h + 1 \in DOMAIN headers'
                 PROVE  Parent[headers'[h + 1]] = headers'[h]
      OBVIOUS
    <3>1. h \in kept
      BY <2>1, <2>2
    <3>2. CASE h + 1 = n
      BY <2>1, <2>2, <3>1, <3>2 DEF NoHeaders
    <3>3. CASE h + 1 \in kept
      BY <2>2, <2>3, <3>1, <3>3
    <3> QED
      BY <2>2, <3>2, <3>3
  <2> QED
    BY <2>4, <2>5
<1>3. ASSUME NEW l \in Loop, ForkFound(l), HandleReorg(l)
      PROVE  HeadersLinked'
  <2>1. headers' = [k \in DOMAIN headers \ RolledBack(l) |-> headers[k]]
    BY <1>3 DEF HandleReorg, Without
  <2>2. \A h, k \in DOMAIN headers : h \in RolledBack(l) /\ h <= k => k \in RolledBack(l)
    BY <1>3, RolledBackTop
  <2>3. DOMAIN headers \subseteq Nat /\ Consecutive /\ Linked
    BY DEF ChainInv, TypeOK, TablesOK
  <2> QED
    BY <2>1, <2>2, <2>3
<1> QED
  BY <1>1, <1>2, <1>3, ChainChange

(***************************************************************************)
(* A thread between cycles, or notifying, holds nothing it read before.    *)
(***************************************************************************)
LEMMA CycleEndCurrent ==
  ASSUME SingleThread, LoopsOK, NEW l \in Loop,
         \/ Rearm(l) \/ Return(l) \/ Panic(l)
         \/ \E b \in Block : BlockIndexed(l, b)
         \/ Notified(l)
  PROVE  ReadsStayCurrent'
<1>1. loop'[l].pc \in {"timer", "off", "panicked", "notify"}
  <2>1. CASE Rearm(l) \/ Return(l) \/ Panic(l)
    BY <2>1 DEF Rearm, Rearmed, Return, Panic, Idle, LoopsOK
  <2>2. CASE \E b \in Block : BlockIndexed(l, b)
    <3>1. PICK b \in Block : BlockIndexed(l, b)
      BY <2>2
    <3>2. CASE loop[l].subs = <<>>
      <4>1. Rearm(l)
        BY <3>1, <3>2 DEF BlockIndexed, Rearm
      <4> QED
        BY <2>1, <4>1
    <3>3. CASE loop[l].subs # <<>>
      BY <3>1, <3>3 DEF BlockIndexed, LoopsOK, LoopState
    <3> QED
      BY <3>2, <3>3
  <2>3. CASE Notified(l)
    <3>1. CASE Rearm(l)
      BY <2>1, <3>1
    <3>2. CASE loop' = [loop EXCEPT ![l].next = @ + 1]
      BY <2>3, <3>2 DEF Notified, LoopsOK, LoopState
    <3> QED
      BY <2>3, <3>1, <3>2 DEF Notified
  <2> QED
    BY <2>1, <2>2, <2>3
<1>2. \A m \in Loop : m = l
  BY DEF SingleThread
<1> QED
  BY <1>1, <1>2 DEF ReadsStayCurrent

LEMMA ProbeCurrent ==
  ASSUME SingleThread, ChainInv, NEW l \in Loop, NEW b \in Block, NEW depth \in Nat,
         depth >= 1, Probe(l, b, depth), UNCHANGED headers,
         loop[l].height = NextHeight, loop[l].prev = PrevBlock
  PROVE  ReadsStayCurrent'
<1> DEFINE h == loop[l].height - depth
<1>1. CASE Return(l) \/ Panic(l)
  BY <1>1, CycleEndCurrent DEF ChainInv, TypeOK
<1>2. CASE /\ depth < MaxDepth /\ h \in DOMAIN headers
           /\ loop' = [loop EXCEPT ![l].pc = "detect", ![l].block = b,
                                   ![l].depth = depth, ![l].seen = headers[h]]
  <2>1. /\ loop'[l].pc = "detect" /\ loop'[l].depth = depth /\ loop'[l].seen = headers[h]
        /\ loop'[l].height = loop[l].height /\ loop'[l].prev = loop[l].prev
    BY <1>2 DEF ChainInv, TypeOK, LoopsOK, LoopState
  <2>2. depth \in 1..(MaxDepth - 1)
    BY <1>2, IndexerAssumption
  <2>3. NextHeight' = NextHeight /\ PrevBlock' = PrevBlock
    BY DEF NextHeight, PrevBlock, NoHeaders, Top
  <2>4. \A m \in Loop : m = l
    BY DEF SingleThread
  <2> QED
    BY <1>2, <2>1, <2>2, <2>3, <2>4 DEF ReadsStayCurrent
<1> QED
  BY <1>1, <1>2 DEF Probe

(***************************************************************************)
(* A step of the thread that leaves the headers alone and moves it to the  *)
(* next await of the same cycle.                                           *)
(***************************************************************************)
LEMMA SameCycleCurrent ==
  ASSUME SingleThread, LoopsOK, NEW l \in Loop, UNCHANGED headers,
         loop'[l].pc \in {"hash", "block", "utxo", "rune"},
         loop'[l].height = NextHeight, loop'[l].prev = PrevBlock,
         loop'[l].pc \in {"utxo", "rune"} =>
           loop'[l].prev \in {NoBlock, Parent[loop'[l].block]}
  PROVE  ReadsStayCurrent'
<1>1. NextHeight' = NextHeight /\ PrevBlock' = PrevBlock
  BY DEF NextHeight, PrevBlock, NoHeaders, Top
<1>2. \A m \in Loop : m = l
  BY DEF SingleThread
<1> QED
  BY <1>1, <1>2 DEF ReadsStayCurrent

LEMMA ReadsStayCurrentStep ==
  ASSUME SingleThread, ChainInv, [Next]_vars
  PROVE  ReadsStayCurrent'
<1> USE DEF stable
<1>0. LoopsOK /\ HeadersLinked /\ ReadsStayCurrent
  BY DEF ChainInv, TypeOK
<1>1. CASE UNCHANGED <<headers, loop>>
  <2>1. NextHeight' = NextHeight /\ PrevBlock' = PrevBlock
    BY <1>1 DEF NextHeight, PrevBlock, NoHeaders, Top
  <2> QED
    BY <1>0, <1>1, <2>1 DEF ReadsStayCurrent
<1>2. CASE NodeStep \/ Stop \/ UNCHANGED vars
  BY <1>1, <1>2 DEF NodeStep, Stop, vars
<1>3. CASE Upgrade
  BY <1>3 DEF Upgrade, Idle, ReadsStayCurrent
<1>4. ASSUME NEW l \in Loop, Start(l)
      PROVE  ReadsStayCurrent'
  BY <1>0, <1>4 DEF Start, Idle, SingleThread, ReadsStayCurrent, LoopsOK
<1>5. ASSUME NEW l \in Loop, Step(l)
      PROVE  ReadsStayCurrent'
  <2>0. /\ loop \in [Loop -> LoopState] /\ loop[l] \in LoopState
        /\ loop[l].pc \in Await \ {"timer", "hash"} => loop[l].block \in Block
    BY <1>0 DEF LoopsOK
  <2>1. CASE Fire(l)
    <3>1. /\ loop'[l].pc = "hash" /\ loop'[l].height = NextHeight
          /\ loop'[l].prev = PrevBlock
      BY <2>0, <2>1 DEF Fire, LoopState
    <3> QED
      BY <1>0, <2>1, <3>1, SameCycleCurrent DEF Fire
  <2>2. CASE HashFound(l)
    <3>1. /\ loop'[l].pc = "block" /\ loop'[l].height = loop[l].height
          /\ loop'[l].prev = loop[l].prev
      BY <2>0, <2>2 DEF HashFound, LoopState
    <3>2. loop[l].height = NextHeight /\ loop[l].prev = PrevBlock
      BY <1>0, <2>2 DEF HashFound, ReadsStayCurrent
    <3> QED
      BY <1>0, <2>2, <3>1, <3>2, SameCycleCurrent DEF HashFound
  <2>3. CASE HashMissing(l) \/ BlockFails(l) \/ InputsFail(l) \/ ForkFound(l) \/ ForkFails(l)
             \/ CommitmentChecked(l) \/ CommitmentFails(l) \/ CommitmentPanics(l)
             \/ Notified(l)
    <3>1. CASE CommitmentChecked(l)
      <4>1. BlockIndexed(l, loop[l].block) /\ loop[l].block \in Block
        BY <2>0, <3>1 DEF CommitmentChecked, Await
      <4> QED
        BY <1>0, <4>1, CycleEndCurrent
    <3>2. CASE ~ CommitmentChecked(l)
      BY <1>0, <2>3, <3>2, CycleEndCurrent
         DEF HashMissing, BlockFails, InputsFail, ForkFound, ForkFails, HandleReorg,
             CommitmentFails, CommitmentPanics
    <3> QED
      BY <3>1, <3>2
  <2>4. CASE BlockForks(l) \/ ForkDeeper(l)
    <3>1. /\ UNCHANGED headers /\ loop[l].block \in Block
          /\ loop[l].height = NextHeight /\ loop[l].prev = PrevBlock
      BY <1>0, <2>0, <2>4 DEF BlockForks, ForkDeeper, ReadsStayCurrent, Await
    <3>2. CASE BlockForks(l)
      BY <3>1, <3>2, ProbeCurrent DEF BlockForks
    <3>3. CASE ForkDeeper(l)
      <4>1. loop[l].depth \in Nat
        BY <2>0 DEF LoopState
      <4>2. Probe(l, loop[l].block, loop[l].depth + 1)
        BY <3>3 DEF ForkDeeper
      <4>3. loop[l].depth + 1 \in Nat /\ loop[l].depth + 1 >= 1
        BY <4>1
      <4> QED
        BY <3>1, <4>2, <4>3, ProbeCurrent
    <3> QED
      BY <2>4, <3>2, <3>3
  <2>5. CASE BlockFits(l) \/ InputsFetched(l)
    <3>1. /\ loop[l].block \in Block
          /\ loop[l].height = NextHeight /\ loop[l].prev = PrevBlock
          /\ loop[l].prev \in {NoBlock, Parent[loop[l].block]}
      BY <1>0, <2>0, <2>5 DEF BlockFits, InputsFetched, ReadsStayCurrent, Await
    <3>2. \/ BlockIndexed(l, loop[l].block) \/ Panic(l)
          \/ /\ UNCHANGED headers
             /\ \E pc \in {"utxo", "rune"} :
                  loop' = [loop EXCEPT ![l].pc = pc, ![l].block = loop[l].block]
      BY <2>5 DEF BlockFits, InputsFetched, IndexBlock, IndexRuneBlock
    <3>3. CASE BlockIndexed(l, loop[l].block) \/ Panic(l)
      BY <1>0, <3>1, <3>3, CycleEndCurrent
    <3>4. ASSUME UNCHANGED headers, NEW pc \in {"utxo", "rune"},
                 loop' = [loop EXCEPT ![l].pc = pc, ![l].block = loop[l].block]
          PROVE  ReadsStayCurrent'
      <4>1. /\ loop'[l].pc = pc /\ loop'[l].block = loop[l].block
            /\ loop'[l].height = loop[l].height /\ loop'[l].prev = loop[l].prev
        BY <2>0, <3>4 DEF LoopState
      <4> QED
        BY <1>0, <3>1, <3>4, <4>1, SameCycleCurrent
    <3> QED
      BY <3>2, <3>3, <3>4
  <2> QED
    BY <1>5, <2>1, <2>2, <2>3, <2>4, <2>5 DEF Step
<1> QED
  BY <1>2, <1>3, <1>4, <1>5 DEF Next

LEMMA ChainInvHolds ==
  ASSUME SingleThread
  PROVE  Spec => []ChainInv
<1> DEFINE Chained == HeadersLinked /\ ReadsStayCurrent
<1>1. Init => Chained
  BY DEF Init, HeadersLinked, Consecutive, Linked, ReadsStayCurrent, Idle
<1>2. TypeInv /\ Chained /\ [Next]_vars => Chained'
  <2> SUFFICES ASSUME TypeInv, Chained, [Next]_vars PROVE Chained'
    OBVIOUS
  <2>1. ChainInv
    BY DEF ChainInv, TypeInv
  <2> QED
    BY <2>1, HeadersLinkedStep, ReadsStayCurrentStep
<1>3. TypeInv /\ Chained => ChainInv
  BY DEF ChainInv, TypeInv
<1> QED
  BY <1>1, <1>2, <1>3, TypeInvHolds, PTL DEF Spec

(***************************************************************************)
(* HeadersLinked: with one index thread the headers kept are consecutive   *)
(* blocks of one chain, whatever fails, is interrupted or reorganised.     *)
(***************************************************************************)
THEOREM HeadersStayLinked ==
  ASSUME SingleThread
  PROVE  Spec => []HeadersLinked
<1>1. ChainInv => HeadersLinked
  BY DEF ChainInv
<1> QED
  BY <1>1, ChainInvHolds, PTL

(***************************************************************************)
(* ReadsStayCurrent: with one index thread nothing that update_index and   *)
(* detect_reorg keep across an await is stale when they use it.            *)
(***************************************************************************)
THEOREM ReadsCurrent ==
  ASSUME SingleThread
  PROVE  Spec => []ReadsStayCurrent
<1>1. ChainInv => ReadsStayCurrent
  BY DEF ChainInv
<1> QED
  BY <1>1, ChainInvHolds, PTL

(***************************************************************************)
(* LatestStaysKnown: with one index thread get_latest_block has an answer  *)
(* from the first indexed block on: handle_reorg stops above the fork.     *)
(***************************************************************************)
THEOREM LatestKnown ==
  ASSUME SingleThread
  PROVE  Spec => LatestStaysKnown
<1>1. ChainInv /\ [Next]_vars => [~ NoHeaders => DOMAIN headers' # {}]_vars
  <2> SUFFICES ASSUME ChainInv, [Next]_vars, ~ NoHeaders
               PROVE  DOMAIN headers' # {}
    OBVIOUS
  <2>1. CASE UNCHANGED headers
    BY <2>1 DEF NoHeaders
  <2>2. ASSUME NEW l \in Loop, NEW b \in Block, Fits(l, b)
        PROVE  DOMAIN headers' # {}
    BY <2>2 DEF Fits, BlockIndexed, Put
  <2>3. ASSUME NEW l \in Loop, ForkFound(l), HandleReorg(l)
        PROVE  DOMAIN headers' # {}
    <3> DEFINE fork == loop[l].height - loop[l].depth
    <3>1. fork \in DOMAIN headers /\ fork \in Nat
      BY <2>3, RolledBackTop DEF ChainInv, TypeOK, TablesOK
    <3>2. fork \notin RolledBack(l)
      BY <3>1, RolledBackTop DEF RolledBack, ChainInv, TypeOK, LoopsOK, LoopState
    <3> QED
      BY <2>3, <3>1, <3>2 DEF HandleReorg, Without
  <2> QED
    BY <2>1, <2>2, <2>3, ChainChange
<1> QED
  BY <1>1, ChainInvHolds, PTL DEF Spec, LatestStaysKnown

-----------------------------------------------------------------------------
(* The refinement of ChainView.tla.                                        *)

(***************************************************************************)
(* The header table is a function, so that removing nothing changes        *)
(* nothing.                                                                *)
(***************************************************************************)
HeadersFunction == headers = [h \in DOMAIN headers |-> headers[h]]

LEMMA HeadersFunctionHolds == Spec => []HeadersFunction
<1>1. Init => HeadersFunction
  BY DEF Init, HeadersFunction
<1>2. TypeOK /\ HeadersFunction /\ [Next]_vars => HeadersFunction'
  <2> SUFFICES ASSUME TypeOK, HeadersFunction, [Next]_vars PROVE HeadersFunction'
    OBVIOUS
  <2> QED
    BY HeadersChange DEF HeadersFunction, BlockIndexed, HandleReorg, Put, Pruned, Without
<1> QED
  BY <1>1, <1>2, TypeCorrect, PTL DEF Spec

(***************************************************************************)
(* Indexing a block is a step First or Extend of the view.                 *)
(***************************************************************************)
LEMMA FitsRefines ==
  ASSUME ChainInv, NEW l \in Loop, NEW b \in Block, Fits(l, b)
  PROVE  View!Next
<1> DEFINE n == NextHeight
<1>1. /\ headers' = Put(Pruned(headers, n), n, b)
      /\ n \in Nat /\ n \notin DOMAIN headers
      /\ ~ NoHeaders => Parent[b] = headers[n - 1]
  BY FitsHeaders
<1>2. headers' = View!Grown(headers, n, b)
  BY <1>1 DEF View!Grown, Put, Pruned
<1>3. CASE NoHeaders
  BY <1>2, <1>3 DEF View!Next, View!First, NoHeaders, NextHeight
<1>4. CASE ~ NoHeaders
  <2>1. n = Top(headers) + 1 /\ Top(headers) \in Nat
    BY <1>4, TopFacts DEF ChainInv
  <2>2. View!Top(headers) = Top(headers)
    BY DEF View!Top, Top
  <2>3. n - 1 = Top(headers)
    BY <2>1
  <2> QED
    BY <1>1, <1>2, <1>4, <2>1, <2>2, <2>3 DEF View!Next, View!Extend, NoHeaders
<1> QED
  BY <1>3, <1>4

(***************************************************************************)
(* Rolling back is a step Rollback of the view, or leaves it as it is.     *)
(***************************************************************************)
LEMMA RollbackRefines ==
  ASSUME ChainInv, HeadersFunction, NEW l \in Loop, ForkFound(l), HandleReorg(l)
  PROVE  [View!Next]_headers
<1> DEFINE t == Top(headers)
           low == loop[l].height - loop[l].depth + 1
           first == IF low < FirstRuneHeight THEN FirstRuneHeight ELSE low
<1>1. /\ ~ NoHeaders /\ loop[l].height = t + 1 /\ loop[l].depth \in 1..(MaxDepth - 1)
      /\ low - 1 \in DOMAIN headers
  BY RolledBackTop, IndexerAssumption DEF ChainInv, TypeOK, TablesOK, LoopsOK, LoopState
<1>2. /\ t \in DOMAIN headers /\ t \in Nat
      /\ \A k \in DOMAIN headers : k <= t /\ k \in Nat
      /\ FirstRuneHeight \in Nat /\ MaxDepth \in Nat /\ low \in Int
  BY <1>1, TopFacts, IndexerAssumption DEF ChainInv, TypeOK, TablesOK
<1>3. headers' = [k \in DOMAIN headers \ RolledBack(l) |-> headers[k]]
  BY DEF HandleReorg, Without
<1>4. RolledBack(l) = IF IndexRunes THEN first..t ELSE {}
  BY <1>1, <1>2 DEF RolledBack, IndexesRunes
<1>5. CASE ~ IndexRunes \/ first > t
  <2>1. RolledBack(l) \cap DOMAIN headers = {}
    BY <1>2, <1>4, <1>5
  <2>2. DOMAIN headers \ RolledBack(l) = DOMAIN headers
    BY <2>1
  <2>3. headers' = headers
    BY <1>3, <2>2 DEF HeadersFunction
  <2> QED
    BY <2>3
<1>6. CASE IndexRunes /\ first <= t
  <2> DEFINE m == t - first + 1
  <2>1. m \in 1..(MaxDepth - 2) /\ t - m = first - 1
    BY <1>1, <1>2, <1>6
  <2>2. first - 1 \in DOMAIN headers
    BY <1>1, <1>2, <1>6 DEF ChainInv, HeadersLinked, Consecutive
  <2>3. DOMAIN headers \ RolledBack(l) = {j \in DOMAIN headers : j <= first - 1}
    BY <1>2, <1>4, <1>6
  <2>4. headers' = View!Shrunk(headers, t - m)
    BY <1>3, <2>1, <2>3 DEF View!Shrunk
  <2>5. View!Top(headers) = t
    BY DEF View!Top, Top
  <2> HIDE DEF m, first, low, t
  <2> QED
    BY <1>1, <2>1, <2>2, <2>4, <2>5 DEF View!Next, View!Rollback, NoHeaders
<1> QED
  BY <1>2, <1>5, <1>6

(***************************************************************************)
(* ImplementsChainView: with one index thread the header table is the      *)
(* window the clients are promised: every step of the loop is one of       *)
(* First, Extend and Rollback, or leaves the window alone.                 *)
(***************************************************************************)
THEOREM IndexerImplementsChainView ==
  ASSUME SingleThread
  PROVE  Spec => ImplementsChainView
<1>1. Init => View!Init
  BY DEF Init, View!Init
<1>2. ChainInv /\ HeadersFunction /\ [Next]_vars => [View!Next]_headers
  BY ChainChange, FitsRefines, RollbackRefines
<1> QED
  BY <1>1, <1>2, ChainInvHolds, HeadersFunctionHolds, PTL
     DEF Spec, ImplementsChainView, View!Spec
=============================================================================
