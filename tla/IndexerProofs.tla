---------------------------- MODULE IndexerProofs ---------------------------
(***************************************************************************)
(* Proofs about the indexing loop, for every block tree, every depth and   *)
(* window, every set of failing calls and any number of interventions.     *)
(***************************************************************************)
EXTENDS IndexerProperties, FiniteSetTheorems, WellFoundedInduction, TLAPS

(***************************************************************************)
(* There is a bound on the heights in the header table.                    *)
(***************************************************************************)
Bounded == \E n \in Nat : \A h \in DOMAIN headers : h <= n

(***************************************************************************)
(* A non-empty set of natural numbers below a bound has a largest element. *)
(***************************************************************************)
LEMMA LargestNatural ==
  ASSUME NEW S, S \subseteq Nat, S # {}, NEW n \in Nat, \A h \in S : h <= n
  PROVE  \E h \in S : \A k \in S : k <= h
<1> DEFINE T == {m \in Nat : \E h \in S : m + h = n}
<1>1. T \subseteq Nat /\ T # {}
  <2>1. PICK h \in S : TRUE
    OBVIOUS
  <2>2. n - h \in Nat /\ (n - h) + h = n
    BY <2>1
  <2> QED
    BY <2>1, <2>2
<1>2. PICK x \in T : \A y \in T : ~ (<<y, x>> \in OpToRel(<, Nat))
  <2>1. IsWellFoundedOn(OpToRel(<, Nat), Nat)
    BY NatLessThanWellFounded
  <2> HIDE DEF T
  <2> QED
    BY <1>1, <2>1, WFMin
<1>3. \A y \in T : ~ (y < x)
  BY <1>1, <1>2 DEF OpToRel
<1>4. PICK h \in S : x + h = n
  BY <1>2
<1>5. \A k \in S : k <= h
  <2> TAKE k \in S
  <2>1. n - k \in Nat /\ (n - k) + k = n
    OBVIOUS
  <2>2. ~ (n - k < x)
    BY <1>3, <2>1
  <2> QED
    BY <1>1, <1>4, <2>2
<1> QED
  BY <1>5

(***************************************************************************)
(* Top is the largest height with a header.                                *)
(***************************************************************************)
LEMMA TopIsLargest ==
  ASSUME TypeOK, Bounded, ~ NoHeaders
  PROVE  /\ Top(headers) \in DOMAIN headers
         /\ Top(headers) \in Nat
         /\ \A k \in DOMAIN headers : k <= Top(headers)
<1>1. PICK n \in Nat : \A h \in DOMAIN headers : h <= n
  BY DEF Bounded
<1>2. DOMAIN headers \subseteq Nat /\ DOMAIN headers # {}
  BY DEF TypeOK, TablesOK, NoHeaders
<1>3. \E h \in DOMAIN headers : \A k \in DOMAIN headers : k <= h
  BY <1>1, <1>2, LargestNatural
<1> QED
  BY <1>2, <1>3 DEF Top

-----------------------------------------------------------------------------
(* The type invariant.                                                     *)

LEMMA NodeBlockHashType ==
  ASSUME ChainTypeOK, NEW h \in Nat, NodeBlockHash(h) # NoBlock
  PROVE  NodeBlockHash(h) \in Block
BY ChainAssumption DEF ChainTypeOK, NodeBlockHash

LEMMA IdleType ==
  ASSUME NEW pc \in Await \cup Ended, NEW subs \in Seq(Subscriber)
  PROVE  Idle(pc, subs) \in LoopState
BY DEF Idle, LoopState

(***************************************************************************)
(* A thread that moves to a well-formed state leaves well-formed threads.  *)
(***************************************************************************)
LEMMA MoveType ==
  ASSUME LoopsOK, NEW l \in Loop, NEW r \in LoopState,
         r.pc \in Await \ {"timer", "hash"} => r.block \in Block,
         r.pc = "notify" => r.next \in 1..Len(r.subs),
         loop' = [loop EXCEPT ![l] = r]
  PROVE  LoopsOK'
<1>1. loop' \in [Loop -> LoopState]
  BY DEF LoopsOK
<1>2. ASSUME NEW m \in Loop
      PROVE  loop'[m] = IF m = l THEN r ELSE loop[m]
  BY DEF LoopsOK
<1> QED
  BY <1>1, <1>2 DEF LoopsOK

(***************************************************************************)
(* A cycle that ends leaves a well-formed thread.                          *)
(***************************************************************************)
LEMMA CycleEndType ==
  ASSUME LoopsOK, NEW l \in Loop, Rearm(l) \/ Return(l) \/ Panic(l)
  PROVE  LoopsOK'
<1>1. loop[l].subs \in Seq(Subscriber) /\ <<>> \in Seq(Subscriber)
  BY DEF LoopsOK, LoopState
<1>2. PICK pc \in Ended \cup {"timer"}, subs \in Seq(Subscriber) :
        loop' = [loop EXCEPT ![l] = Idle(pc, subs)]
  BY <1>1 DEF Rearm, Rearmed, Return, Panic, Ended
<1>3. Idle(pc, subs) \in LoopState
  BY IdleType DEF Await
<1>4. loop' \in [Loop -> LoopState]
  BY <1>2, <1>3 DEF LoopsOK
<1>5. Idle(pc, subs).pc = pc
  BY DEF Idle
<1> QED
  BY <1>2, <1>4, <1>5 DEF LoopsOK, Await, Ended

LEMMA BlockIndexedType ==
  ASSUME TypeOK, NEW l \in Loop, NEW b \in Block, BlockIndexed(l, b),
         intact' \in BOOLEAN, utxo' \subseteq Outpoint
  PROVE  TablesOK' /\ LoopsOK'
<1> DEFINE h == loop[l].height
<1>1. h \in Nat /\ loop[l] \in LoopState
  BY DEF TypeOK, LoopsOK, LoopState
<1>2. DOMAIN headers' \subseteq Nat /\ \A k \in DOMAIN headers' : headers'[k] \in Block
  BY <1>1 DEF TypeOK, TablesOK, BlockIndexed, Put, Pruned
<1>3. DOMAIN records' \subseteq Nat /\ \A k \in DOMAIN records' : records'[k] \in Block
  BY <1>1 DEF TypeOK, TablesOK, BlockIndexed, Put, Pruned
<1>4. runeLog' \in Seq(Block)
  BY DEF TypeOK, TablesOK, BlockIndexed
<1>5. LoopsOK'
  <2>1. CASE loop[l].subs = <<>>
    <3>1. Rearm(l)
      BY <2>1 DEF BlockIndexed, Rearm
    <3> QED
      BY <3>1, CycleEndType DEF TypeOK
  <2>2. CASE loop[l].subs # <<>>
    <3>1. loop' = [loop EXCEPT ![l] =
                     [@ EXCEPT !.pc = "notify", !.block = b, !.next = 1,
                               !.depth = 0, !.seen = NoBlock]]
      BY <2>2 DEF BlockIndexed
    <3>2. 1 \in 1..Len(loop[l].subs)
      BY <1>1, <2>2 DEF LoopState
    <3>3. loop' \in [Loop -> LoopState]
      BY <1>1, <3>1 DEF TypeOK, LoopsOK, LoopState, Await
    <3> QED
      BY <1>1, <3>1, <3>2, <3>3 DEF TypeOK, LoopsOK, LoopState
  <2> QED
    BY <2>1, <2>2
<1> QED
  BY <1>2, <1>3, <1>4, <1>5 DEF TablesOK

LEMMA IndexRuneBlockType ==
  ASSUME TypeOK, NEW l \in Loop, NEW b \in Block, IndexRuneBlock(l, b),
         utxo' \subseteq Outpoint
  PROVE  TablesOK' /\ LoopsOK'
<1>1. intact' \in BOOLEAN
  BY DEF IndexRuneBlock, TypeOK, TablesOK
<1>2. CASE BlockIndexed(l, b)
  BY <1>1, <1>2, BlockIndexedType
<1>3. CASE /\ loop' = [loop EXCEPT ![l].pc = "rune", ![l].block = b]
           /\ UNCHANGED <<headers, records, runeLog>>
  <2>1. TablesOK'
    BY <1>1, <1>3 DEF TypeOK, TablesOK
  <2>2. LoopsOK'
    <3> DEFINE r == [loop[l] EXCEPT !.pc = "rune", !.block = b]
    <3>1. r \in LoopState /\ r.pc = "rune" /\ r.block = b
      BY DEF TypeOK, LoopsOK, LoopState, Await
    <3>2. loop' = [loop EXCEPT ![l] = r]
      BY <1>3 DEF TypeOK, LoopsOK
    <3> HIDE DEF r
    <3> QED
      BY <3>1, <3>2, MoveType DEF TypeOK
  <2> QED
    BY <2>1, <2>2
<1> QED
  BY <1>2, <1>3 DEF IndexRuneBlock

LEMMA IndexBlockType ==
  ASSUME TypeOK, NEW l \in Loop, NEW b \in Block, IndexBlock(l, b)
  PROVE  TablesOK' /\ LoopsOK'
<1>1. Spends[b] \subseteq Outpoint /\ Creates[b] \subseteq Outpoint
  BY IndexerAssumption
<1>2. utxo \subseteq Outpoint
  BY DEF TypeOK, TablesOK
<1>3. CASE IndexRuneBlock(l, b) /\ utxo' \in {utxo, (utxo \ Spends[b]) \cup Creates[b]}
  <2>1. utxo' \subseteq Outpoint
    BY <1>1, <1>2, <1>3
  <2> QED
    BY <1>3, <2>1, IndexRuneBlockType
<1>4. CASE Panic(l) /\ UNCHANGED stable
  BY <1>4, CycleEndType DEF TypeOK, TablesOK, stable
<1>5. CASE /\ utxo' \subseteq utxo
           /\ loop' = [loop EXCEPT ![l].pc = "utxo", ![l].block = b]
           /\ UNCHANGED <<headers, records, runeLog, intact>>
  <2>1. TablesOK'
    BY <1>2, <1>5 DEF TypeOK, TablesOK
  <2>2. LoopsOK'
    <3> DEFINE r == [loop[l] EXCEPT !.pc = "utxo", !.block = b]
    <3>1. r \in LoopState /\ r.pc = "utxo" /\ r.block = b
      BY DEF TypeOK, LoopsOK, LoopState, Await
    <3>2. loop' = [loop EXCEPT ![l] = r]
      BY <1>5 DEF TypeOK, LoopsOK
    <3> HIDE DEF r
    <3> QED
      BY <3>1, <3>2, MoveType DEF TypeOK
  <2> QED
    BY <2>1, <2>2
<1> QED
  BY <1>3, <1>4, <1>5 DEF IndexBlock

LEMMA ProbeType ==
  ASSUME TypeOK, NEW l \in Loop, NEW b \in Block, NEW depth \in Nat, Probe(l, b, depth)
  PROVE  LoopsOK'
<1>1. CASE Return(l) \/ Panic(l)
  BY <1>1, CycleEndType DEF TypeOK
<1>2. CASE loop[l].height - depth \in DOMAIN headers
           /\ loop' = [loop EXCEPT ![l].pc = "detect", ![l].block = b,
                                   ![l].depth = depth,
                                   ![l].seen = headers[loop[l].height - depth]]
  <2>1. headers[loop[l].height - depth] \in Block
    BY <1>2 DEF TypeOK, TablesOK
  <2> DEFINE r == [loop[l] EXCEPT !.pc = "detect", !.block = b, !.depth = depth,
                                  !.seen = headers[loop[l].height - depth]]
  <2>2. r \in LoopState /\ r.pc = "detect" /\ r.block = b
    BY <2>1 DEF TypeOK, LoopsOK, LoopState, Await
  <2>3. loop' = [loop EXCEPT ![l] = r]
    BY <1>2 DEF TypeOK, LoopsOK
  <2> HIDE DEF r
  <2> QED
    BY <2>2, <2>3, MoveType DEF TypeOK
<1> QED
  BY <1>1, <1>2 DEF Probe

LEMMA RolledBackFinite ==
  ASSUME TypeOK, NEW l \in Loop
  PROVE  Cardinality(DOMAIN records \cap RolledBack(l)) \in Nat
<1> DEFINE I == (loop[l].height - loop[l].depth + 1)..(loop[l].height - 1)
<1>1. loop[l].height \in Nat /\ loop[l].depth \in Nat
  BY DEF TypeOK, LoopsOK, LoopState
<1>2. IsFiniteSet(I)
  <2>1. loop[l].height - loop[l].depth + 1 \in Int /\ loop[l].height - 1 \in Int
    BY <1>1
  <2> QED
    BY <2>1, FS_Interval
<1>3. DOMAIN records \cap RolledBack(l) \subseteq I
  BY DEF RolledBack
<1>4. IsFiniteSet(DOMAIN records \cap RolledBack(l))
  BY <1>2, <1>3, FS_Subset
<1> QED
  BY <1>4, FS_CardinalityType

LEMMA HandleReorgType ==
  ASSUME TypeOK, NEW l \in Loop, HandleReorg(l), UNCHANGED <<intact, utxo>>
  PROVE  TablesOK' /\ LoopsOK'
<1> DEFINE undone == Cardinality(DOMAIN records \cap RolledBack(l))
<1>1. LoopsOK'
  BY CycleEndType DEF HandleReorg, TypeOK
<1>2. undone \in Nat
  BY RolledBackFinite
<1>3. runeLog' \in Seq(Block)
  <2>1. CASE undone <= Len(runeLog)
    <3>1. runeLog' = SubSeq(runeLog, 1, Len(runeLog) - undone)
      BY <2>1 DEF HandleReorg
    <3> HIDE DEF undone
    <3> QED
      BY <1>2, <2>1, <3>1 DEF TypeOK, TablesOK
  <2>2. CASE ~ (undone <= Len(runeLog))
    BY <2>2 DEF HandleReorg
  <2> QED
    BY <2>1, <2>2
<1>4. /\ DOMAIN headers' \subseteq Nat
      /\ \A h \in DOMAIN headers' : headers'[h] \in Block
      /\ DOMAIN records' \subseteq Nat
      /\ \A h \in DOMAIN records' : records'[h] \in Block
  BY DEF HandleReorg, Without, TypeOK, TablesOK
<1> QED
  BY <1>1, <1>3, <1>4 DEF TypeOK, TablesOK

(***************************************************************************)
(* Every step of an index thread preserves the type invariant.             *)
(***************************************************************************)
LEMMA StepType ==
  ASSUME TypeOK, Bounded, NEW l \in Loop, Step(l)
  PROVE  TypeOK'
<1> USE DEF TypeOK, stable
<1>0. /\ ChainTypeOK' /\ subscribers' \in SubscriberLists /\ shutting' \in BOOLEAN
      /\ interventions' \in 0..MaxInterventions
  BY DEF Step, Fire, HashFound, HashMissing, BlockFits, BlockForks, BlockFails, InputsFail,
         ForkFound, ForkDeeper, ForkFails, InputsFetched, CommitmentChecked,
         CommitmentFails, CommitmentPanics, Notified, ChainTypeOK
<1>1. loop[l] \in LoopState /\ loop[l].height \in Nat /\ loop[l].depth \in Nat
  BY DEF LoopsOK, LoopState
<1>2. CASE Fire(l)
  <2> DEFINE r == [loop[l] EXCEPT !.pc = "hash", !.height = NextHeight, !.prev = PrevBlock]
  <2>1. NextHeight \in Nat /\ PrevBlock \in Block \cup {NoBlock}
    BY TopIsLargest, IndexerAssumption DEF NextHeight, PrevBlock, TablesOK
  <2>2. r \in LoopState /\ r.pc = "hash"
    BY <1>1, <2>1 DEF LoopState, Await
  <2>3. loop' = [loop EXCEPT ![l] = r]
    BY <1>2 DEF Fire, LoopsOK
  <2>4. LoopsOK'
    <3> HIDE DEF r
    <3> QED
      BY <2>2, <2>3, MoveType
  <2> QED
    BY <1>0, <1>2, <2>4 DEF Fire, TablesOK
<1>3. CASE HashFound(l)
  <2> DEFINE r == [loop[l] EXCEPT !.pc = "block", !.block = NodeBlockHash(loop[l].height)]
  <2>1. NodeBlockHash(loop[l].height) \in Block
    BY <1>1, <1>3, NodeBlockHashType DEF HashFound
  <2>2. r \in LoopState /\ r.pc = "block" /\ r.block \in Block
    BY <1>1, <2>1 DEF LoopState, Await
  <2>3. loop' = [loop EXCEPT ![l] = r]
    BY <1>3 DEF HashFound, LoopsOK
  <2>4. LoopsOK'
    <3> HIDE DEF r
    <3> QED
      BY <2>2, <2>3, MoveType
  <2> QED
    BY <1>0, <1>3, <2>4 DEF HashFound, TablesOK
<1>4. CASE HashMissing(l) \/ BlockFails(l) \/ InputsFail(l) \/ ForkFails(l)
  <2>1. LoopsOK'
    BY <1>4, CycleEndType DEF HashMissing, BlockFails, InputsFail, ForkFails
  <2> QED
    BY <1>0, <1>4, <2>1 DEF HashMissing, BlockFails, InputsFail, ForkFails, TablesOK
<1>5. CASE BlockFits(l)
  <2>1. loop[l].block \in Block
    BY <1>5 DEF BlockFits, LoopsOK, Await
  <2>2. TablesOK' /\ LoopsOK'
    BY <1>5, <2>1, IndexBlockType DEF BlockFits
  <2> QED
    BY <1>0, <1>5, <2>2 DEF BlockFits
<1>6. CASE BlockForks(l) \/ ForkDeeper(l)
  <2>1. loop[l].block \in Block
    BY <1>6 DEF BlockForks, ForkDeeper, LoopsOK, Await
  <2>2. PICK depth \in Nat : Probe(l, loop[l].block, depth)
    BY <1>1, <1>6 DEF BlockForks, ForkDeeper
  <2>3. LoopsOK'
    BY <2>1, <2>2, ProbeType
  <2> QED
    BY <1>0, <1>6, <2>3 DEF BlockForks, ForkDeeper, TablesOK
<1>7. CASE ForkFound(l)
  <2>1. TablesOK' /\ LoopsOK'
    BY <1>7, HandleReorgType DEF ForkFound
  <2> QED
    BY <1>0, <1>7, <2>1 DEF ForkFound
<1>8. CASE InputsFetched(l)
  <2>1. loop[l].block \in Block
    BY <1>8 DEF InputsFetched, LoopsOK, Await
  <2>2. utxo' \subseteq Outpoint
    BY <1>8, <2>1, IndexerAssumption DEF InputsFetched, TablesOK
  <2>3. TablesOK' /\ LoopsOK'
    BY <1>8, <2>1, <2>2, IndexRuneBlockType DEF InputsFetched
  <2> QED
    BY <1>0, <1>8, <2>3 DEF InputsFetched
<1>9. CASE CommitmentChecked(l)
  <2>1. loop[l].block \in Block
    BY <1>9 DEF CommitmentChecked, LoopsOK, Await
  <2>2. TablesOK' /\ LoopsOK'
    BY <1>9, <2>1, BlockIndexedType DEF CommitmentChecked, TablesOK
  <2> QED
    BY <1>0, <1>9, <2>2 DEF CommitmentChecked
<1>10. CASE CommitmentFails(l) \/ CommitmentPanics(l)
  <2>1. LoopsOK'
    BY <1>10, CycleEndType DEF CommitmentFails, CommitmentPanics
  <2>2. TablesOK'
    BY <1>10 DEF CommitmentFails, CommitmentPanics, TablesOK
  <2> QED
    BY <1>0, <1>10, <2>1, <2>2 DEF CommitmentFails, CommitmentPanics
<1>11. CASE Notified(l)
  <2> DEFINE r == [loop[l] EXCEPT !.next = @ + 1]
  <2>1. loop[l].block \in Block /\ loop[l].next \in 1..Len(loop[l].subs)
    BY <1>11 DEF Notified, LoopsOK, Await
  <2>2. LoopsOK'
    <3>1. CASE loop[l].next < Len(loop[l].subs)
      <4>1. r \in LoopState /\ r.block \in Block /\ r.next \in 1..Len(r.subs)
        <5>1. loop[l].next + 1 \in Nat /\ loop[l].next + 1 \in 1..Len(loop[l].subs)
          BY <1>1, <2>1, <3>1 DEF LoopState
        <5>2. r \in LoopState
          BY <1>1, <5>1 DEF LoopState
        <5>3. r.block = loop[l].block /\ r.subs = loop[l].subs /\ r.next = loop[l].next + 1
          BY <1>1 DEF LoopState
        <5> QED
          BY <2>1, <5>1, <5>2, <5>3
      <4>2. loop' = [loop EXCEPT ![l] = r]
        BY <1>11, <3>1 DEF Notified, LoopsOK
      <4> HIDE DEF r
      <4> QED
        BY <4>1, <4>2, MoveType
    <3>2. CASE ~ (loop[l].next < Len(loop[l].subs))
      BY <1>11, <3>2, CycleEndType DEF Notified
    <3> QED
      BY <3>1, <3>2
  <2>3. told' \in [Subscriber -> Seq(Block)]
    <3> DEFINE s == loop[l].subs[loop[l].next]
    <3>1. s \in Subscriber
      BY <1>1, <2>1 DEF LoopState
    <3>2. Append(told[s], loop[l].block) \in Seq(Block)
      BY <2>1, <3>1
    <3>3. \/ told' = [told EXCEPT ![s] = Append(told[s], loop[l].block)]
          \/ told' = told
      BY <1>11 DEF Notified
    <3> HIDE DEF s
    <3> QED
      BY <3>1, <3>2, <3>3
  <2> QED
    BY <1>0, <1>11, <2>2, <2>3 DEF Notified, TablesOK
<1> QED
  BY <1>2, <1>3, <1>4, <1>5, <1>6, <1>7, <1>8, <1>9, <1>10, <1>11 DEF Step

(***************************************************************************)
(* The header and change-record tables change in two ways only.            *)
(***************************************************************************)
LEMMA HeadersChange ==
  ASSUME TypeOK, [Next]_vars
  PROVE  \/ UNCHANGED <<headers, records>>
         \/ \E l \in Loop, b \in Block : BlockIndexed(l, b)
         \/ \E l \in Loop : ForkFound(l) /\ HandleReorg(l)
<1> USE DEF stable
<1>1. CASE UNCHANGED vars \/ NodeStep \/ Stop \/ Upgrade
  BY <1>1 DEF vars, NodeStep, Stop, Upgrade
<1>2. ASSUME NEW l \in Loop, Start(l)
      PROVE  UNCHANGED <<headers, records>>
  BY <1>2 DEF Start
<1>3. ASSUME NEW l \in Loop, Step(l)
      PROVE  \/ UNCHANGED <<headers, records>>
             \/ \E b \in Block : BlockIndexed(l, b)
             \/ ForkFound(l) /\ HandleReorg(l)
  <2>1. CASE Fire(l) \/ HashFound(l) \/ HashMissing(l) \/ BlockForks(l)
             \/ BlockFails(l) \/ InputsFail(l) \/ ForkDeeper(l) \/ ForkFails(l) \/ CommitmentFails(l)
             \/ CommitmentPanics(l) \/ Notified(l)
    BY <2>1 DEF Fire, HashFound, HashMissing, BlockForks, BlockFails, InputsFail,
                ForkDeeper, ForkFails, CommitmentFails, CommitmentPanics, Notified
  <2>2. CASE ForkFound(l)
    BY <2>2 DEF ForkFound
  <2>3. CASE BlockFits(l) \/ InputsFetched(l) \/ CommitmentChecked(l)
    <3>1. loop[l].block \in Block
      BY <2>3 DEF BlockFits, InputsFetched, CommitmentChecked, TypeOK, LoopsOK, Await
    <3> QED
      BY <2>3, <3>1 DEF BlockFits, InputsFetched, CommitmentChecked, IndexBlock,
                        IndexRuneBlock
  <2> QED
    BY <1>3, <2>1, <2>2, <2>3 DEF Step
<1> QED
  BY <1>1, <1>2, <1>3 DEF Next

LEMMA BoundedStep ==
  ASSUME TypeOK, Bounded, [Next]_vars
  PROVE  Bounded'
<1>1. CASE UNCHANGED headers
  BY <1>1 DEF Bounded
<1>2. CASE \E l \in Loop, b \in Block : BlockIndexed(l, b)
  <2>1. PICK l \in Loop, b \in Block : BlockIndexed(l, b)
    BY <1>2
  <2>2. PICK n \in Nat : \A h \in DOMAIN headers : h <= n
    BY DEF Bounded
  <2>3. loop[l].height \in Nat /\ DOMAIN headers \subseteq Nat
    BY DEF TypeOK, TablesOK, LoopsOK, LoopState
  <2>4. DOMAIN headers' \subseteq DOMAIN headers \cup {loop[l].height}
    BY <2>1 DEF BlockIndexed, Put, Pruned
  <2>5. \A h \in DOMAIN headers' : h <= n + loop[l].height
    BY <2>2, <2>3, <2>4
  <2> QED
    BY <2>2, <2>3, <2>5 DEF Bounded
<1>3. CASE \E l \in Loop : HandleReorg(l)
  <2>1. DOMAIN headers' \subseteq DOMAIN headers
    BY <1>3 DEF HandleReorg, Without
  <2> QED
    BY <2>1 DEF Bounded
<1> QED
  BY <1>1, <1>2, <1>3, HeadersChange

(***************************************************************************)
(* TypeOK alone is not inductive: the height after the latest one is a     *)
(* number because the header table has a latest one, which needs a bound.  *)
(***************************************************************************)
TypeInv == TypeOK /\ Bounded

LEMMA TypeInvHolds == Spec => []TypeInv
<1> USE DEF TypeInv
<1>1. Init => TypeInv
  <2> SUFFICES ASSUME Init PROVE TypeInv
    OBVIOUS
  <2> USE DEF Init
  <2>1. ChainTypeOK
    BY DEF ChainInit, ChainTypeOK
  <2>2. TablesOK
    BY DEF TablesOK
  <2>3. LoopsOK
    <3>1. <<>> \in Seq(Subscriber) /\ "off" \in Await \cup Ended
      BY DEF Ended
    <3>2. Idle("off", <<>>) \in LoopState
      BY <3>1, IdleType
    <3>3. Idle("off", <<>>).pc = "off"
      BY DEF Idle
    <3> QED
      BY <3>2, <3>3 DEF LoopsOK, Await
  <2>4. Bounded
    BY DEF Bounded
  <2>5. interventions \in 0..MaxInterventions
    BY IndexerAssumption
  <2>6. told \in [Subscriber -> Seq(Block)]
    OBVIOUS
  <2> QED
    BY <2>1, <2>2, <2>3, <2>4, <2>5, <2>6 DEF TypeOK
<1>2. TypeInv /\ [Next]_vars => TypeInv'
  <2> SUFFICES ASSUME TypeInv, [Next]_vars PROVE TypeInv'
    OBVIOUS
  <2>1. Bounded'
    BY BoundedStep
  <2>2. TypeOK'
    <3>1. CASE UNCHANGED vars
      BY <3>1 DEF vars, TypeOK, ChainTypeOK, TablesOK, LoopsOK
    <3>2. CASE NodeStep
      BY <3>2 DEF NodeStep, NewBest, TypeOK, ChainTypeOK, TablesOK, LoopsOK, stable
    <3>3. ASSUME NEW l \in Loop, Step(l) PROVE TypeOK'
      BY <3>3, StepType
    <3>4. ASSUME NEW l \in Loop, Start(l) PROVE TypeOK'
      <4>1. subscribers \in Seq(Subscriber)
        BY IndexerAssumption DEF TypeOK
      <4>2. Idle("timer", subscribers) \in LoopState
        BY <4>1, IdleType DEF Await
      <4>3. Idle("timer", subscribers).pc = "timer"
        BY DEF Idle
      <4>4. LoopsOK'
        BY <3>4, <4>2, <4>3, MoveType DEF Start, TypeOK
      <4> QED
        BY <3>4, <4>4 DEF Start, TypeOK, ChainTypeOK, TablesOK, stable
    <3>5. CASE Stop
      BY <3>5, IndexerAssumption DEF Stop, TypeOK, ChainTypeOK, TablesOK, LoopsOK, stable
    <3>6. CASE Upgrade
      <4>1. <<>> \in Seq(Subscriber) /\ "off" \in Await \cup Ended
        BY DEF Ended
      <4>2. Idle("off", <<>>) \in LoopState /\ Idle("off", <<>>).pc = "off"
        BY <4>1, IdleType DEF Idle
      <4>3. LoopsOK'
        BY <3>6, <4>2 DEF Upgrade, LoopsOK, Await
      <4>4. TablesOK'
        BY <3>6 DEF Upgrade, TypeOK, TablesOK
      <4>5. interventions' \in 0..MaxInterventions
        BY <3>6, IndexerAssumption DEF Upgrade, TypeOK
      <4> QED
        BY <3>6, <4>3, <4>4, <4>5 DEF Upgrade, TypeOK, ChainTypeOK
    <3> QED
      BY <3>1, <3>2, <3>3, <3>4, <3>5, <3>6 DEF Next
  <2> QED
    BY <2>1, <2>2
<1> QED
  BY <1>1, <1>2, PTL DEF Spec

(***************************************************************************)
(* TypeOK holds of the indexing loop: every table, thread state and        *)
(* notification stays well-formed, whatever fails or is interrupted.       *)
(***************************************************************************)
THEOREM TypeCorrect == Spec => []TypeOK
<1>1. TypeInv => TypeOK
  BY DEF TypeInv
<1> QED
  BY <1>1, TypeInvHolds, PTL
=============================================================================
