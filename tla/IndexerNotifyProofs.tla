------------------------ MODULE IndexerNotifyProofs ------------------------
(***************************************************************************)
(* What the subscribers of Indexer.tla are told: with one index thread, no *)
(* lost call of notify_new_block and no upgrade, every block after the     *)
(* first follows its parent, through reorganisations, failures of all      *)
(* other calls, panics, stops and restarts.                                *)
(***************************************************************************)
EXTENDS IndexerLedgerProofs

(* No canister is listed twice.                                            *)
ListedOnce ==
  \A list \in SubscriberLists : \A i, j \in 1..Len(list) : list[i] = list[j] => i = j

Hears(list, b) == \E i \in 1..Len(list) : list[i] = b

(* The latest block is on its way to s.                                    *)
Waits(s) ==
  \E l \in Loop : /\ loop[l].pc = "notify"
                  /\ \E i \in loop[l].next..Len(loop[l].subs) : loop[l].subs[i] = s

Listens(l) == loop[l].pc \in Await => loop[l].subs = subscribers

NotifiesLatest(l) ==
  loop[l].pc = "notify" => ~ NoHeaders /\ loop[l].block = headers[Top(headers)]

(***************************************************************************)
(* The inductive invariant: a subscriber has heard of every header, the    *)
(* latest excepted while it is on its way, and the first block is the      *)
(* first it hears of.                                                      *)
(***************************************************************************)
HeardSoFar ==
  \A i \in 1..Len(subscribers) : \A h \in DOMAIN headers :
    (h = Top(headers) /\ Waits(subscribers[i])) \/ Hears(told[subscribers[i]], headers[h])

FirstIsFirst ==
  /\ NoHeaders => \A s \in Subscriber : told[s] = <<>>
  /\ \A s \in Subscriber :
       Waits(s) => Top(headers) - 1 \in DOMAIN headers \/ told[s] = <<>>

NotifyInv ==
  /\ \A l \in Loop : Listens(l) /\ NotifiesLatest(l)
  /\ HeardSoFar
  /\ FirstIsFirst
  /\ NotificationsLinked

(***************************************************************************)
(* Which steps concern the subscribers.                                    *)
(***************************************************************************)
LEMMA StepNotifies ==
  ASSUME LoopsOK, NEW l \in Loop, Step(l)
  PROVE  /\ loop[l].pc \in Await
         /\ loop'[l].pc \in Await => loop'[l].subs = loop[l].subs
         /\ UNCHANGED subscribers
         /\ \/ Notified(l)
            \/ /\ UNCHANGED told /\ loop[l].pc # "notify"
               /\ loop'[l].pc = "notify" =>
                    /\ BlockFits(l) \/ InputsFetched(l) \/ CommitmentChecked(l)
                    /\ BlockIndexed(l, loop[l].block)
                    /\ loop'[l].next = 1 /\ loop'[l].block = loop[l].block
<1> USE DEF stable
<1>0. loop \in [Loop -> LoopState] /\ loop[l] \in LoopState
  BY DEF LoopsOK
<1> DEFINE Quiet == /\ loop'[l].pc \in Await => loop'[l].subs = loop[l].subs
                    /\ loop'[l].pc # "notify"
           Tells == /\ loop'[l].pc \in Await => loop'[l].subs = loop[l].subs
                    /\ loop'[l].pc = "notify" =>
                         loop'[l].next = 1 /\ loop'[l].block = loop[l].block
<1>1. ASSUME Rearm(l) \/ Return(l) \/ Panic(l)
      PROVE  Quiet
  BY <1>0, <1>1 DEF Rearm, Rearmed, Return, Panic, Idle, Await
<1>2. ASSUME NEW depth \in Nat, Probe(l, loop[l].block, depth)
      PROVE  Quiet
  <2>1. CASE Return(l) \/ Panic(l)
    BY <1>1, <2>1
  <2>2. CASE ~ Return(l) /\ ~ Panic(l)
    BY <1>0, <1>2, <2>2 DEF Probe, LoopState
  <2> QED
    BY <2>1, <2>2
<1>3. CASE Fire(l) \/ HashFound(l)
  BY <1>0, <1>3 DEF Fire, HashFound, LoopState, Await
<1>4. CASE HashMissing(l) \/ BlockFails(l) \/ InputsFail(l) \/ ForkFound(l) \/ ForkFails(l)
           \/ CommitmentFails(l) \/ CommitmentPanics(l)
  <2>1. Rearm(l) \/ Return(l) \/ Panic(l)
    BY <1>4 DEF HashMissing, BlockFails, InputsFail, ForkFound, HandleReorg, ForkFails,
                CommitmentFails, CommitmentPanics
  <2>2. /\ UNCHANGED <<subscribers, told>> /\ loop[l].pc # "notify"
        /\ loop[l].pc \in Await
    BY <1>4 DEF HashMissing, BlockFails, InputsFail, ForkFound, ForkFails, CommitmentFails,
                CommitmentPanics, Await
  <2> QED
    BY <1>1, <2>1, <2>2
<1>5. CASE BlockForks(l)
  BY <1>2, <1>5 DEF BlockForks, Await
<1>6. CASE ForkDeeper(l)
  <2>1. loop[l].depth + 1 \in Nat
    BY <1>0 DEF LoopState
  <2>2. Quiet
    BY <1>2, <1>6, <2>1 DEF ForkDeeper
  <2> QED
    BY <1>6, <2>2 DEF ForkDeeper, Await
<1>7. CASE BlockFits(l) \/ InputsFetched(l) \/ CommitmentChecked(l)
  <2>1. /\ loop[l].pc \in {"block", "utxo", "rune"} /\ loop[l].pc \in Await
        /\ UNCHANGED <<subscribers, told>>
    BY <1>7 DEF BlockFits, InputsFetched, CommitmentChecked, Await
  <2>2. \/ BlockIndexed(l, loop[l].block) \/ Panic(l)
        \/ \E pc \in {"utxo", "rune"} :
             loop' = [loop EXCEPT ![l].pc = pc, ![l].block = loop[l].block]
    BY <1>7 DEF BlockFits, InputsFetched, CommitmentChecked, IndexBlock, IndexRuneBlock
  <2>3. CASE BlockIndexed(l, loop[l].block)
    <3>1. CASE loop[l].subs = <<>>
      BY <1>1, <1>7, <2>1, <2>3, <3>1 DEF BlockIndexed, Rearm
    <3>2. CASE loop[l].subs # <<>>
      <4>1. Tells
        BY <1>0, <2>3, <3>2 DEF BlockIndexed, LoopState
      <4> QED
        BY <1>7, <2>1, <2>3, <4>1
    <3> QED
      BY <3>1, <3>2
  <2>4. CASE Panic(l)
    BY <1>1, <2>1, <2>4
  <2>5. ASSUME NEW pc \in {"utxo", "rune"},
               loop' = [loop EXCEPT ![l].pc = pc, ![l].block = loop[l].block]
        PROVE  Quiet
    BY <1>0, <2>5 DEF LoopState
  <2> QED
    BY <2>1, <2>2, <2>3, <2>4, <2>5
<1>8. CASE Notified(l)
  <2>1. CASE Rearm(l)
    BY <1>1, <1>8, <2>1 DEF Notified, Await
  <2>2. CASE loop' = [loop EXCEPT ![l].next = @ + 1]
    BY <1>0, <1>8, <2>2 DEF Notified, LoopState, Await
  <2> QED
    BY <1>8, <2>1, <2>2 DEF Notified
<1> QED
  BY <1>3, <1>4, <1>5, <1>6, <1>7, <1>8 DEF Step

(***************************************************************************)
(* A step that tells nobody: nobody waits after it, the headers are those  *)
(* of before or some of them, or a block was added and everybody waits.    *)
(***************************************************************************)
LEMMA QuietStep ==
  ASSUME SingleThread, ChainInv, NotifyInv, UNCHANGED <<told, subscribers>>,
         \A l \in Loop : Listens(l)' /\ loop[l].pc # "notify" /\ loop'[l].pc # "notify",
         \A k \in DOMAIN headers' : k \in DOMAIN headers /\ headers'[k] = headers[k],
         DOMAIN headers' = {} => NoHeaders
  PROVE  NotifyInv'
<1>1. \A s \in Subscriber : ~ Waits(s) /\ ~ Waits(s)'
  BY DEF Waits
<1>2. subscribers \in Seq(Subscriber) /\ \A i \in 1..Len(subscribers) : subscribers[i] \in Subscriber
  BY IndexerAssumption DEF ChainInv, TypeOK
<1>3. HeardSoFar'
  <2> SUFFICES ASSUME NEW i \in 1..Len(subscribers), NEW h \in DOMAIN headers'
               PROVE  Hears(told[subscribers[i]], headers'[h])
    BY DEF HeardSoFar
  <2>1. Hears(told[subscribers[i]], headers[h])
    BY <1>1, <1>2 DEF NotifyInv, HeardSoFar
  <2> QED
    BY <2>1
<1>4. FirstIsFirst'
  BY <1>1 DEF NotifyInv, FirstIsFirst, NoHeaders
<1>5. NotificationsLinked'
  BY DEF NotifyInv, NotificationsLinked
<1>6. \A l \in Loop : NotifiesLatest(l)'
  BY DEF NotifiesLatest
<1> QED
  BY <1>3, <1>4, <1>5, <1>6 DEF NotifyInv

LEMMA AddedStep ==
  ASSUME SingleThread, ChainInv, ChainInv', NotifyInv, UNCHANGED <<told, subscribers>>,
         NEW l \in Loop, Listens(l)', Fits(l, loop[l].block), loop[l].block \in Block,
         loop[l].pc # "notify",
         \/ loop'[l].pc = "notify" /\ loop'[l].next = 1 /\ loop'[l].block = loop[l].block
         \/ loop'[l].pc # "notify" /\ subscribers = <<>>
  PROVE  NotifyInv'
<1> DEFINE b == loop[l].block
           n == NextHeight
<1>1. /\ DOMAIN headers' # {} /\ Top(headers)' = n /\ headers'[n] = b
      /\ \A k \in DOMAIN headers' \ {n} : k \in DOMAIN headers /\ headers'[k] = headers[k]
  BY FitsTop
<1>2. /\ n \in Nat
      /\ ~ NoHeaders => n - 1 \in DOMAIN headers'
  <2>1. headers' = Put(Pruned(headers, n), n, b)
    BY FitsHeaders
  <2>2. n \in Nat /\ (~ NoHeaders => n - 1 \in DOMAIN headers) /\ MaxDepth \in Nat /\ MaxDepth >= 2
    BY FitsHeaders, IndexerAssumption
  <2> HIDE DEF n, b
  <2> QED
    BY <2>1, <2>2 DEF Put, Pruned
<1>3. \A m \in Loop : m = l
  BY DEF SingleThread
<1>4. \A s \in Subscriber : ~ Waits(s)
  BY <1>3 DEF Waits
<1>5. subscribers \in Seq(Subscriber) /\ \A i \in 1..Len(subscribers) : subscribers[i] \in Subscriber
  BY IndexerAssumption DEF ChainInv, TypeOK
<1>6. NotifiesLatest(l)'
  BY <1>1 DEF NotifiesLatest, NoHeaders
<1>7. \A i \in 1..Len(subscribers) : Waits(subscribers[i])'
  <2> SUFFICES ASSUME NEW i \in 1..Len(subscribers) PROVE Waits(subscribers[i])'
    OBVIOUS
  <2>1. subscribers # <<>>
    BY <1>5
  <2>2. loop'[l].pc = "notify" /\ loop'[l].next = 1 /\ loop'[l].subs = subscribers
    BY <2>1 DEF Listens, Await
  <2> QED
    BY <1>5, <2>2 DEF Waits
<1>8. HeardSoFar'
  <2> SUFFICES ASSUME NEW i \in 1..Len(subscribers), NEW h \in DOMAIN headers', h # n
               PROVE  Hears(told[subscribers[i]], headers'[h])
    BY <1>1, <1>7 DEF HeardSoFar
  <2>1. Hears(told[subscribers[i]], headers[h])
    BY <1>1, <1>4, <1>5 DEF NotifyInv, HeardSoFar
  <2> QED
    BY <1>1, <2>1
<1>9. FirstIsFirst'
  <2>1. NoHeaders => \A s \in Subscriber : told'[s] = <<>>
    BY DEF NotifyInv, FirstIsFirst
  <2> HIDE DEF n
  <2> QED
    BY <1>1, <1>2, <2>1 DEF FirstIsFirst, NoHeaders
<1>10. NotificationsLinked'
  BY DEF NotifyInv, NotificationsLinked
<1> QED
  BY <1>3, <1>6, <1>8, <1>9, <1>10 DEF NotifyInv

(***************************************************************************)
(* notify_new_block was delivered.                                         *)
(***************************************************************************)
LEMMA ToldStep ==
  ASSUME SingleThread, ListedOnce, "notify" \notin Fallible,
         ChainInv, NotifyInv, NEW l \in Loop, Notified(l)
  PROVE  NotifyInv'
<1>0. PICK q, x, s, b, t : /\ q = loop[l].subs /\ x = loop[l].next /\ s = q[x]
                           /\ b = loop[l].block /\ t = Top(headers)
  OBVIOUS
<1>1. /\ loop[l] \in LoopState /\ loop \in [Loop -> LoopState] /\ x \in 1..Len(q) /\ b \in Block
      /\ loop[l].pc = "notify" /\ q = subscribers /\ q \in Seq(Subscriber)
      /\ told \in [Subscriber -> Seq(Block)]
  BY <1>0 DEF Notified, ChainInv, TypeOK, LoopsOK, LoopState, NotifyInv, Listens, Await
<1>2. /\ told' = [told EXCEPT ![s] = Append(@, b)]
      /\ UNCHANGED <<headers, subscribers>>
  BY <1>0 DEF Notified, stable
<1>3. \A m \in Loop : m = l
  BY DEF SingleThread
<1>4. \A i, j \in 1..Len(q) : q[i] = q[j] => i = j
  BY <1>1 DEF ListedOnce, ChainInv, TypeOK
<1>5. ~ NoHeaders /\ b = headers[t] /\ t \in DOMAIN headers /\ t \in Nat
  BY <1>0, <1>1, TopFacts DEF NotifyInv, NotifiesLatest, ChainInv
<1>6. /\ loop'[l].pc \in Await => loop'[l].subs = subscribers
      /\ loop'[l].pc = "notify" =>
           loop'[l].next = x + 1 /\ loop'[l].block = b /\ loop'[l].subs = q
  <2>1. CASE Rearm(l)
    BY <1>0, <1>1, <2>1 DEF Rearm, Rearmed, Idle, Await
  <2>2. CASE loop' = [loop EXCEPT ![l].next = @ + 1]
    BY <1>0, <1>1, <2>2 DEF LoopState
  <2> QED
    BY <2>1, <2>2 DEF Notified
<1>7. s \in Subscriber /\ Waits(s)
  <2>1. s = q[x] /\ x \in Nat /\ x \in x..Len(q)
    BY <1>0, <1>1
  <2>2. s \in Subscriber
    BY <1>1, <2>1
  <2>3. loop[l].pc = "notify" /\ \E i \in loop[l].next..Len(loop[l].subs) : loop[l].subs[i] = s
    BY <1>0, <1>1, <2>1
  <2> QED
    BY <2>2, <2>3 DEF Waits
<1>8. /\ \A r \in Subscriber \ {s} : told'[r] = told[r]
      /\ told[s] \in Seq(Block) /\ told'[s] = Append(told[s], b)
  BY <1>1, <1>2, <1>7
<1>9. /\ Len(told'[s]) = Len(told[s]) + 1 /\ told'[s][Len(told[s]) + 1] = b
      /\ \A i \in 1..Len(told[s]) : told'[s][i] = told[s][i]
      /\ Len(told[s]) \in Nat
  BY <1>1, <1>8, AppendProperties, LenProperties
<1>10. \A r \in Subscriber : Waits(r)' => Waits(r) /\ r # s
  <2> SUFFICES ASSUME NEW r \in Subscriber, Waits(r)' PROVE Waits(r) /\ r # s
    OBVIOUS
  <2>1. loop'[l].pc = "notify" /\ \E i \in loop'[l].next..Len(loop'[l].subs) : loop'[l].subs[i] = r
    BY <1>3 DEF Waits
  <2>2. PICK i \in (x + 1)..Len(q) : q[i] = r
    BY <1>6, <2>1
  <2>3. i \in x..Len(q) /\ i \in 1..Len(q) /\ i # x
    BY <1>1, <2>2
  <2>4. r # s
    BY <1>0, <1>1, <1>4, <2>2, <2>3
  <2> QED
    BY <1>0, <1>1, <2>2, <2>3, <2>4 DEF Waits
<1>11. \A r \in Subscriber : Waits(r) => Waits(r)' \/ r = s
  <2> SUFFICES ASSUME NEW r \in Subscriber, Waits(r), r # s PROVE Waits(r)'
    OBVIOUS
  <2>1. PICK i \in x..Len(q) : q[i] = r
    BY <1>0, <1>3 DEF Waits
  <2>2. i \in (x + 1)..Len(q) /\ x < Len(q)
    BY <1>0, <1>1, <2>1
  <2>3. loop' = [loop EXCEPT ![l].next = @ + 1]
    BY <1>0, <2>2 DEF Notified
  <2>4. loop'[l].pc = "notify" /\ loop'[l].next = x + 1 /\ loop'[l].subs = q
    BY <1>0, <1>1, <2>3 DEF LoopState
  <2> QED
    BY <2>1, <2>2, <2>4 DEF Waits
<1>12. \A r \in Subscriber : \A c : Hears(told[r], c) => Hears(told'[r], c)
  BY <1>8, <1>9 DEF Hears
<1>13. Hears(told'[s], b)
  BY <1>9 DEF Hears
<1>14. HeardSoFar'
  <2> SUFFICES ASSUME NEW i \in 1..Len(subscribers), NEW h \in DOMAIN headers,
                      ~ (h = t /\ Waits(subscribers[i])')
               PROVE  Hears(told'[subscribers[i]], headers[h])
    BY <1>0, <1>2 DEF HeardSoFar, Top
  <2>1. subscribers[i] \in Subscriber
    BY <1>1
  <2>2. (h = t /\ Waits(subscribers[i])) \/ Hears(told[subscribers[i]], headers[h])
    BY <1>0 DEF NotifyInv, HeardSoFar
  <2>3. CASE Hears(told[subscribers[i]], headers[h])
    BY <1>12, <2>1, <2>3
  <2>4. CASE h = t /\ Waits(subscribers[i])
    <3>1. PICK r : r = subscribers[i]
      OBVIOUS
    <3>2. r = s
      BY <1>2, <1>11, <2>1, <2>4, <3>1 DEF Waits
    <3> QED
      BY <1>5, <1>13, <2>4, <3>1, <3>2
  <2> QED
    BY <2>2, <2>3, <2>4
<1>15. FirstIsFirst'
  BY <1>0, <1>2, <1>5, <1>8, <1>10 DEF NotifyInv, FirstIsFirst, NoHeaders, Top
<1>16. NotificationsLinked'
  <2> SUFFICES ASSUME NEW r \in Subscriber, NEW i \in 2..Len(told'[r])
               PROVE  \E j \in 1..i-1 : told'[r][j] = Parent[told'[r][i]]
    BY DEF NotificationsLinked
  <2>1. CASE r # s
    BY <1>8, <2>1 DEF NotifyInv, NotificationsLinked
  <2>2. CASE r = s /\ i # Len(told[s]) + 1
    <3>1. i \in 2..Len(told[s])
      BY <1>9, <2>2
    <3>2. PICK j \in 1..i-1 : told[s][j] = Parent[told[s][i]]
      BY <1>7, <3>1 DEF NotifyInv, NotificationsLinked
    <3>3. j \in 1..Len(told[s]) /\ i \in 1..Len(told[s])
      BY <1>9, <3>1
    <3>4. told'[s][j] = told[s][j] /\ told'[s][i] = told[s][i]
      BY <1>9, <3>3
    <3> QED
      BY <2>2, <3>2, <3>4
  <2>3. CASE r = s /\ i = Len(told[s]) + 1
    <3>1. told[s] # <<>>
      BY <1>9, <2>3
    <3>2. t - 1 \in DOMAIN headers
      BY <1>0, <1>7, <3>1 DEF NotifyInv, FirstIsFirst
    <3>3. Parent[b] = headers[t - 1]
      <4>1. (t - 1) + 1 = t
        BY <1>5
      <4> QED
        BY <1>5, <3>2, <4>1 DEF ChainInv, HeadersLinked, Linked
    <3>4. Hears(told[s], headers[t - 1])
      <4>1. t - 1 # t
        BY <1>5
      <4> QED
        BY <1>0, <1>1, <3>2, <4>1 DEF NotifyInv, HeardSoFar
    <3>5. PICK j \in 1..Len(told[s]) : told[s][j] = headers[t - 1]
      BY <3>4 DEF Hears
    <3>6. j \in 1..i-1 /\ told'[s][j] = told[s][j] /\ told'[s][i] = b
      BY <1>9, <2>3, <3>5
    <3> QED
      BY <2>3, <3>3, <3>5, <3>6
  <2> QED
    BY <2>1, <2>2, <2>3
<1>17. Listens(l)'
  BY <1>2, <1>6 DEF Listens
<1>18. NotifiesLatest(l)'
  BY <1>0, <1>2, <1>5, <1>6 DEF NotifiesLatest, NoHeaders, Top
<1> QED
  BY <1>3, <1>14, <1>15, <1>16, <1>17, <1>18 DEF NotifyInv

LEMMA NotifyStep ==
  ASSUME SingleThread, ListedOnce, "notify" \notin Fallible,
         ChainInv, ChainInv', RecordsMatchHeaders, NotifyInv, [Next]_vars, [~ Upgrade]_vars
  PROVE  NotifyInv'
<1>0. LoopsOK /\ loop \in [Loop -> LoopState]
  BY DEF ChainInv, TypeOK, LoopsOK
<1>1. CASE UNCHANGED <<headers, loop, told, subscribers>>
  BY <1>1 DEF NotifyInv, Listens, NotifiesLatest, HeardSoFar, FirstIsFirst, Waits,
              NotificationsLinked, NoHeaders, Top
<1>2. CASE NodeStep \/ Stop \/ UNCHANGED vars
  BY <1>1, <1>2 DEF NodeStep, Stop, vars, stable
<1>3. ASSUME NEW l \in Loop, Start(l)
      PROVE  NotifyInv'
  <2>1. /\ loop[l].pc # "notify" /\ loop'[l].pc = "timer" /\ loop'[l].subs = subscribers
        /\ UNCHANGED <<headers, told, subscribers>>
    BY <1>0, <1>3 DEF Start, Idle, Ended, stable
  <2>2. \A m \in Loop : m = l
    BY DEF SingleThread
  <2>3. Listens(l)'
    BY <2>1 DEF Listens
  <2> QED
    BY <2>1, <2>2, <2>3, QuietStep DEF NoHeaders
<1>4. ASSUME NEW l \in Loop, Step(l), ~ Notified(l)
      PROVE  NotifyInv'
  <2>1. /\ loop[l].pc \in Await /\ UNCHANGED <<subscribers, told>> /\ loop[l].pc # "notify"
        /\ loop'[l].pc \in Await => loop'[l].subs = loop[l].subs
        /\ loop'[l].pc = "notify" => /\ BlockFits(l) \/ InputsFetched(l) \/ CommitmentChecked(l)
                                     /\ BlockIndexed(l, loop[l].block)
                                     /\ loop'[l].next = 1 /\ loop'[l].block = loop[l].block
    BY <1>0, <1>4, StepNotifies
  <2>2. \A m \in Loop : m = l
    BY DEF SingleThread
  <2>3. Listens(l)' /\ loop[l].subs = subscribers
    BY <2>1 DEF NotifyInv, Listens
  <2>4. CASE loop'[l].pc = "notify" \/ Fits(l, loop[l].block)
    <3>1. Fits(l, loop[l].block) /\ loop[l].block \in Block
      <4>1. CASE Fits(l, loop[l].block)
        BY <1>0, <4>1 DEF Fits, LoopsOK, Await
      <4>2. CASE loop'[l].pc = "notify"
        <5>1. BlockFits(l) \/ InputsFetched(l) \/ CommitmentChecked(l)
          BY <2>1, <4>2
        <5>2. loop[l].pc \in {"block", "utxo", "rune"} /\ loop[l].block \in Block
          BY <1>0, <5>1 DEF BlockFits, InputsFetched, CommitmentChecked, LoopsOK, Await
        <5>3. /\ loop[l].height = NextHeight /\ loop[l].prev = PrevBlock
              /\ loop[l].prev \in {NoBlock, Parent[loop[l].block]}
          BY <5>1 DEF BlockFits, InputsFetched, CommitmentChecked, ChainInv, ReadsStayCurrent
        <5> QED
          BY <2>1, <4>2, <5>2, <5>3 DEF Fits
      <4> QED
        BY <2>4, <4>1, <4>2
    <3>2. loop'[l].pc = "notify" \/ subscribers = <<>>
      BY <1>0, <2>3, <3>1 DEF Fits, BlockIndexed, LoopState
    <3> QED
      BY <2>1, <2>2, <2>3, <3>1, <3>2, AddedStep
  <2>5. CASE loop'[l].pc # "notify" /\ ~ Fits(l, loop[l].block)
    <3>1. /\ \A k \in DOMAIN headers' : k \in DOMAIN headers /\ headers'[k] = headers[k]
          /\ DOMAIN headers' = {} => NoHeaders
      <4>1. CASE UNCHANGED headers
        BY <4>1 DEF NoHeaders
      <4>2. ASSUME NEW m \in Loop, ForkFound(m), HandleReorg(m)
            PROVE  /\ \A k \in DOMAIN headers' : k \in DOMAIN headers /\ headers'[k] = headers[k]
                   /\ DOMAIN headers' # {}
        BY <4>2, RollbackShape, RollbackTop
      <4> QED
        BY <2>2, <2>5, <4>1, <4>2, ChainChange DEF Fits
    <3> QED
      BY <2>1, <2>2, <2>3, <2>5, <3>1, QuietStep
  <2> QED
    BY <2>4, <2>5
<1>5. CASE \E l \in Loop : Notified(l)
  BY <1>5, ToldStep
<1>6. ~ Upgrade \/ UNCHANGED vars
  OBVIOUS
<1> QED
  BY <1>2, <1>3, <1>4, <1>5, <1>6 DEF Next

(***************************************************************************)
(* NotificationsLinked: with one index thread, a subscriber listed once    *)
(* and no lost call or upgrade, no block is told before its parent, the    *)
(* very first excepted (the loop over subscribers in update_index).  An    *)
(* upgrade drops the calls still to be made, and a canister listed twice   *)
(* hears of the first block twice.                                         *)
(***************************************************************************)
THEOREM NotificationsCorrect ==
  ASSUME SingleThread, ListedOnce, "notify" \notin Fallible
  PROVE  Spec /\ [][~ Upgrade]_vars => []NotificationsLinked
<1>1. Init => NotifyInv
  BY DEF Init, NotifyInv, Listens, NotifiesLatest, HeardSoFar, FirstIsFirst, Waits,
         NotificationsLinked, NoHeaders, Idle, Await
<1>2. ChainInv /\ ChainInv' /\ RecordsMatchHeaders /\ NotifyInv /\ [Next]_vars
        /\ [~ Upgrade]_vars => NotifyInv'
  BY NotifyStep
<1>3. NotifyInv => NotificationsLinked
  BY DEF NotifyInv
<1> QED
  BY <1>1, <1>2, <1>3, ChainInvHolds, RecordsCorrect, PTL DEF Spec
=============================================================================
