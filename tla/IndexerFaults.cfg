SPECIFICATION Spec
CONSTANTS
  NoBlock = "none"
  Block <- TreeBlock
  Parent <- TreeParent
  Chain <- LateChain
  Loop = {l1}
  Subscriber <- MCSubscriber
  SubscriberLists <- MCNoList
  MaxDepth = 4
  FirstHeight = 1
  FirstRuneHeight = 2
  IndexRunes = TRUE
  IndexUtxo = TRUE
  Outpoint <- MCOutpoint
  Spends <- MCSpends
  Creates <- MCCreates
  Commits <- SomeCommits
  Touches <- SomeTouches
  Fallible <- AllCalls
  MaxInterventions = 2
INVARIANTS TypeOK HeadersLinked ReadsStayCurrent RuneLedgerMatchesChain UtxoMatchesChain
PROPERTIES ImplementsChainView
