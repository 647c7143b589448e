SPECIFICATION Spec
CONSTANTS
  NoBlock = "none"
  Block <- LineBlock
  Parent <- LineParent
  Chain <- LineChain
  Loop = {l1}
  Subscriber <- MCSubscriber
  SubscriberLists <- MCNoList
  MaxDepth = 4
  FirstHeight = 0
  FirstRuneHeight = 2
  IndexRunes = TRUE
  IndexUtxo = TRUE
  Outpoint <- MCOutpoint
  Spends <- MCSpends
  Creates <- MCCreates
  Commits <- SomeCommits
  Touches <- SomeTouches
  Fallible <- CommitmentCalls
  MaxInterventions = 0
INVARIANT AssertionHolds
