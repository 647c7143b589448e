SPECIFICATION FairSpec
CONSTANTS
  NoBlock = "none"
  Block <- DeepBlock
  Parent <- DeepParent
  Chain <- DeepChain
  Loop = {l1}
  Subscriber <- MCSubscriber
  SubscriberLists <- MCOneList
  MaxDepth = 4
  FirstHeight = 1
  FirstRuneHeight = 3
  IndexRunes = TRUE
  IndexUtxo = TRUE
  Outpoint <- MCOutpoint
  Spends <- MCSpends
  Creates <- MCCreates
  Commits <- SomeCommits
  Touches <- SomeTouches
  Fallible <- RepeatedCalls
  MaxInterventions = 0
INVARIANT NotificationsLinked
PROPERTIES ThreadSurvives Converges
