SPECIFICATION Spec
CONSTANTS
  NoBlock = "none"
  Block <- ForkBlock
  Parent <- ForkParent
  Chain <- ForkChain
  Loop = {l1, l2}
  Subscriber <- MCSubscriber
  SubscriberLists <- MCNoList
  MaxDepth = 4
  FirstHeight = 2
  FirstRuneHeight = 2
  IndexRunes = TRUE
  IndexUtxo = FALSE
  Outpoint <- MCOutpoint
  Spends <- MCSpends
  Creates <- MCCreates
  Commits <- NoBlocks
  Touches <- NoBlocks
  Fallible <- CommitmentCalls
  MaxInterventions = 1
INVARIANT RecordsMatchHeaders
PROPERTY LatestStaysKnown
