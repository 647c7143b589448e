SPECIFICATION Spec
CONSTANTS
  NoBlock = "none"
  Block <- ForkBlock
  Parent <- ForkParent
  Chain <- ForkChain
  Loop = {l1}
  Subscriber <- MCSubscriber
  SubscriberLists <- MCNoList
  MaxDepth = 4
  FirstHeight = 1
  FirstRuneHeight = 2
  IndexRunes = TRUE
  IndexUtxo = TRUE
  Outpoint <- MCOutpoint
  Spends <- MCSpends
  Creates <- MCCreates
  Commits <- NoBlocks
  Touches <- NoBlocks
  Fallible = {}
  MaxInterventions = 0
PROPERTY RollbackRestoresOutputs
