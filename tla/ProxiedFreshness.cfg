SPECIFICATION ProxiedSpec
CONSTANTS
  NoBlock = "none"
  Block <- MCBlock
  Parent <- MCParent
  Chain <- MCChain
  Loop = {l1}
  Subscriber = {}
  SubscriberLists <- MCNoList
  MaxDepth = 4
  FirstHeight = 0
  FirstRuneHeight = 0
  IndexRunes = TRUE
  IndexUtxo = FALSE
  Outpoint = {}
  Spends <- MCNothing
  Creates <- MCNothing
  Commits = {}
  Touches = {}
  Fallible = {}
  MaxInterventions = 0
PROPERTY StaysFresh
