SPECIFICATION QuerySpec
CONSTANTS
  MaxElement = 2
  TxidLen = 1
  IndexBytes = 1
  PointerBytes = 1
  ContentLimit = {}
  HiddenContent <- MCHidden
  MediaTable <- MCMediaTable
  Configs <- MCConfigs
  FirstHeight = 1
  Subsidy = 3
  JubileeHeight = 2
  HomeLimit = 2
  MaxLength = 4
  MaxCutOffs = 1
  MaxChildren = 1
  Menu <- MCMenu
INVARIANTS
  TypeOK InscriptionsStayOnTheirSats EachInOnePlace SatsAccountedFor
  BlocksListTheirInscriptions OutputsMatchChain HomeIsNewest
  IdsLeadToEnvelopes ReplyTellsWhere TrapsOnlyOnNewOnes
PROPERTY EntriesAreForever
CHECK_DEADLOCK FALSE
