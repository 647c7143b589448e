SPECIFICATION QuerySpec
CONSTANTS
  MaxElement = 2
  TxidLen = 1
  IndexBytes = 1
  PointerBytes = 1
  ContentLimit = {}
  HiddenContent <- MCHidden
  MediaTable <- MCMediaTable
  Configs <- DefaultConfig
  FirstHeight = 1
  Subsidy = 3
  JubileeHeight = 2
  HomeLimit = 2
  MaxLength = 4
  MaxCutOffs = 0
  MaxChildren = 1
  Menu <- MCMenu
INVARIANT NumberFindsInscription
CHECK_DEADLOCK FALSE
