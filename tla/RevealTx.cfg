SPECIFICATION Spec
CONSTANTS
  MaxElement = 2
  TxidLen = 1
  IndexBytes = 2
  PointerBytes = 2
  ContentLimit = {4}
  HiddenContent = {}
  MaxSteps = 5
  MaxInputs = 2
  MaxPrefix = 2
  MaxBatch = 2
  Instructions <- MCInstructions
  FieldMenu <- MCFieldMenu
  ArgsMenu <- MCArgsMenu
  MediaTable <- MCMediaTable
INVARIANTS
  EnvelopesFound FieldsByPosition RevealedIsReadBack NumbersHaveTheirForms
PROPERTY CompleteStays
CHECK_DEADLOCK FALSE
