SPECIFICATION Spec
CONSTANTS
  NoBlock <- MCNoBlock
  Block <- MCBlock
  Parent <- MCParent
  Txs <- MCTxs
  Inputs <- MCInputs
  Outputs <- MCOutputs
  Artifact <- MCArtifact
  Commitment <- MCCommitment
  Etchable <- MCEtchable
  FirstHeight = 1
  MaxDepth = 4
  MaxRollback = 2
  MaxCutOffs = 1
PROPERTY RollbackRestoresTables
