\* Cancun activates at the second block; the client may commit any fault but a wrong blobGasUsed
CONSTANTS
  ShanghaiTime = 0
  CancunTime = 2
  PragueTime <- MCNoFork
  GenesisTs = 0
  TxOrder <- MCTxOrder
  TxBlobs <- MCTxBlobs
  TestSequence <- MCSteps
  MaxBlobsPerBlock = 3
  TargetBlobsPerBlock = 1
  GasPerBlob = 1
  MinDataGasPrice = 1
  DataGasPriceUpdateFraction = 2
  Faults <- MCCheckedFaults
SPECIFICATION Spec
INVARIANT TypeOK
INVARIANT NoFalseFailure
INVARIANT SyncingProbeLacksParent
PROPERTY PassedCycleIsConformant
\* the test ends after its last step or at its first failure
CHECK_DEADLOCK FALSE
