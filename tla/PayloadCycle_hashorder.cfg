\* the client compares the versioned hashes of newPayloadV3 as a set, and the
\* "Out of Order" step is the one meant to catch that
CONSTANTS
  ShanghaiTime = 0
  CancunTime = 0
  PragueTime <- MCNoFork
  GenesisTs = 0
  TxOrder <- MCOrderTxOrder
  TxBlobs <- MCOrderTxBlobs
  TestSequence <- MCOrderSteps
  MaxBlobsPerBlock = 3
  TargetBlobsPerBlock = 1
  GasPerBlob = 1
  MinDataGasPrice = 1
  DataGasPriceUpdateFraction = 2
  Faults <- MCOrderFault
SPECIFICATION Spec
PROPERTY PassedCycleIsConformant
\* the test ends after its last step or at its first failure
CHECK_DEADLOCK FALSE
