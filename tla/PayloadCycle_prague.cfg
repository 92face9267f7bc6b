\* Prague activates at the third block; the client commits no fault
CONSTANTS
  ShanghaiTime = 0
  CancunTime = 2
  PragueTime = 3
  GenesisTs = 0
  TxOrder <- MCTxOrder
  TxBlobs <- MCTxBlobs
  TestSequence <- MCPragueSteps
  MaxBlobsPerBlock = 3
  TargetBlobsPerBlock = 1
  GasPerBlob = 1
  MinDataGasPrice = 1
  DataGasPriceUpdateFraction = 2
  Faults <- MCNone
SPECIFICATION Spec
INVARIANT NoFalseFailure
\* the test ends after its last step or at its first failure
CHECK_DEADLOCK FALSE
