CONSTANTS
  Steps <- RaceSteps
  Cfg <- RaceCfg
  Tests <- RaceTests
  NumEngines = 1
  NumAccounts = 3
SPECIFICATION Spec
INVARIANT BlobIDsDisjoint
CHECK_DEADLOCK FALSE
