\* Fork times and genesis timestamps 0..2 with Shanghai and Cancun possibly
\* nil; a base genesis that may already hold one DATAHASH address; up to
\* three calls, so a failed ConfigGenesis can be followed by a retry and by
\* ConfigTestAccounts.
CONSTANTS
  Times = {0, 1, 2}
  PreAddrs = {1, 257}
  BeaconRootsAddress = 10
  DepositContractAddress = 11
  DatahashAddrs = {256, 257, 258}
  MaxCalls = 3
INIT Init
NEXT Next
INVARIANT SuccessIsValid
\* the calls stop at MaxCalls, or at the panic of ConfigTestAccounts
CHECK_DEADLOCK FALSE
