\* The same genesis and calls, checking the fork ordering of every genesis
\* that has a PragueTime.
CONSTANTS
  Times = {0, 1, 2}
  PreAddrs = {1, 257}
  BeaconRootsAddress = 10
  DepositContractAddress = 11
  DatahashAddrs = {256, 257, 258}
  MaxCalls = 3
INIT Init
NEXT Next
INVARIANT ForkOrderHolds
\* the calls stop at MaxCalls, or at the panic of ConfigTestAccounts
CHECK_DEADLOCK FALSE
