CONSTANTS
  Steps <- SeqSteps
  Cfg <- SeqCfg
  Tests <- SeqTests
  NumEngines = 1
  NumAccounts = 3
SPECIFICATION Spec
INVARIANT CounterNotLost
INVARIANT IndexTableComplete
INVARIANT PoolMirrorsClient
INVARIANT TypeOK
PROPERTY SequenceTerminates
PROPERTY RunnerContract
\* the test's goroutine ends once its step sequence is over
CHECK_DEADLOCK FALSE
