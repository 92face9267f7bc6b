\* Eight walk entries covering every branch of the walk function, two
\* tests of one fixture so the map order varies, two blocks for one test so
\* createArtefacts can fail between two block files.
CONSTANTS
  t1 = t1  t2 = t2  t3 = t3  t4 = t4  t5 = t5  t6 = t6
  Entries <- MCEntries
  MayFail <- MCMayFail
  Tests <- MCTests
  Network <- MCNetwork
  Blocks <- MCBlocks
  Ruleset <- MCRuleset
SPECIFICATION Spec
INVARIANT WalkAccountsForEveryTest
\* every test ends passed, fatal or reported, and the walk ends
CHECK_DEADLOCK FALSE
