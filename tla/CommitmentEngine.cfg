\* Two goroutines of a ParallelSteps, each with a creator starting at BlobID
\* 0, 1 or 2 with up to three blobs, with or without a To address, against
\* every choice of refused commitments and proofs among blobs 1 and 2.
CONSTANTS
  StartIDs = {0, 1, 2}
  MaxCount = 3
  FailableBlobs = {1, 2}
  Goroutines = {g1, g2}
  NoOwner = NoOwner
SPECIFICATION Spec
INVARIANT FailsAtomically
INVARIANT WrapDataConsistent
INVARIANT CtxReadyWhenRead
\* each goroutine calls MakeTransaction once and returns, or the process panics
CHECK_DEADLOCK FALSE
