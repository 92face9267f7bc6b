\* descending calls on 4-bit IDs, e.g. GetBlobListByIndex(2, 0)
CONSTANTS
  BlobIDBits = 4
  Inputs <- MCDescending
SPECIFICATION Spec
INVARIANT ListMatchesRange
