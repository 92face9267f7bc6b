\* every ascending call on 4-bit IDs
CONSTANTS
  BlobIDBits = 4
  Inputs <- MCAscending
SPECIFICATION Spec
INVARIANT ListMatchesRange
