------------------------------ MODULE MC_BlobIDs ------------------------------
EXTENDS BlobIDs

\* ascending calls over ranges shorter than 2^BlobIDBits
MCAscending == {a \in BlobID \X BlobID : a[1] <= a[2] /\ a[2] - a[1] + 1 < Modulus}

\* descending calls, as the catalog makes them
MCDescending == {a \in BlobID \X BlobID : a[1] > a[2]}
============================================================================
