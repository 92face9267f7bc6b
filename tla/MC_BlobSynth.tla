---------------------------- MODULE MC_BlobSynth ----------------------------
(* Three-valued bytes, three-byte field elements, two elements per blob.  *)
(* Every modulus of that width is tried, so both the reducible and the    *)
(* zero-byte branch of the clamp are reached at every byte position.      *)
EXTENDS BlobSynth

MCModuli == {m \in FieldElem : Value(m) > 0}

\* a stand-in for sha256: a fixed permutation of the W-digit values
MCSha(e) == BigEndian((Value(e) * 7 + 5) % (B ^ W))
=============================================================================
