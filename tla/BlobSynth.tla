------------------------------ MODULE BlobSynth ------------------------------
(***************************************************************************)
(* The deterministic blob synthesizer of helper/blobs.go: FillBlob writes  *)
(* a sha256 chain into the blob's field elements and clamps each element   *)
(* below the BLS modulus byte by byte; VerifyBlob recomputes the same      *)
(* chain on a copy and compares; GenerateBlob fills a fresh blob and hands *)
(* it to the KZG library, which refuses a non-canonical field element.    *)
(*                                                                         *)
(* A byte is a digit of base B, a field element W digits big-endian, a    *)
(* blob FE elements.  sha256 is the constant operator Sha256 on W-digit    *)
(* sequences.  The modulus is chosen in Init from Moduli, so the clamp is  *)
(* checked against every modulus of that width, not just the one whose    *)
(* first byte already decides it.                                          *)
(*                                                                         *)
(* The generated blob then travels as JSON text, as in the blobs bundle of *)
(* getPayload: Blob.MarshalText on one side, Blob.UnmarshalText into a    *)
(* fresh blob on the other, and VerifyBlob runs on what was decoded.  A    *)
(* character is a one-letter string; the sender may put any character of  *)
(* WireChars at one position of the text, or drop its last character.     *)
(* The bundle's commitment travels beside the blob: a commitment is named  *)
(* by the BlobID it was computed from, one byte standing for 48, encoded   *)
(* by KZGCommitment.MarshalText and decoded by hexutil.UnmarshalFixedText; *)
(* the corruption hits one of the two texts.                              *)
(***************************************************************************)
EXTENDS Integers, Sequences, SequencesExt

CONSTANTS B, W, FE, IDs, Moduli, Sha256(_), WireChars

Digit == 0 .. (B - 1)
FieldElem == [1 .. W -> Digit]

\* the big-endian value of a digit sequence
Value(s) == FoldLeft(LAMBDA acc, d : acc * B + d, 0, s)

\* big-endian W-digit encoding of n (binary.BigEndian.PutUint64)
BigEndian(n) == [i \in 1 .. W |-> (n \div B ^ (W - i)) % B]

ASSUME /\ B >= 2 /\ W >= 1 /\ FE >= 1
       /\ IDs \subseteq 0 .. (B ^ W - 1)
       /\ Moduli \subseteq FieldElem
       /\ \A m \in Moduli : Value(m) > 0
       /\ \A e \in FieldElem : Sha256(e) \in FieldElem

VARIABLES BlsModulus, id, blob, phase, verdict, text, received, ctext, rcommit

vars == <<BlsModulus, id, blob, phase, verdict, text, received, ctext, rcommit>>

EmptyFieldElem == [i \in 1 .. W |-> 0]
ZeroBlob == [k \in 1 .. FE * W |-> 0]
NoVerdict == [none |-> TRUE]

\* blob[chunkIdx*32:(chunkIdx+1)*32], chunks numbered from 1
Chunk(b, c) == [i \in 1 .. W |-> b[(c - 1) * W + i]]

\* copy(blob[chunkIdx*32:(chunkIdx+1)*32], currentHashed[:])
CopyInto(b, c, h) ==
  SubSeq(b, 1, (c - 1) * W) \o h \o SubSeq(b, c * W + 1, Len(b))

(* Mutant of ClampBlob: the little-endian index left commented out at     *)
(* blobs.go:171, blobByteIdx := ((chunkIdx + 1) * 32) - i - 1.            *)
RECURSIVE ClampBlobReversed(_, _, _)
ClampBlobReversed(b, c, i) ==
  LET k == c * W - i + 1 IN
  IF i > W \/ b[k] < BlsModulus[i] THEN b
  ELSE IF BlsModulus[i] > 0 THEN [b EXCEPT ![k] = BlsModulus[i] - 1]
  ELSE ClampBlobReversed([b EXCEPT ![k] = BlsModulus[i]], c, i + 1)

(* FillBlob's inner loop over byte i of chunk c, in place on the blob:    *)
(* stop below the modulus byte, else lower a nonzero modulus byte by one  *)
(* and stop, else copy the zero modulus byte and go on.                   *)
RECURSIVE ClampBlob(_, _, _)
ClampBlob(b, c, i) ==
  LET k == (c - 1) * W + i IN
  IF i > W \/ b[k] < BlsModulus[i] THEN b
  ELSE IF BlsModulus[i] > 0 THEN [b EXCEPT ![k] = BlsModulus[i] - 1]
  ELSE ClampBlob([b EXCEPT ![k] = BlsModulus[i]], c, i + 1)

\* FillBlob's outer loop from chunk c with the current digest h
RECURSIVE FillChunks(_, _, _)
FillChunks(b, c, h) ==
  IF c > FE THEN b
  ELSE FillChunks(ClampBlob(CopyInto(b, c, h), c, 1), c + 1, Sha256(h))

\* blob zero is the empty blob, so it is left as is
FillBlob(x, b) == IF x = 0 THEN b ELSE FillChunks(b, 1, Sha256(BigEndian(x)))

\* VerifyBlob's clamp of expectedFieldElem, a copy of the digest
RECURSIVE ClampElem(_, _)
ClampElem(e, i) ==
  IF i > W \/ e[i] < BlsModulus[i] THEN e
  ELSE IF BlsModulus[i] > 0 THEN [e EXCEPT ![i] = BlsModulus[i] - 1]
  ELSE ClampElem([e EXCEPT ![i] = BlsModulus[i]], i + 1)

\* Mutant of VerifyChunks: the digest advanced before it is compared.
RECURSIVE VerifyChunksHashFirst(_, _, _)
VerifyChunksHashFirst(b, c, h) ==
  c > FE \/ /\ Chunk(b, c) = ClampElem(Sha256(h), 1)
            /\ VerifyChunksHashFirst(b, c + 1, Sha256(h))

\* VerifyBlob's loop: every chunk equals the clamped digest, first mismatch fails
RECURSIVE VerifyChunks(_, _, _)
VerifyChunks(b, c, h) ==
  c > FE \/ /\ Chunk(b, c) = ClampElem(h, 1)
            /\ VerifyChunks(b, c + 1, Sha256(h))

VerifyBlob(x, b) ==
  IF x = 0 THEN \A c \in 1 .. FE : Chunk(b, c) = EmptyFieldElem
  ELSE VerifyChunks(b, 1, Sha256(BigEndian(x)))

\* the KZG library accepts a blob only if every element is below the modulus
CanonicalBlob(b) == \A c \in 1 .. FE : Value(Chunk(b, c)) < Value(BlsModulus)

----------------------------------------------------------------------------
(* The text encoding of types/blobs.go and encoding/hex.                  *)

HexDigits == <<"0", "1", "2", "3", "4", "5", "6", "7", "8", "9", "a", "b", "c", "d", "e", "f">>
UpperDigits == <<"A", "B", "C", "D", "E", "F">>

\* hex's reverse table: the value of a hex digit of either case, 16 for any other character
Nibble(c) ==
  CASE \E n \in 0 .. 15 : HexDigits[n + 1] = c -> CHOOSE n \in 0 .. 15 : HexDigits[n + 1] = c
    [] \E n \in 10 .. 15 : UpperDigits[n - 9] = c -> CHOOSE n \in 10 .. 15 : UpperDigits[n - 9] = c
    [] OTHER -> 16

\* Mutant of MarshalText: the two digits of a byte written low digit first.
MarshalTextSwapped(b) ==
  <<"0", "x">> \o FlattenSeq([k \in 1 .. Len(b) |-> <<HexDigits[(b[k] % 16) + 1], HexDigits[(b[k] \div 16) + 1]>>])

\* Blob.MarshalText: "0x", then hex.Encode of the bytes, high digit first
MarshalText(b) ==
  <<"0", "x">> \o FlattenSeq([k \in 1 .. Len(b) |-> <<HexDigits[(b[k] \div 16) + 1], HexDigits[(b[k] % 16) + 1]>>])

(* hex.Decode(dst, src) from byte i on: each pair of digits is one byte,  *)
(* written as soon as it is decoded; the first pair with a non-hex digit  *)
(* ends it with an error and the bytes before it already written.         *)
RECURSIVE HexDecode(_, _, _)
HexDecode(dst, src, i) ==
  IF 2 * i > Len(src) THEN [err |-> FALSE, dst |-> dst]
  ELSE LET hi == Nibble(src[2 * i - 1])
           lo == Nibble(src[2 * i])
       IN IF hi > 15 \/ lo > 15 THEN [err |-> TRUE, dst |-> dst]
          ELSE HexDecode([dst EXCEPT ![i] = hi * 16 + lo], src, i + 1)

\* Mutant of UnmarshalText: the prefix test with || for &&.
UnmarshalTextPrefixOr(b, t) ==
  IF Len(t) # 2 + 2 * FE * W THEN [err |-> TRUE, dst |-> b]
  ELSE IF ~(t[1] = "0" \/ t[2] = "x") THEN [err |-> TRUE, dst |-> b]
  ELSE HexDecode(b, SubSeq(t, 3, Len(t)), 1)

\* Mutant of KZGCommitment.MarshalText: hex.EncodeToString without "0x".
KZGCommitmentMarshalTextNoPrefix(c) == Tail(Tail(MarshalText(c)))

\* Blob.UnmarshalText into blob b: the length check, the "0x" check, then hex.Decode
UnmarshalText(b, t) ==
  IF Len(t) # 2 + 2 * FE * W THEN [err |-> TRUE, dst |-> b]
  ELSE IF ~(t[1] = "0" /\ t[2] = "x") THEN [err |-> TRUE, dst |-> b]
  ELSE HexDecode(b, SubSeq(t, 3, Len(t)), 1)

\* KZGCommitment.MarshalText: "0x" and hex.EncodeToString, as for a blob
KZGCommitmentMarshalText(c) == MarshalText(c)

Has0xPrefix(t) == Len(t) >= 2 /\ t[1] = "0" /\ t[2] \in {"x", "X"}

(* hexutil.UnmarshalFixedText into out: checkText (an empty text passes,  *)
(* otherwise a "0x" or "0X" prefix and an even length), the length of     *)
(* out, every digit checked before anything is written, then hex.Decode.  *)
UnmarshalFixedText(out, t) ==
  LET raw == IF Has0xPrefix(t) THEN SubSeq(t, 3, Len(t)) ELSE t
  IN IF Len(t) > 0 /\ ~Has0xPrefix(t) THEN [err |-> TRUE, dst |-> out]
     ELSE IF Len(raw) % 2 # 0 \/ Len(raw) \div 2 # Len(out) THEN [err |-> TRUE, dst |-> out]
     ELSE IF \E k \in 1 .. Len(raw) : Nibble(raw[k]) > 15 THEN [err |-> TRUE, dst |-> out]
     ELSE HexDecode(out, raw, 1)

\* KZGCommitment.UnmarshalText: UnmarshalFixedText into the commitment's bytes
KZGCommitmentUnmarshalText(c, t) == UnmarshalFixedText(c, t)

\* the commitment of the blob filled from BlobID x, and the zero commitment
CommitmentOf(x) == <<x>>
ZeroCommitment == <<0>>

\* the texts a sender may put on the wire for the encoding t
WireTexts(t) ==
  {t, SubSeq(t, 1, Len(t) - 1)} \cup {[t EXCEPT ![k] = c] : k \in 1 .. Len(t), c \in WireChars}

Init == /\ BlsModulus \in Moduli
        /\ id \in IDs
        /\ blob = ZeroBlob
        /\ phase = "new"
        /\ verdict = NoVerdict
        /\ text = <<>>
        /\ received = ZeroBlob
        /\ ctext = <<>>
        /\ rcommit = ZeroCommitment

\* GenerateBlob: FillBlob on a fresh blob, then BlobToKZGCommitment
GenerateBlob ==
  /\ phase = "new"
  /\ LET filled == FillBlob(id, blob)
     IN /\ blob' = filled
        /\ phase' = IF CanonicalBlob(filled) THEN "generated" ELSE "kzgError"
  /\ UNCHANGED <<BlsModulus, id, verdict, text, received, ctext, rcommit>>

(* the client serves the bundle as text: the blob's and the commitment's *)
(* MarshalText, one of them possibly corrupted                            *)
SendBlob ==
  /\ phase = "generated"
  /\ LET bt == MarshalText(blob)
         ct == KZGCommitmentMarshalText(CommitmentOf(id))
     IN \/ text' \in WireTexts(bt) /\ ctext' = ct
        \/ text' = bt /\ ctext' \in WireTexts(ct)
  /\ phase' = "sent"
  /\ UNCHANGED <<BlsModulus, id, blob, verdict, received, rcommit>>

(* the JSON decoder on the bundle, its fields in BlobsBundle's order: the *)
(* commitment's UnmarshalText, whose error ends the decoding, then the    *)
(* blob's into the bundle's zero blob                                     *)
ReceiveBlob ==
  /\ phase = "sent"
  /\ LET c == KZGCommitmentUnmarshalText(rcommit, ctext)
         r == UnmarshalText(received, text)
     IN IF c.err
        THEN /\ phase' = "decodeError"
             /\ UNCHANGED <<received, rcommit>>
        ELSE /\ rcommit' = c.dst
             /\ received' = r.dst
             /\ phase' = IF r.err THEN "decodeError" ELSE "received"
  /\ UNCHANGED <<BlsModulus, id, blob, verdict, text, ctext>>

\* BlobID x's VerifyBlob on the decoded blob
Verify(x) ==
  /\ phase = "received"
  /\ verdict' = [id |-> x, ok |-> VerifyBlob(x, received)]
  /\ UNCHANGED <<BlsModulus, id, blob, phase, text, received, ctext, rcommit>>

Next == GenerateBlob \/ SendBlob \/ ReceiveBlob \/ \E x \in IDs : Verify(x)

Spec == Init /\ [][Next]_vars

(* GenerateBlob never fails at BlobToKZGCommitment: the byte-wise clamp   *)
(* of FillBlob leaves every field element numerically below the modulus,  *)
(* whatever the digest and whichever modulus bytes are zero.              *)
GenerateNeverFails == phase # "kzgError"

(* VerifyBlob(x) accepts the generated blob exactly when it is the blob   *)
(* FillBlob writes for x: the two hand-copied clamp loops agree, so a     *)
(* blob verifies as its own BlobID and as no BlobID with other content.   *)
VerifyIsExactlyFill ==
  verdict # NoVerdict => (verdict.ok <=> received = FillBlob(verdict.id, ZeroBlob))

(* Bundle text round trip: a bundle whose texts are the MarshalText of the *)
(* generated blob and of its commitment always decodes, and the blob and  *)
(* the commitment come out of the JSON text byte for byte.                *)
RoundTrip ==
  (/\ phase \in {"received", "decodeError"}
   /\ text = MarshalText(blob) /\ ctext = KZGCommitmentMarshalText(CommitmentOf(id)))
    => phase = "received" /\ received = blob /\ rcommit = CommitmentOf(id)

\* the blob text format: "0x" and two hex digits for each byte of the blob
WellFormed(t) ==
  /\ Len(t) = 2 + 2 * FE * W
  /\ t[1] = "0" /\ t[2] = "x"
  /\ \A k \in 3 .. Len(t) : Nibble(t[k]) <= 15

\* the commitment text hexutil accepts: "0x" or "0X", two hex digits a byte
FixedWellFormed(t) ==
  /\ Len(t) = 2 + 2 * Len(ZeroCommitment) /\ Has0xPrefix(t)
  /\ \A k \in 3 .. Len(t) : Nibble(t[k]) <= 15

(* The bundle decodes exactly when both texts are well formed: for the    *)
(* blob any other length, a prefix other than "0x" or a character that is *)
(* not a hex digit is a decode error; for the commitment the same, except *)
(* that hexutil also takes "0X"; and every well-formed pair decodes.      *)
DecodeAcceptsExactlyWellFormed ==
  phase \in {"received", "decodeError"} =>
    (phase = "received" <=> WellFormed(text) /\ FixedWellFormed(ctext))
=============================================================================
