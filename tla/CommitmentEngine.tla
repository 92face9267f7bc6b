--------------------------- MODULE CommitmentEngine ---------------------------
(***************************************************************************)
(* The commitment engine and transaction creator: GenerateBlob's KZG      *)
(* commitment, KZGToVersionedHash, GetVersionedHash,                       *)
(* Blobs.ComputeCommitmentsAndProofs, BlobsBundle.VersionedHashes,         *)
(* BlobDataGenerator and BlobTransactionCreator.MakeTransaction.           *)
(*                                                                         *)
(* A blob is the BlobID it was filled from (FillBlob is deterministic and  *)
(* BlobSynth checks it).  The KZG library is an opaque capability: the     *)
(* commitment of blob b is [kzg |-> b], its proof [proof |-> b], and a     *)
(* versioned hash is the commitment it hashes with its version byte.  The  *)
(* library refuses the blobs in failCommit and the proofs of the blobs in  *)
(* failProof; both sets are chosen in Init.                                *)
(***************************************************************************)
EXTENDS Integers, Sequences, SequencesExt, FiniteSets

CONSTANTS StartIDs, MaxCount, FailableBlobs, Goroutines, NoOwner

ASSUME NoOwner \notin Goroutines

KZGVersion == 1   \* BlobCommitmentVersionKZG

VARIABLES failCommit, failProof, creator, out,
          pc, onceDone, onceOwner, gCryptoCtx, seen, crashed

vars == <<failCommit, failProof, creator, out,
          pc, onceDone, onceOwner, gCryptoCtx, seen, crashed>>

NoResult == [none |-> TRUE]
NoIndex == -1

\* the library's calls: a result record with ok FALSE on failure
BlobToKZGCommitment(b) ==
  IF b \in failCommit THEN [ok |-> FALSE] ELSE [ok |-> TRUE, val |-> [kzg |-> b]]
ComputeBlobKZGProof(b, c) ==
  IF b \in failProof THEN [ok |-> FALSE] ELSE [ok |-> TRUE, val |-> [proof |-> c.kzg]]

\* KZGToVersionedHash: sha256 of the commitment with its first byte the version
KZGToVersionedHash(c) == [of |-> c, ver |-> KZGVersion]

\* an error and the blob index its message names (NoIndex when it names none)
Err(what, index) == [err |-> what, index |-> index]
IsErr(r) == "err" \in DOMAIN r

\* GenerateBlob: FillBlob (which cannot fail on a fresh blob), then the commitment
GenerateBlob(id) ==
  LET c == BlobToKZGCommitment(id)
  IN IF c.ok THEN [blob |-> id, kzg |-> c.val] ELSE Err("GenerateBlob (2)", NoIndex)

\* GetVersionedHash: the commitment's sha256 behind the given version byte
GetVersionedHash(id, version) ==
  LET g == GenerateBlob(id)
  IN IF IsErr(g) THEN Err("GetVersionedHash", NoIndex) ELSE [of |-> g.kzg, ver |-> version]

(* Mutant of ComputeCommitmentsAndProofs: the proof's error unchecked, a *)
(* zero proof stored for the blob.                                        *)
RECURSIVE ComputeCommitmentsAndProofsNoProofCheck(_, _, _)
ComputeCommitmentsAndProofsNoProofCheck(blobs, i, acc) ==
  IF i > Len(blobs) THEN acc
  ELSE LET c == BlobToKZGCommitment(blobs[i])
           pr == ComputeBlobKZGProof(blobs[i], c.val)
           proof == IF pr.ok THEN pr.val ELSE [proof |-> NoIndex]
       IN IF ~c.ok THEN Err("could not convert blob to commitment", NoIndex)
          ELSE ComputeCommitmentsAndProofsNoProofCheck(blobs, i + 1,
                 [acc EXCEPT !.commitments = Append(@, c.val),
                             !.proofs = Append(@, proof),
                             !.hashes = Append(@, KZGToVersionedHash(c.val))])

(* Blobs.ComputeCommitmentsAndProofs from index i on, acc the lists so    *)
(* far: the first blob whose commitment or proof fails ends the loop with *)
(* nil lists and an error.                                                 *)
RECURSIVE ComputeCommitmentsAndProofs(_, _, _)
ComputeCommitmentsAndProofs(blobs, i, acc) ==
  IF i > Len(blobs) THEN acc
  ELSE LET c == BlobToKZGCommitment(blobs[i])
           pr == ComputeBlobKZGProof(blobs[i], c.val)
       IN IF ~c.ok THEN Err("could not convert blob to commitment", NoIndex)
          ELSE IF ~pr.ok THEN Err("could not compute proof for blob", NoIndex)
          ELSE ComputeCommitmentsAndProofs(blobs, i + 1,
                 [acc EXCEPT !.commitments = Append(@, c.val),
                             !.proofs = Append(@, pr.val),
                             !.hashes = Append(@, KZGToVersionedHash(c.val))])

EmptyLists == [commitments |-> <<>>, proofs |-> <<>>, hashes |-> <<>>]

\* BlobsBundle.VersionedHashes over the commitments of a bundle
BundleVersionedHashes(commitments, version) ==
  [i \in 1 .. Len(commitments) |-> [of |-> commitments[i], ver |-> version]]

\* Mutant of BlobDataGenerator: blob i generated from startBlobId + i + 1.
BlobDataGeneratorShifted(start, count) ==
  LET gen == [i \in 1 .. count |-> GenerateBlob(start + i)]
      failedAt == {i \in 1 .. count : IsErr(gen[i])}
      cp == ComputeCommitmentsAndProofs([i \in 1 .. count |-> gen[i].blob], 1, EmptyLists)
  IN IF failedAt # {} THEN gen[Min(failedAt)]
     ELSE IF IsErr(cp) THEN Err(cp.err, cp.index)
     ELSE [hashes |-> [i \in 1 .. count |-> KZGToVersionedHash(gen[i].kzg)],
           blobs |-> [i \in 1 .. count |-> gen[i].blob],
           commitments |-> [i \in 1 .. count |-> gen[i].kzg],
           proofs |-> cp.proofs]

(* BlobDataGenerator: blobs startBlobId .. startBlobId+count-1 with their *)
(* commitments (the first failure is returned), their versioned hashes,   *)
(* then the proofs from ComputeCommitmentsAndProofs over the same blobs.  *)
BlobDataGenerator(start, count) ==
  LET gen == [i \in 1 .. count |-> GenerateBlob(start + i - 1)]
      failedAt == {i \in 1 .. count : IsErr(gen[i])}
      cp == ComputeCommitmentsAndProofs([i \in 1 .. count |-> gen[i].blob], 1, EmptyLists)
  IN IF failedAt # {} THEN gen[Min(failedAt)]
     ELSE IF IsErr(cp) THEN Err(cp.err, cp.index)
     ELSE [hashes |-> [i \in 1 .. count |-> KZGToVersionedHash(gen[i].kzg)],
           blobs |-> [i \in 1 .. count |-> gen[i].blob],
           commitments |-> [i \in 1 .. count |-> gen[i].kzg],
           proofs |-> cp.proofs]

(* MakeTransaction: the wrap data first, then the To check; the signed    *)
(* transaction carries the generated hashes as its BlobHashes.            *)
MakeTransaction(tc) ==
  LET d == BlobDataGenerator(tc.blobID, tc.blobCount)
  IN IF IsErr(d) THEN d
     ELSE IF ~tc.to THEN Err("nil to address", NoIndex)
     ELSE [blobHashes |-> d.hashes,
           blobData |-> [blobs |-> d.blobs, commitments |-> d.commitments, proofs |-> d.proofs]]

Creators == [blobID : StartIDs, blobCount : 0 .. MaxCount, to : BOOLEAN]

(***************************************************************************)
(* The goroutines of a ParallelSteps whose steps send blob transactions:  *)
(* each calls MakeTransaction once.  Its first CryptoCtx call (GenerateBlob *)
(* of its first blob, or ComputeCommitmentsAndProofs when it has none) is *)
(* the one that may run InitializeCryptoCtx; its later calls find the Once *)
(* done and copy the context.  pc follows that first call through          *)
(* sync.Once.Do: the done fast path, the Once's mutex, the done re-check,  *)
(* NewContext4096Insecure1337, the copy into gCryptoCtx (a multi-word      *)
(* struct assignment: "torn" while half written), the deferred done store  *)
(* and unlock, then the copy CryptoCtx returns (seen).                     *)
(***************************************************************************)
Init ==
  /\ failCommit \in SUBSET FailableBlobs
  /\ failProof \in SUBSET FailableBlobs
  /\ creator \in [Goroutines -> Creators]
  /\ out = [g \in Goroutines |-> NoResult]
  /\ pc = [g \in Goroutines |-> "call"]
  /\ onceDone = FALSE
  /\ onceOwner = NoOwner
  /\ gCryptoCtx = "zero"
  /\ seen = [g \in Goroutines |-> "zero"]
  /\ crashed = FALSE

Goto(g, to) == pc' = [pc EXCEPT ![g] = to]

\* Mutant of CryptoCtx: a lazy nil check on the global instead of the Once.
CryptoCtxNoOnce(g) ==
  /\ ~crashed /\ pc[g] = "call"
  /\ Goto(g, IF gCryptoCtx # "zero" THEN "read" ELSE "newctx")
  /\ UNCHANGED <<failCommit, failProof, creator, out, onceDone, onceOwner, gCryptoCtx, seen, crashed>>

\* CryptoCtx calls InitializeCryptoCtx: Once.Do's atomic load of done
CryptoCtx(g) ==
  /\ ~crashed /\ pc[g] = "call"
  /\ Goto(g, IF onceDone THEN "read" ELSE "lock")
  /\ UNCHANGED <<failCommit, failProof, creator, out, onceDone, onceOwner, gCryptoCtx, seen, crashed>>

\* Once.doSlow: Lock, then done loaded again under the mutex
LockOnce(g) ==
  /\ ~crashed /\ pc[g] = "lock" /\ onceOwner = NoOwner
  /\ onceOwner' = g
  /\ Goto(g, IF onceDone THEN "unlock" ELSE "newctx")
  /\ UNCHANGED <<failCommit, failProof, creator, out, onceDone, gCryptoCtx, seen, crashed>>

(* The Once's function: NewContext4096Insecure1337, whose error is a      *)
(* panic that no goroutine of ParallelSteps recovers, so the process ends. *)
NewContext(g) ==
  /\ ~crashed /\ pc[g] = "newctx"
  /\ \/ /\ Goto(g, "copy")
        /\ UNCHANGED crashed
     \/ /\ crashed' = TRUE
        /\ UNCHANGED pc
  /\ UNCHANGED <<failCommit, failProof, creator, out, onceDone, onceOwner, gCryptoCtx, seen>>

\* gCryptoCtx = *ctx, one half of the struct after the other
CopyCtx(g) ==
  /\ ~crashed /\ pc[g] \in {"copy", "copy2"}
  /\ gCryptoCtx' = IF pc[g] = "copy" THEN "torn" ELSE "ready"
  /\ Goto(g, IF pc[g] = "copy" THEN "copy2" ELSE "store")
  /\ UNCHANGED <<failCommit, failProof, creator, out, onceDone, onceOwner, seen, crashed>>

\* doSlow's defers in reverse order: done.Store(1), then Unlock
StoreDone(g) ==
  /\ ~crashed /\ pc[g] = "store"
  /\ onceDone' = TRUE
  /\ onceOwner' = NoOwner
  /\ Goto(g, "read")
  /\ UNCHANGED <<failCommit, failProof, creator, out, gCryptoCtx, seen, crashed>>

\* done was already set under the mutex: Unlock and return
UnlockOnce(g) ==
  /\ ~crashed /\ pc[g] = "unlock"
  /\ onceOwner' = NoOwner
  /\ Goto(g, "read")
  /\ UNCHANGED <<failCommit, failProof, creator, out, onceDone, gCryptoCtx, seen, crashed>>

\* CryptoCtx's return gCryptoCtx: the copy the KZG calls then use
ReadCtx(g) ==
  /\ ~crashed /\ pc[g] = "read"
  /\ seen' = [seen EXCEPT ![g] = gCryptoCtx]
  /\ Goto(g, "make")
  /\ UNCHANGED <<failCommit, failProof, creator, out, onceDone, onceOwner, gCryptoCtx, crashed>>

\* the rest of SendNextTransaction's MakeTransaction with the creator's fields
Make(g) ==
  /\ ~crashed /\ pc[g] = "make"
  /\ out' = [out EXCEPT ![g] = MakeTransaction(creator[g])]
  /\ Goto(g, "done")
  /\ UNCHANGED <<failCommit, failProof, creator, onceDone, onceOwner, gCryptoCtx, seen, crashed>>

Goroutine(g) ==
  \/ CryptoCtx(g) \/ LockOnce(g) \/ NewContext(g) \/ CopyCtx(g)
  \/ StoreDone(g) \/ UnlockOnce(g) \/ ReadCtx(g) \/ Make(g)

Next == \E g \in Goroutines : Goroutine(g)

\* the Go scheduler runs every runnable goroutine
Spec == Init /\ [][Next]_vars

(* A transaction MakeTransaction returns carries wrap data for exactly    *)
(* the blobs creator.BlobID .. BlobID+BlobCount-1, in order, each with its *)
(* own commitment and proof, and its BlobHashes are, index for index, the *)
(* versioned hashes the payload checkpoints recompute from the bundle's   *)
(* commitments (BlobsBundle.VersionedHashes) and those GetVersionedHash    *)
(* gives for the BlobIDs: the three derivations agree.                    *)
WrapDataConsistent ==
  \A g \in Goroutines : (out[g] # NoResult /\ ~IsErr(out[g])) =>
    LET d == out[g].blobData
        n == creator[g].blobCount
        id == creator[g].blobID
    IN /\ d.blobs = [i \in 1 .. n |-> id + i - 1]
       /\ Len(d.commitments) = n /\ Len(d.proofs) = n
       /\ \A i \in 1 .. n : d.proofs[i] = [proof |-> d.commitments[i].kzg]
                          /\ d.commitments[i] = [kzg |-> d.blobs[i]]
       /\ out[g].blobHashes = BundleVersionedHashes(d.commitments, KZGVersion)
       /\ \A i \in 1 .. n : out[g].blobHashes[i] = GetVersionedHash(d.blobs[i], KZGVersion)

(* MakeTransaction never hands out a transaction built over a refusal: it *)
(* returns an error exactly when the library refused the commitment or    *)
(* the proof of one of the creator's blobs, or To is nil, so no failed    *)
(* computation is silently skipped.                                       *)
FailsAtomically ==
  \A g \in Goroutines : out[g] # NoResult =>
    LET blobs == {creator[g].blobID + i - 1 : i \in 1 .. creator[g].blobCount}
        refused == blobs \cap (failCommit \cup failProof) # {}
    IN IsErr(out[g]) <=> (refused \/ ~creator[g].to)

(* Two goroutines building transactions at once both go through          *)
(* CryptoCtx: whichever reaches the Once second, and every later call,   *)
(* gets the context only after NewContext4096Insecure1337 returned and    *)
(* gCryptoCtx was completely written, never the zero value or a half      *)
(* copied one; and the context is built once.                            *)
CtxReadyWhenRead ==
  /\ \A g \in Goroutines : pc[g] \in {"make", "done"} => seen[g] = "ready"
  /\ Cardinality({g \in Goroutines : pc[g] \in {"copy", "copy2"}}) <= 1

=============================================================================
