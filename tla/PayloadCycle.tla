---------------------------- MODULE PayloadCycle ----------------------------
(***************************************************************************)
(* The NewPayloads step of the blob suite (suites/blobs/steps.go): for    *)
(* each of PayloadCount block-production cycles the CL mock builds a      *)
(* payload on the client and calls back three checkpoints, OnGetPayload,  *)
(* OnNewPayloadBroadcast and OnForkchoiceBroadcast.  The checkpoints      *)
(* cross-check the built payload, its blobs bundle and its receipts       *)
(* against the test's blob pool and the previous payload.                 *)
(*                                                                         *)
(* The client under test is the environment.  It builds its payload from  *)
(* its mempool like a conforming client would, except that in a cycle it  *)
(* may commit one fault from Faults; `fault' records which one, so that   *)
(* the properties can say whether the checkpoints caught it.  A blob is   *)
(* its BlobID; a commitment or proof is named by the BlobID it was         *)
(* computed from, and a versioned hash by that BlobID and its version     *)
(* byte.                                                                   *)
(*                                                                         *)
(* The sequence also holds LaunchClients steps, which start further        *)
(* clients, and SendModifiedLatestPayload steps, which send the CL mock's  *)
(* latest payload with other versioned hashes to one of them.  A client   *)
(* knows the blocks up to its head: the CL mock drives the clients it     *)
(* holds to every block it builds, a client started with the bootnode as  *)
(* its peer may fetch the bootnode's blocks at any time, and a client      *)
(* with no peer and outside the CL mock stays at genesis.                  *)
(***************************************************************************)
EXTENDS ForkConfig, Integers, Sequences, SequencesExt, FiniteSets

CONSTANTS
  TxOrder,        \* the client's mempool, in the order it packs transactions
  TxBlobs,        \* blob tx -> its BlobIDs, as recorded in the TestBlobTxPool
  TestSequence,   \* the test's steps: NewPayloads, LaunchClients, SendModifiedLatestPayload
  GenesisTs,      \* timestamp of the head when the test starts
  MaxBlobsPerBlock, TargetBlobsPerBlock, GasPerBlob,
  MinDataGasPrice, DataGasPriceUpdateFraction,
  Faults          \* the faults the client may commit

Nil == -1                       \* a nil *uint64 header field
NoBundle == [nil |-> TRUE]      \* a nil *BlobsBundle
NoOverride == [none |-> TRUE]   \* a nil step.VersionedHashes
KZGVersion == 1                 \* BLOB_COMMITMENT_VERSION_KZG
BlobTxs == DOMAIN TxBlobs
TargetDataGas == TargetBlobsPerBlock * GasPerBlob

BundleFaults == {"bundleNil", "bundleOrder", "bundleShort", "bundleRagged"}
HeaderFaults == {"excessWrong", "usedWrong", "fieldsWrong"}
ReceiptFaults == {"receiptUsed", "receiptPrice"}
\* hashesUnordered: the client compares versioned hashes as a set
ClientFaults == {"npInvalid", "hashesUnordered"}
AllFaults == BundleFaults \cup HeaderFaults \cup ReceiptFaults \cup ClientFaults

ASSUME Faults \subseteq AllFaults
\* a modified payload always comes with a VersionedHashes and an expected status
ASSUME \A i \in DOMAIN TestSequence :
         TestSequence[i].kind = "modified" => TestSequence[i].hashes # NoOverride
                                              /\ TestSequence[i].status # ""

VARIABLES
  built,      \* CLMock.LatestPayloadBuilt: [ts, txs, excess, used]
  bundle,     \* CLMock.LatestBlobBundle: NoBundle or [blobs, kzgs, proofs]
  receipts,   \* blob tx of `built' -> the receipt the client serves for it
  mempool,    \* transactions the client has not included yet
  fault,      \* the fault the client committed in the current cycle
  prev,       \* NewPayloads.Execute's previousPayload
  stepIdx,    \* index of the running NewPayloads step
  p,          \* the loop counter of Execute
  cb,         \* where the cycle is: build/getPayload/newPayload/fcu, idle, over
  failed,     \* the test called t.Fatalf
  engines     \* t.Engines: [inCL, peer, head] of each client, the first the bootnode

vars == <<built, bundle, receipts, mempool, fault, prev, stepIdx, p, cb, failed, engines>>

Step == TestSequence[stepIdx]

\* mutant: a zero PayloadCount is taken as it is
GetPayloadCountNoDefault(st) == st.count

\* NewPayloads.GetPayloadCount: a zero PayloadCount means one payload
GetPayloadCount(st) == IF st.count = 0 THEN 1 ELSE st.count

\* LaunchClients.GetClientCount: a zero ClientCount means one client
GetClientCount(st) == IF st.count = 0 THEN 1 ELSE st.count

\* the number of the block a payload builds, one timestamp unit per block
BlockNumber(pl) == pl.ts - GenesisTs

SeqSum(s) == FoldSeq(LAMBDA x, y : x + y, 0, s)

\* a nil header field counts as zero for the parent
Val(x) == IF x = Nil THEN 0 ELSE x

(* CalcExcessDataGas: the EIP-4844 excess recurrence.                     *)
CalcExcessDataGas(parentExcess, parentUsed) ==
  IF parentExcess + parentUsed < TargetDataGas THEN 0
  ELSE parentExcess + parentUsed - TargetDataGas

(* fake_exponential of EIP-4844: the Taylor sum of factor*e^(num/den),    *)
(* accumulated term by term until a term rounds down to zero.            *)
RECURSIVE FakeExpSum(_, _, _, _)
FakeExpSum(accum, i, num, den) ==
  IF accum = 0 THEN 0
  ELSE accum + FakeExpSum((accum * num) \div (den * i), i + 1, num, den)

GetDataGasPrice(excess) ==
  FakeExpSum(MinDataGasPrice * DataGasPriceUpdateFraction, 1, excess,
             DataGasPriceUpdateFraction) \div DataGasPriceUpdateFraction

----------------------------------------------------------------------------
(* Payload/pool cross-validation.                                         *)

\* the blob transactions of a payload, in payload order
BlobTxsInPayload(pl) == SelectSeq(pl.txs, LAMBDA t : t \in BlobTxs)

\* GetBlobDataInPayload: every included blob tx's wrap data, concatenated
GetBlobDataInPayload(pl) ==
  FlattenSeq([i \in 1..Len(BlobTxsInPayload(pl)) |-> TxBlobs[BlobTxsInPayload(pl)[i]]])

TotalBlobs(S) == SeqSum([i \in 1..Len(S) |-> Len(TxBlobs[S[i]])])

\* the versioned hashes the payload's transactions commit to
PayloadHashes(pl) ==
  LET d == GetBlobDataInPayload(pl) IN [i \in 1..Len(d) |-> [id |-> d[i], ver |-> KZGVersion]]

(* VersionedHashes.VersionedHashes: the hash of each listed BlobID, with  *)
(* the version byte given for its index or else the zero byte.            *)
VersionedHashesOf(vh) ==
  [i \in 1..Len(vh.blobs) |->
     [id |-> vh.blobs[i], ver |-> IF i <= Len(vh.versions) THEN vh.versions[i] ELSE 0]]

\* BlobsBundle.VersionedHashes: one hash per commitment of the bundle
BundleVersionedHashes(b, version) ==
  [i \in 1..Len(b.kzgs) |-> [id |-> b.kzgs[i], ver |-> version]]

(* VerifyBlobBundle: TRUE when the bundle passes every check of the       *)
(* function; `data' is GetBlobDataInPayload of the built payload.          *)
VerifyBlobBundle(data, b, st) ==
  /\ Len(b.blobs) = Len(b.kzgs) /\ Len(b.blobs) = Len(b.proofs)
  /\ Len(b.blobs) = st.expected
  /\ Len(data) = Len(b.blobs)
  /\ \A i \in 1..Len(data) :
        b.kzgs[i] = data[i] /\ b.blobs[i] = data[i] /\ b.proofs[i] = data[i]
  /\ \A e \in st.expectedBlobs : e \in Range(data)

\* mutant: the receipt's data gas price is not checked
VerifyPayloadNoPrice(pl, rc, prv, st) ==
  LET expectedExcess == CalcExcessDataGas(Val(prv.excess), Val(prv.used))
      txs == BlobTxsInPayload(pl)
  IN IF IsCancun(pl.ts)
     THEN /\ pl.excess # Nil /\ pl.used # Nil
          /\ pl.excess = expectedExcess
          /\ \A i \in 1..Len(txs) : rc[txs[i]].used = Len(TxBlobs[txs[i]]) * GasPerBlob
          /\ TotalBlobs(txs) = st.expected
     ELSE pl.excess = Nil /\ pl.used = Nil

(* VerifyPayload: TRUE when the payload, checked against previousPayload, *)
(* passes; the receipts are those the client serves.                      *)
VerifyPayload(pl, rc, prv, st) ==
  LET expectedExcess == CalcExcessDataGas(Val(prv.excess), Val(prv.used))
      txs == BlobTxsInPayload(pl)
  IN IF IsCancun(pl.ts)
     THEN /\ pl.excess # Nil /\ pl.used # Nil
          /\ pl.excess = expectedExcess
          /\ \A i \in 1..Len(txs) :
               rc[txs[i]] = [used  |-> Len(TxBlobs[txs[i]]) * GasPerBlob,
                             price |-> GetDataGasPrice(expectedExcess)]
          /\ TotalBlobs(txs) = st.expected
     ELSE pl.excess = Nil /\ pl.used = Nil

----------------------------------------------------------------------------
(* The client under test (Engine API behaviour, not code of this repo).   *)

\* newPayloadV2 also takes pre-Shanghai (V1) payloads
ClientAccepts(v, ts) == v = NewPayloadVersion(ts) \/ (v = 2 /\ NewPayloadVersion(ts) = 1)

\* the client's answer to the test's NewPayload call
ClientNewPayload(v, pl, hashes, customized) ==
  IF ~ClientAccepts(v, pl.ts) THEN [err |-> TRUE, status |-> ""]
  ELSE [err |-> FALSE,
        status |-> IF customized \/ fault = "npInvalid"
                      \/ (v >= 3 /\ fault # "hashesUnordered" /\ hashes # PayloadHashes(pl))
                      \/ (v >= 3 /\ fault = "hashesUnordered"
                                  /\ Range(hashes) # Range(PayloadHashes(pl)))
                   THEN "INVALID" ELSE "VALID"]

\* what a conforming client may pack into a block at `ts'
Packings(ts) ==
  { SelectSeq(TxOrder, LAMBDA t : t \in S) :
      S \in { S \in SUBSET mempool :
                /\ IsCancun(ts) \/ S \cap BlobTxs = {}
                /\ TotalBlobs(SelectSeq(TxOrder, LAMBDA t : t \in S \cap BlobTxs))
                     <= MaxBlobsPerBlock } }

HonestPayload(ts, txs) ==
  LET used == TotalBlobs(SelectSeq(txs, LAMBDA t : t \in BlobTxs)) * GasPerBlob
  IN IF IsCancun(ts)
     THEN [ts |-> ts, txs |-> txs, used |-> used,
           excess |-> CalcExcessDataGas(Val(built.excess), Val(built.used))]
     ELSE [ts |-> ts, txs |-> txs, excess |-> Nil, used |-> Nil]

\* GetPayloadV2 serves no bundle; from Cancun it lists the payload's blobs
HonestBundle(pl) ==
  IF IsCancun(pl.ts)
  THEN LET d == GetBlobDataInPayload(pl) IN [blobs |-> d, kzgs |-> d, proofs |-> d]
  ELSE NoBundle

HonestReceipts(pl) ==
  [t \in Range(BlobTxsInPayload(pl)) |->
     [used |-> Len(TxBlobs[t]) * GasPerBlob, price |-> GetDataGasPrice(Val(pl.excess))]]

Faulty(f, pl) ==
  CASE f = "excessWrong" -> [pl EXCEPT !.excess = @ + GasPerBlob]
    [] f = "usedWrong"   -> [pl EXCEPT !.used = @ + GasPerBlob]
    [] f = "fieldsWrong" -> IF IsCancun(pl.ts) THEN [pl EXCEPT !.excess = Nil]
                            ELSE [pl EXCEPT !.excess = 0, !.used = 0]
    [] OTHER             -> pl

FaultyBundle(f, b) ==
  CASE f = "bundleNil"    -> NoBundle
    [] f = "bundleOrder"  -> [blobs |-> Reverse(b.blobs), kzgs |-> Reverse(b.kzgs),
                              proofs |-> Reverse(b.proofs)]
    [] f = "bundleShort"  -> [blobs |-> Front(b.blobs), kzgs |-> Front(b.kzgs),
                              proofs |-> Front(b.proofs)]
    [] f = "bundleRagged" -> [b EXCEPT !.proofs = Front(@)]
    [] OTHER              -> b

\* receiptUsed: the first blob tx reports one blob too many;
\* receiptPrice: prices are taken from the parent's excess
FaultyReceipts(f, pl, rc) ==
  CASE f = "receiptUsed"  -> [rc EXCEPT ![BlobTxsInPayload(pl)[1]].used = @ + GasPerBlob]
    [] f = "receiptPrice" -> [t \in DOMAIN rc |-> [rc[t] EXCEPT !.price =
                                GetDataGasPrice(Val(built.excess))]]
    [] OTHER              -> rc

\* a fault counts only where it changes what the client serves
Effective(f, pl) ==
  LET b == HonestBundle(pl)
      rc == HonestReceipts(pl)
  IN CASE f \in BundleFaults  -> b # NoBundle /\ FaultyBundle(f, b) # b
       [] f \in HeaderFaults  -> (f # "fieldsWrong" => IsCancun(pl.ts)) /\ Faulty(f, pl) # pl
       [] f \in ReceiptFaults -> Len(BlobTxsInPayload(pl)) > 0 /\ FaultyReceipts(f, pl, rc) # rc
       [] f = "npInvalid"     -> Step.status = "VALID"
       \* only a step that probes the order of the hashes is meant to see it
       [] f = "hashesUnordered" -> Step.probe = "order" /\ Len(GetBlobDataInPayload(pl)) >= 2

----------------------------------------------------------------------------
(* The step and its checkpoints.                                          *)

GenesisPayload ==
  [ts |-> GenesisTs, txs |-> <<>>,
   excess |-> IF IsCancun(GenesisTs) THEN 0 ELSE Nil,
   used |-> IF IsCancun(GenesisTs) THEN 0 ELSE Nil]

Init ==
  /\ built = GenesisPayload
  /\ bundle = NoBundle
  /\ receipts = <<>>
  /\ mempool = Range(TxOrder)
  /\ fault = "none"
  /\ prev = GenesisPayload
  /\ stepIdx = 1
  /\ p = 0
  /\ cb = "idle"
  /\ failed = FALSE
  /\ engines = <<[inCL |-> TRUE, peer |-> FALSE, head |-> 0]>>

\* t.Fatalf on the test goroutine ends the test
Fatal ==
  /\ failed' = TRUE
  /\ cb' = "over"
  /\ UNCHANGED <<built, bundle, receipts, mempool, fault, prev, stepIdx, p, engines>>

\* Execute: previousPayload is the latest payload built before the loop
Execute ==
  /\ cb = "idle"
  /\ stepIdx <= Len(TestSequence) /\ Step.kind = "np"
  /\ prev' = built
  /\ p' = 0
  /\ cb' = IF GetPayloadCount(Step) > 0 THEN "build" ELSE "idle"
  /\ stepIdx' = IF GetPayloadCount(Step) > 0 THEN stepIdx ELSE stepIdx + 1
  /\ UNCHANGED <<built, bundle, receipts, mempool, fault, failed, engines>>

\* the sequence of steps has run to its end
SequenceDone ==
  /\ cb = "idle"
  /\ stepIdx > Len(TestSequence)
  /\ cb' = "over"
  /\ UNCHANGED <<built, bundle, receipts, mempool, fault, prev, stepIdx, p, failed, engines>>

\* ProduceSingleBlock: forkchoiceUpdated with attributes, then getPayload
Build ==
  /\ cb = "build"
  /\ \E txs \in Packings(built.ts + 1), f \in {"none"} \cup Faults :
       LET pl == HonestPayload(built.ts + 1, txs)
       IN /\ f # "none" => Effective(f, pl)
          /\ built' = Faulty(f, pl)
          /\ bundle' = IF HonestBundle(pl) = NoBundle THEN NoBundle ELSE FaultyBundle(f, HonestBundle(pl))
          /\ receipts' = FaultyReceipts(f, pl, HonestReceipts(pl))
          /\ mempool' = mempool \ Range(txs)
          /\ fault' = f
          /\ engines' = [i \in DOMAIN engines |->
                           IF engines[i].inCL THEN [engines[i] EXCEPT !.head = BlockNumber(pl)]
                           ELSE engines[i]]
  /\ cb' = "getPayload"
  /\ UNCHANGED <<prev, stepIdx, p, failed>>

OnGetPayload ==
  /\ cb = "getPayload"
  /\ IF ~IsCancun(built.ts)
       \/ (bundle # NoBundle /\ VerifyBlobBundle(GetBlobDataInPayload(built), bundle, Step))
     THEN /\ cb' = "newPayload"
          /\ UNCHANGED <<built, bundle, receipts, mempool, fault, prev, stepIdx, p, failed, engines>>
     ELSE Fatal

\* the version the checkpoint calls NewPayload with
NPVersion(st, ts) ==
  IF st.version # 0 THEN st.version ELSE IF IsCancun(ts) THEN 3 ELSE 2

\* the versioned hashes it submits
NPHashes(st) ==
  IF st.hashes # NoOverride THEN VersionedHashesOf(st.hashes)
  ELSE IF bundle # NoBundle THEN BundleVersionedHashes(bundle, KZGVersion) ELSE <<>>

\* the checkpoint's expectation on the response
ResponseExpected(st, r) ==
  IF st.expectErr THEN r.err
  ELSE ~r.err /\ (st.status # "" => r.status = st.status)

OnNewPayloadBroadcast ==
  /\ cb = "newPayload"
  /\ LET v == NPVersion(Step, built.ts)
     IN IF v \in {2, 3}
             /\ ResponseExpected(Step, ClientNewPayload(v, built, NPHashes(Step), Step.customize))
        THEN /\ cb' = "fcu"
             /\ UNCHANGED <<built, bundle, receipts, mempool, fault, prev, stepIdx, p, failed, engines>>
        ELSE Fatal

\* mutant: previousPayload is not advanced after a verified payload
OnForkchoiceBroadcastStalePrev ==
  /\ cb = "fcu"
  /\ IF VerifyPayload(built, receipts, prev, Step)
     THEN /\ p' = p + 1
          /\ IF p + 1 < GetPayloadCount(Step)
               THEN cb' = "build" /\ UNCHANGED stepIdx
               ELSE cb' = "idle" /\ stepIdx' = stepIdx + 1
          /\ UNCHANGED <<built, bundle, receipts, mempool, fault, prev, failed, engines>>
     ELSE Fatal

\* mutant: the loop bound `p <= payloadCount'
OnForkchoiceBroadcastExtraCycle ==
  /\ cb = "fcu"
  /\ IF VerifyPayload(built, receipts, prev, Step)
     THEN /\ prev' = built
          /\ p' = p + 1
          /\ IF p + 1 <= GetPayloadCount(Step)
               THEN cb' = "build" /\ UNCHANGED stepIdx
               ELSE cb' = "idle" /\ stepIdx' = stepIdx + 1
          /\ UNCHANGED <<built, bundle, receipts, mempool, fault, failed, engines>>
     ELSE Fatal

\* receipts are checked, previousPayload advances, the loop continues
OnForkchoiceBroadcast ==
  /\ cb = "fcu"
  /\ IF VerifyPayload(built, receipts, prev, Step)
     THEN /\ prev' = built
          /\ p' = p + 1
          /\ IF p + 1 < GetPayloadCount(Step)
               THEN cb' = "build" /\ UNCHANGED stepIdx
               ELSE cb' = "idle" /\ stepIdx' = stepIdx + 1
          /\ UNCHANGED <<built, bundle, receipts, mempool, fault, failed, engines>>
     ELSE Fatal

(* LaunchClients: StartClient for each of GetClientCount clients, with   *)
(* Engines[0] as its peer unless SkipConnectingToBootnode; each started   *)
(* client is appended to Engines, and to the CL mock unless               *)
(* SkipAddingToCLMock.  A StartClient error returns after the clients     *)
(* started so far were appended, and the runner fails the test.          *)
LaunchClients ==
  /\ cb = "idle"
  /\ stepIdx <= Len(TestSequence) /\ Step.kind = "launch"
  /\ LET new == [inCL |-> ~Step.skipCL, peer |-> ~Step.skipBoot, head |-> 0]
     IN \/ /\ engines' = engines \o [i \in 1..GetClientCount(Step) |-> new]
           /\ stepIdx' = stepIdx + 1
           /\ UNCHANGED <<fault, cb, failed>>
        \/ \E k \in 0..GetClientCount(Step) - 1 :
             /\ engines' = engines \o [i \in 1..k |-> new]
             /\ fault' = "startFailed"
             /\ failed' = TRUE
             /\ cb' = "over"
             /\ UNCHANGED stepIdx
  /\ UNCHANGED <<built, bundle, receipts, mempool, prev, p>>

\* a client with the bootnode as its peer fetches the bootnode's chain
SyncFromBootnode(i) ==
  /\ cb # "over"
  /\ engines[i].peer /\ engines[i].head < engines[1].head
  /\ engines' = [engines EXCEPT ![i].head = engines[1].head]
  /\ UNCHANGED <<built, bundle, receipts, mempool, fault, prev, stepIdx, p, cb, failed>>

\* the client knows the parent of the latest payload built
HasParent(e) == e.head + 1 >= BlockNumber(built)

(* A client's answer to NewPayloadV3 of the latest payload: as for a      *)
(* NewPayloads checkpoint, except that a client that does not know the    *)
(* payload's parent answers SYNCING where it would have validated it.    *)
ProbeAnswer(e, hashes) ==
  LET r == ClientNewPayload(3, built, hashes, FALSE)
  IN IF ~r.err /\ r.status = "VALID" /\ ~HasParent(e) THEN [r EXCEPT !.status = "SYNCING"] ELSE r

\* the step's ClientID names a client and r.ExpectStatus(ExpectedStatus) holds
ProbePasses(st) ==
  /\ st.client < Len(engines)
  /\ LET r == ProbeAnswer(engines[st.client + 1], VersionedHashesOf(st.hashes))
     IN ~r.err /\ r.status = st.status

(* SendModifiedLatestPayload: the versioned hashes of the step's           *)
(* VersionedHashes, the ClientID check, then NewPayloadV3 of               *)
(* CLMock.LatestPayloadBuilt to that client and ExpectStatus, whose        *)
(* failure is a t.Fatalf.                                                  *)
SendModifiedLatestPayload ==
  /\ cb = "idle"
  /\ stepIdx <= Len(TestSequence) /\ Step.kind = "modified"
  /\ IF ProbePasses(Step)
     THEN /\ stepIdx' = stepIdx + 1
          /\ UNCHANGED <<built, bundle, receipts, mempool, fault, prev, p, cb, failed, engines>>
     ELSE Fatal

Next ==
  \/ Execute
  \/ LaunchClients
  \/ SendModifiedLatestPayload
  \/ \E i \in DOMAIN engines : SyncFromBootnode(i)
  \/ SequenceDone
  \/ Build
  \/ OnGetPayload
  \/ OnNewPayloadBroadcast
  \/ OnForkchoiceBroadcast

\* CLMock invokes each checkpoint once it reaches it; the test goroutine
\* runs the loop without waiting on anything else
Spec == Init /\ [][Next]_vars /\ WF_vars(Next)

----------------------------------------------------------------------------
(* Properties.                                                            *)

PayloadType ==
  [ts : Nat, txs : Seq(Range(TxOrder)), excess : Nat \cup {Nil}, used : Nat \cup {Nil}]

TypeOK ==
  /\ built \in PayloadType
  /\ prev \in PayloadType
  /\ bundle = NoBundle \/ bundle \in [blobs : Seq(Nat), kzgs : Seq(Nat), proofs : Seq(Nat)]
  /\ mempool \subseteq Range(TxOrder)
  /\ fault \in {"none", "startFailed"} \cup Faults
  /\ engines \in Seq([inCL : BOOLEAN, peer : BOOLEAN, head : Nat])
  /\ stepIdx \in 1..Len(TestSequence) + 1
  /\ cb \in {"idle", "build", "getPayload", "newPayload", "fcu", "over"}
  /\ p \in Nat
  /\ cb \in {"build", "getPayload", "newPayload", "fcu"} =>
        stepIdx \in DOMAIN TestSequence /\ p < GetPayloadCount(Step)
  /\ failed \in BOOLEAN

\* the API version the fork policy prescribes, unless the step overrides it
IntendedVersion(st, ts) == IF st.version # 0 THEN st.version ELSE NewPayloadVersion(ts)

\* the step's declared expectations do not hold of what a conforming client
\* built and answers for the block that failed
ExpectationWrong ==
  LET d == GetBlobDataInPayload(built)
      hashes == IF Step.hashes # NoOverride THEN VersionedHashesOf(Step.hashes) ELSE PayloadHashes(built)
      v == IntendedVersion(Step, built.ts)
  IN IF Step.kind = "modified" THEN ~ProbePasses(Step) ELSE
     \/ IsCancun(built.ts) /\ Len(d) # Step.expected
     \/ IsCancun(built.ts) /\ ~(Step.expectedBlobs \subseteq Range(d))
     \/ ~ResponseExpected(Step, ClientNewPayload(v, built, hashes, Step.customize))

(* NoFalseFailure: the checkpoints fail the test only if the client       *)
(* committed a fault in that cycle or the step's own expectations are     *)
(* wrong for a conforming client.  It fails if previousPayload, the       *)
(* version selection or the bundle cross-check disagrees with the chain   *)
(* the client actually built.                                             *)
NoFalseFailure == failed => fault # "none" \/ ExpectationWrong

(* PassedCycleIsConformant: a cycle whose OnForkchoiceBroadcast checkpoint *)
(* passes was built without a fault: every fault the client can commit    *)
(* in a header field, the bundle, a receipt or its NewPayload answer is   *)
(* caught by one of the three checkpoints of that cycle.                  *)
PassedCycleIsConformant ==
  [][cb = "fcu" /\ cb' \in {"build", "idle"} => fault = "none"]_vars

(* A SendModifiedLatestPayload step of a "(Syncing)" test reaches a client *)
(* that does not know the parent of the CL mock's latest payload, whatever *)
(* the order in which the clients sync: the NewPayloads{} before it,       *)
(* counted as one payload, leaves the parent unknown to a client that was  *)
(* started without the bootnode and outside the CL mock.                   *)
SyncingProbeLacksParent ==
  (/\ cb = "idle" /\ stepIdx <= Len(TestSequence)
   /\ Step.kind = "modified" /\ Step.syncing /\ Step.client < Len(engines))
    => ~HasParent(engines[Step.client + 1])
============================================================================
