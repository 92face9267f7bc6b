--------------------------- MODULE MC_PayloadCycle ---------------------------
EXTENDS PayloadCycle, TLC

\* a NewPayloads step; hashes is NoOverride or a VersionedHashes override
NP(count, expected, expectedBlobs, version, hashes, customize, expectErr, status) ==
  [kind |-> "np", count |-> count, expected |-> expected, expectedBlobs |-> expectedBlobs,
   version |-> version, hashes |-> hashes, customize |-> customize,
   expectErr |-> expectErr, status |-> status, probe |-> "none"]

\* a LaunchClients step
Launch(count, skipBoot, skipCL) ==
  [kind |-> "launch", count |-> count, skipBoot |-> skipBoot, skipCL |-> skipCL]

\* a SendModifiedLatestPayload step; syncing marks a "(Syncing)" test
Modified(client, hashes, status, syncing) ==
  [kind |-> "modified", client |-> client, hashes |-> hashes, status |-> status,
   syncing |-> syncing]

\* a VersionedHashes override: BlobIDs and the HashVersions given
VH(blobs, versions) == [blobs |-> blobs, versions |-> versions]

MCTxOrder == <<"t0", "x1", "x2", "x3", "x4", "x5", "x6", "x7">>
MCTxBlobs == ("x1" :> <<0>>) @@ ("x2" :> <<1, 2>>) @@ ("x3" :> <<3>>) @@ ("x4" :> <<4>>) @@ ("x5" :> <<5>>) @@ ("x6" :> <<6>>) @@ ("x7" :> <<7>>)

\* one pre-Cancun block, two Cancun blocks of two blobs each (so that the
\* excess rises above zero and the blob price above its minimum), a V2 call
\* on a Cancun payload that must be refused, a customized payload and a
\* payload sent with the hash of a blob it does not include
MCPragueSteps ==
  << NP(1, 0, {}, 0, NoOverride, FALSE, FALSE, "VALID"),
     NP(2, 2, {}, 0, NoOverride, FALSE, FALSE, "VALID"),
     NP(1, 1, {}, 2, NoOverride, FALSE, TRUE, ""),
     NP(1, 0, {}, 0, NoOverride, TRUE, FALSE, "INVALID"),
     NP(1, 1, {4}, 0, VH(<<5>>, <<1>>), FALSE, FALSE, "INVALID") >>

(* The catalog's "NewPayloadV3 Versioned Hashes, Empty Hashes (Syncing)":  *)
(* NewPayloads{}, a block with TARGET_BLOBS_PER_BLOCK blobs (the          *)
(* SendBlobTransactions before it is the mempool TxOrder), a client with  *)
(* no peer outside the CL mock, and the latest payload sent to it with an *)
(* empty list of versioned hashes, expecting INVALID.                     *)
EmptyHashesSyncing ==
  << NP(0, 0, {}, 0, NoOverride, FALSE, FALSE, ""),
     NP(1, 1, {0}, 0, NoOverride, FALSE, FALSE, ""),
     Launch(0, TRUE, TRUE),
     Modified(1, VH(<<>>, <<>>), "INVALID", TRUE) >>

(* The catalog's "NewPayloadV3 Versioned Hashes, Extra Hash": a block of  *)
(* TARGET_BLOBS_PER_BLOCK blobs sent with Blobs: GetBlobList(first,        *)
(* TARGET_BLOBS_PER_BLOCK+1) and no HashVersions, expecting INVALID; first *)
(* is the block's first BlobID, 7 after the steps before it.              *)
ExtraHash == NP(0, 1, {7}, 0, VH(<<7, 8>>, <<>>), FALSE, FALSE, "INVALID")

\* that test, then a client with the bootnode as its peer and outside the CL
\* mock (as in the test that sends blob transactions to two clients), then
\* the blocks of MCPragueSteps after the first, then the "Extra Hash" block
MCSteps == EmptyHashesSyncing \o <<Launch(0, FALSE, TRUE)>> \o Tail(MCPragueSteps) \o <<ExtraHash>>

\* every fault the checkpoints are meant to catch
MCCheckedFaults == AllFaults \ {"usedWrong", "hashesUnordered"}

MCNone == {}

\* 4-bit BlobIDs stand for the uint64 BlobID of GetBlobListByIndex
BI == INSTANCE BlobIDs WITH BlobIDBits <- 4, Inputs <- {}, args <- <<>>, result <- <<>>

\* the catalog's "NewPayloadV3 Versioned Hashes, Out of Order": a block of
\* two blobs sent with Blobs: GetBlobListByIndex(TARGET_BLOBS_PER_BLOCK-1, 0)
\* and no HashVersions
MCOrderTxOrder == <<"y">>
MCOrderTxBlobs == "y" :> <<0, 1>>
MCOrderStep ==
  [NP(1, 2, {0, 1}, 0, VH(BI!GetBlobListByIndex(1, 0), <<>>), FALSE, FALSE, "INVALID")
     EXCEPT !.probe = "order"]
MCOrderSteps == <<MCOrderStep>>
MCOrderFault == {"hashesUnordered"}
MCNoFork == NoFork
============================================================================
