--------------------------- MODULE MC_BlobTxPool ---------------------------
(* Instances of BlobTxPool for TLC.                                        *)
EXTENDS BlobTxPool

Step(txs, blobs, acct, client, replace, skip) ==
  [txs |-> txs, blobs |-> blobs, acct |-> acct, client |-> client,
   replace |-> replace, skipVerify |-> skip]

\* p1, p2: senders on distinct accounts run as a ParallelSteps; r replaces
\* the last transaction of p1's account; s0 sends from the vault account;
\* q1, q2: a ParallelSteps one of whose steps names an account that does not
\* exist; c1 names a client that does not exist.
SeqSteps == {"p1", "p2", "r", "s0", "q1", "q2", "c1", "b0", "b1", "b2", "b3"}
(* The catalog's "Replace Blob Transactions": one transaction of the     *)
(* default blob count from the vault account, then three steps that each *)
(* replace the last one (with higher fees, which the model leaves out).  *)
ReplaceBlobTransactions ==
  ("b0" :> Step(1, 0, 0, 0, FALSE, FALSE)) @@
  ("b1" :> Step(1, 0, 0, 0, TRUE, FALSE)) @@
  ("b2" :> Step(1, 0, 0, 0, TRUE, FALSE)) @@
  ("b3" :> Step(1, 0, 0, 0, TRUE, FALSE))

SeqCfg ==
  ("p1" :> Step(2, 1, 1, 0, FALSE, FALSE)) @@
  ("p2" :> Step(1, 2, 2, 0, FALSE, TRUE)) @@
  ("r"  :> Step(1, 0, 1, 0, TRUE, TRUE)) @@
  ("s0" :> Step(1, 1, 0, 0, FALSE, FALSE)) @@
  ("q1" :> Step(1, 1, 0, 0, FALSE, TRUE)) @@
  ("q2" :> Step(1, 1, 7, 0, FALSE, TRUE)) @@
  ("c1" :> Step(1, 1, 0, 3, FALSE, TRUE)) @@
  ReplaceBlobTransactions
SeqTests ==
  { << {"p1", "p2"}, {"r"}, {"q1", "q2"} >>,
    << {"s0"}, {"p1", "p2"} >>,
    << {"p1", "p2"}, {"r"} >>,
    << {"c1"} >>,
    << {"b0"}, {"b1"}, {"b2"}, {"b3"} >> }

(* The catalog's "Parallel Blob Transactions": a ParallelSteps of ten    *)
(* SendBlobTransactions from accounts 0 .. 9, five transactions of        *)
(* MAX_BLOBS_PER_BLOCK blobs each, verified from the node, cut to its     *)
(* first two senders with one transaction of one blob.                    *)
RaceSteps == {"a0", "a1"}
RaceCfg == ("a0" :> Step(1, 1, 0, 0, FALSE, FALSE)) @@ ("a1" :> Step(1, 1, 1, 0, FALSE, FALSE))
RaceTests == { << {"a0", "a1"} >> }
=============================================================================
