----------------------------- MODULE BlobTxPool -----------------------------
(***************************************************************************)
(* The SendBlobTransactions step (suites/blobs/steps.go), the test's       *)
(* TestBlobTxPool it fills, the ParallelSteps composite that runs several  *)
(* such steps as goroutines joined by a sync.WaitGroup, and the            *)
(* TestSequence runner that executes the test's steps one after the other. *)
(*                                                                         *)
(* A transaction is abstracted to the fields its hash depends on that the  *)
(* steps tell apart: sender account, nonce, the BlobIDs of its blobs and   *)
(* whether it is a replacement (higher fee); the hash is the record itself.*)
(***************************************************************************)
EXTENDS Integers, Sequences, FiniteSets, FiniteSetsExt, TLC

CONSTANTS
  Steps,        \* the SendBlobTransactions step values of the test
  Cfg,          \* Cfg[s]: the step's fields (txs, blobs, acct, client, replace, skipVerify)
  Tests,        \* the tests to run: each a TestSequence whose entries with more than one step are ParallelSteps
  NumEngines,   \* len(t.Engines)
  NumAccounts   \* len(globals.TestAccounts)

ASSUME /\ \A T \in Tests : T \in Seq(SUBSET Steps) /\ Len(T) > 0
       /\ \A T \in Tests : \A i, j \in DOMAIN T : i # j => T[i] \cap T[j] = {}
       /\ NumEngines \in Nat \ {0} /\ NumAccounts \in Nat \ {0}

NoErr == "nil"
NoTx == [acct |-> 0, nonce |-> 0, ids |-> {}, repl |-> FALSE]
Pending == "pending"
Accounts == 0 .. NumAccounts - 1

VARIABLES
  testSeq,        \* the TestSequence being run
  pc,             \* pc[s]: where step s's Execute is
  bTx,            \* bTx[s]: loop counter of step s
  startId,        \* startId[s]: the BlobID step s read into its BlobTransactionCreator
  tx,             \* tx[s]: the transaction step s last sent
  retErr,         \* retErr[s]: the error step s's Execute returned
  currentBlobID,  \* TestBlobTxPool.CurrentBlobID
  currentTxIndex, \* TestBlobTxPool.CurrentTransactionIndex
  hashesByIndex,  \* TestBlobTxPool.HashesByIndex
  pool,           \* TestBlobTxPool.Transactions (its values; the key is the hash)
  nonce,          \* the client's next nonce per account
  accepted,       \* every transaction the client accepted
  cur,            \* index of the TestSequence entry being run
  phase,          \* runner: "launch" the entry, "join" it, or "over"
  wg,             \* the ParallelSteps WaitGroup counter
  errs,           \* the ParallelSteps errs channel
  groupResult,    \* groupResult[i]: what entry i returned, Pending before
  failed          \* the test has been marked failed (t.Fatalf)

stepVars == <<pc, bTx, startId, tx, retErr>>
poolVars == <<currentBlobID, currentTxIndex, hashesByIndex, pool>>
vars == <<testSeq, stepVars, poolVars, nonce, accepted, cur, phase, wg, errs, groupResult, failed>>

Group == testSeq[cur]
IsParallel(G) == Cardinality(G) > 1

\* GetBlobsPerTransaction: 0 means 1
BlobsPerTx(s) == IF Cfg[s].blobs = 0 THEN 1 ELSE Cfg[s].blobs

\* BlobDataGenerator: the BlobIDs startBlobId, ..., startBlobId + blobCount - 1
BlobIDRange(start, count) == {start + i : i \in 0 .. count - 1}

\* mutant: an unbuffered errs channel, make(chan error)
ErrsCapUnbuffered(G) == 0

\* capacity of errs: make(chan error, len(step.Steps))
ErrsCap(G) == Cardinality(G)

\* mutant: wg.Done() called before t.Fatalf as well as deferred
FatalDoneTwice(s) ==
  /\ failed' = TRUE
  /\ pc' = [pc EXCEPT ![s] = "done"]
  /\ IF IsParallel(Group)
       THEN /\ wg' = wg - 2
            /\ UNCHANGED phase
       ELSE /\ phase' = "over"
            /\ UNCHANGED wg

\* t.Fatalf: marks the test failed and ends the calling goroutine; in a
\* ParallelSteps goroutine the deferred wg.Done still runs, on the test's own
\* goroutine the test stops.
Fatal(s) ==
  /\ failed' = TRUE
  /\ pc' = [pc EXCEPT ![s] = "done"]
  /\ IF IsParallel(Group)
       THEN /\ wg' = wg - 1
            /\ UNCHANGED phase
       ELSE /\ phase' = "over"
            /\ UNCHANGED wg

SetRet(s, e) ==
  /\ pc' = [pc EXCEPT ![s] = "ret"]
  /\ retErr' = [retErr EXCEPT ![s] = e]

-----------------------------------------------------------------------------
\* The runner starts the next entry; for a ParallelSteps this is the loop that
\* does wg.Add(1) and starts one goroutine per step.
Launch ==
  /\ phase = "launch"
  /\ pc' = [s \in Steps |-> IF s \in Group THEN "start" ELSE pc[s]]
  /\ wg' = Cardinality(Group)
  /\ errs' = <<>>
  /\ phase' = "join"
  /\ UNCHANGED <<testSeq, bTx, startId, tx, retErr, poolVars, nonce, accepted, cur, groupResult, failed>>

\* SendBlobTransactions.Execute: the client index check
StepStart(s) ==
  /\ pc[s] = "start"
  /\ IF Cfg[s].client >= NumEngines
       THEN SetRet(s, "invalid client index")
       ELSE /\ pc' = [pc EXCEPT ![s] = "loop"]
            /\ UNCHANGED retErr
  /\ UNCHANGED <<testSeq, bTx, startId, tx, poolVars, nonce, accepted, cur, phase, wg, errs, groupResult, failed>>

\* Loop head: build the BlobTransactionCreator from t.CurrentBlobID, read
\* without the pool lock, then check the account index.
LoopHead(s) ==
  /\ pc[s] = "loop"
  /\ IF bTx[s] < Cfg[s].txs
       THEN /\ startId' = [startId EXCEPT ![s] = currentBlobID]
            /\ IF Cfg[s].acct # 0 /\ Cfg[s].acct >= NumAccounts
                 THEN SetRet(s, "invalid account index")
                 ELSE /\ pc' = [pc EXCEPT ![s] = "send"]
                      /\ UNCHANGED retErr
       ELSE /\ SetRet(s, NoErr)
            /\ UNCHANGED startId
  /\ UNCHANGED <<testSeq, bTx, tx, poolVars, nonce, accepted, cur, phase, wg, errs, groupResult, failed>>

\* mutant: a send error is only logged and the loop goes on with the
\* transaction it built
SendErrLogged(s) ==
  LET a == Cfg[s].acct
      t == [acct |-> a,
            nonce |-> IF Cfg[s].replace THEN nonce[a] - 1 ELSE nonce[a],
            ids |-> BlobIDRange(startId[s], BlobsPerTx(s)),
            repl |-> Cfg[s].replace]
  IN /\ pc[s] = "send"
     /\ tx' = [tx EXCEPT ![s] = t]
     /\ \/ /\ ~Cfg[s].replace \/ nonce[a] > 0
           /\ accepted' = accepted \cup {t}
           /\ nonce' = IF Cfg[s].replace THEN nonce ELSE [nonce EXCEPT ![a] = @ + 1]
        \/ UNCHANGED <<nonce, accepted>>
     /\ pc' = [pc EXCEPT ![s] = IF Cfg[s].skipVerify THEN "add" ELSE "verify"]
     /\ UNCHANGED <<testSeq, bTx, startId, retErr, poolVars, cur, phase, wg, errs, groupResult, failed>>

\* SendNextTransaction or ReplaceLastTransaction; an error is fatal.
\* ReplaceLastTransaction fails when the account has no previous nonce.
Send(s) ==
  LET a == Cfg[s].acct
      t == [acct |-> a,
            nonce |-> IF Cfg[s].replace THEN nonce[a] - 1 ELSE nonce[a],
            ids |-> BlobIDRange(startId[s], BlobsPerTx(s)),
            repl |-> Cfg[s].replace]
  IN /\ pc[s] = "send"
     /\ \/ /\ ~Cfg[s].replace \/ nonce[a] > 0
           /\ accepted' = accepted \cup {t}
           /\ tx' = [tx EXCEPT ![s] = t]
           /\ nonce' = IF Cfg[s].replace THEN nonce ELSE [nonce EXCEPT ![a] = @ + 1]
           /\ pc' = [pc EXCEPT ![s] = IF Cfg[s].skipVerify THEN "add" ELSE "verify"]
           /\ UNCHANGED <<phase, wg, failed>>
        \/ /\ Fatal(s)
           /\ UNCHANGED <<tx, nonce, accepted>>
     /\ UNCHANGED <<testSeq, bTx, startId, retErr, poolVars, cur, errs, groupResult>>

\* VerifyTransactionFromNode: the client must return the transaction
VerifyFromNode(s) ==
  /\ pc[s] = "verify"
  /\ \/ /\ pc' = [pc EXCEPT ![s] = "add"]
        /\ UNCHANGED <<phase, wg, failed>>
     \/ Fatal(s)
  /\ UNCHANGED <<testSeq, bTx, startId, tx, retErr, poolVars, nonce, accepted, cur, errs, groupResult>>

\* mutant: CurrentBlobID advanced from the value read at the loop head
AddToPoolStaleCounter(s) ==
  /\ pc[s] = "add"
  /\ pool' = pool \cup {tx[s]}
  /\ hashesByIndex' = (currentTxIndex :> tx[s]) @@ hashesByIndex
  /\ currentTxIndex' = currentTxIndex + 1
  /\ currentBlobID' = startId[s] + BlobsPerTx(s)
  /\ bTx' = [bTx EXCEPT ![s] = @ + 1]
  /\ pc' = [pc EXCEPT ![s] = "loop"]
  /\ UNCHANGED <<testSeq, startId, tx, retErr, nonce, accepted, cur, phase, wg, errs, groupResult, failed>>

\* mutant: the hash stored one index past CurrentTransactionIndex
AddToPoolIndexOffByOne(s) ==
  /\ pc[s] = "add"
  /\ pool' = pool \cup {tx[s]}
  /\ hashesByIndex' = (currentTxIndex + 1 :> tx[s]) @@ hashesByIndex
  /\ currentTxIndex' = currentTxIndex + 1
  /\ currentBlobID' = currentBlobID + BlobsPerTx(s)
  /\ bTx' = [bTx EXCEPT ![s] = @ + 1]
  /\ pc' = [pc EXCEPT ![s] = "loop"]
  /\ UNCHANGED <<testSeq, startId, tx, retErr, nonce, accepted, cur, phase, wg, errs, groupResult, failed>>

\* Under the pool mutex: AddBlobTransaction, HashesByIndex, both counters
AddToPool(s) ==
  /\ pc[s] = "add"
  /\ pool' = pool \cup {tx[s]}
  /\ hashesByIndex' = (currentTxIndex :> tx[s]) @@ hashesByIndex
  /\ currentTxIndex' = currentTxIndex + 1
  /\ currentBlobID' = currentBlobID + BlobsPerTx(s)
  /\ bTx' = [bTx EXCEPT ![s] = @ + 1]
  /\ pc' = [pc EXCEPT ![s] = "loop"]
  /\ UNCHANGED <<testSeq, startId, tx, retErr, nonce, accepted, cur, phase, wg, errs, groupResult, failed>>

\* A ParallelSteps goroutine ends: errs <- err (blocks while the channel is
\* full), then the deferred wg.Done.
GoroutineReturn(s) ==
  /\ pc[s] = "ret"
  /\ IsParallel(Group)
  /\ IF retErr[s] # NoErr
       THEN /\ Len(errs) < ErrsCap(Group)
            /\ errs' = Append(errs, retErr[s])
       ELSE UNCHANGED errs
  /\ wg' = wg - 1
  /\ pc' = [pc EXCEPT ![s] = "done"]
  /\ UNCHANGED <<testSeq, bTx, startId, tx, retErr, poolVars, nonce, accepted, cur, phase, groupResult, failed>>

\* The runner moves on after entry cur returned res; an error is fatal.
Finish(res) ==
  /\ groupResult' = [groupResult EXCEPT ![cur] = res]
  /\ IF res # NoErr
       THEN /\ failed' = TRUE
            /\ phase' = "over"
            /\ UNCHANGED cur
       ELSE /\ UNCHANGED failed
            /\ IF cur = Len(testSeq)
                 THEN /\ phase' = "over"
                      /\ UNCHANGED cur
                 ELSE /\ cur' = cur + 1
                      /\ phase' = "launch"

\* mutant: the result read from errs without waiting on the WaitGroup
JoinParallelNoWait ==
  /\ phase = "join"
  /\ IsParallel(Group)
  /\ Finish(IF errs = <<>> THEN NoErr ELSE Head(errs))
  /\ UNCHANGED <<testSeq, stepVars, poolVars, nonce, accepted, wg, errs>>

\* ParallelSteps.Execute after its goroutines started: wg.Wait(), close(errs),
\* return the first error received, if any.
JoinParallel ==
  /\ phase = "join"
  /\ IsParallel(Group)
  /\ wg = 0
  /\ Finish(IF errs = <<>> THEN NoErr ELSE Head(errs))
  /\ UNCHANGED <<testSeq, stepVars, poolVars, nonce, accepted, wg, errs>>

\* A single step runs on the runner's goroutine; its return value is read directly.
JoinStep ==
  /\ phase = "join"
  /\ ~IsParallel(Group)
  /\ \E s \in Group :
       /\ pc[s] = "ret"
       /\ pc' = [pc EXCEPT ![s] = "done"]
       /\ Finish(retErr[s])
  /\ UNCHANGED <<testSeq, bTx, startId, tx, retErr, poolVars, nonce, accepted, wg, errs>>

StepNext(s) ==
  \/ StepStart(s)
  \/ LoopHead(s)
  \/ Send(s)
  \/ VerifyFromNode(s)
  \/ AddToPool(s)
  \/ GoroutineReturn(s)

Init ==
  /\ testSeq \in Tests
  /\ pc = [s \in Steps |-> "idle"]
  /\ bTx = [s \in Steps |-> 0]
  /\ startId = [s \in Steps |-> 0]
  /\ tx = [s \in Steps |-> NoTx]
  /\ retErr = [s \in Steps |-> NoErr]
  /\ currentBlobID = 0
  /\ currentTxIndex = 0
  /\ hashesByIndex = [i \in {} |-> NoTx]
  /\ pool = {}
  /\ nonce = [a \in Accounts |-> 0]
  /\ accepted = {}
  /\ cur = 1
  /\ phase = "launch"
  /\ wg = 0
  /\ errs = <<>>
  /\ groupResult = [i \in DOMAIN testSeq |-> Pending]
  /\ failed = FALSE

Next ==
  \/ Launch
  \/ JoinParallel
  \/ JoinStep
  \/ \E s \in Steps : StepNext(s)

\* Goroutines are scheduled by the Go runtime and every RPC call returns or
\* times out, so every enabled step and the runner eventually move.
Fairness ==
  /\ WF_vars(Launch \/ JoinParallel \/ JoinStep)
  /\ \A s \in Steps : WF_vars(StepNext(s))

Spec == Init /\ [][Next]_vars /\ Fairness

-----------------------------------------------------------------------------
TypeOK ==
  /\ pc \in [Steps -> {"idle", "start", "loop", "send", "verify", "add", "ret", "done"}]
  /\ bTx \in [Steps -> Nat]
  /\ startId \in [Steps -> Nat]
  /\ retErr \in [Steps -> {NoErr, "invalid client index", "invalid account index"}]
  /\ currentBlobID \in Nat /\ currentTxIndex \in Nat
  /\ DOMAIN hashesByIndex \subseteq Nat
  /\ \A t \in pool \cup accepted : t.acct \in Accounts /\ t.ids \subseteq Nat
  /\ nonce \in [Accounts -> Nat]
  /\ testSeq \in Tests
  /\ cur \in DOMAIN testSeq
  /\ phase \in {"launch", "join", "over"}
  /\ wg \in Nat
  /\ failed \in BOOLEAN

\* CurrentBlobID is only advanced under the pool lock, so however the
\* ParallelSteps goroutines interleave their unlocked reads, no increment is
\* lost: the counter equals the number of blobs of the tracked transactions.
CounterNotLost ==
  currentBlobID = MapThenSumSet(LAMBDA t : Cardinality(t.ids), pool)

\* HashesByIndex maps 0 .. CurrentTransactionIndex-1 one-to-one onto the
\* tracked transactions, so "the Nth submitted transaction" is recoverable.
IndexTableComplete ==
  /\ DOMAIN hashesByIndex = 0 .. currentTxIndex - 1
  /\ {hashesByIndex[i] : i \in DOMAIN hashesByIndex} = pool
  /\ Cardinality(pool) = currentTxIndex

\* Between steps of a test that has not failed, the pool tracks exactly the
\* transactions the client accepted: none sent is missing from it (the later
\* payload cross-check would fail on it) and none is in it that was not sent.
PoolMirrorsClient ==
  (~failed /\ \A s \in Steps : pc[s] \in {"idle", "done"}) => pool = accepted

\* The test's step sequence always comes to an end: no goroutine blocks
\* forever on errs and the WaitGroup always reaches zero.
SequenceTerminates == <>(phase = "over")

\* Every BlobID backs at most one tracked transaction: the IDs handed out by
\* the pool's BlobID counter are never handed out twice.
BlobIDsDisjoint ==
  \A t1, t2 \in pool : t1 # t2 => t1.ids \cap t2.ids = {}

-----------------------------------------------------------------------------
\* A step is idle until its entry is launched, ended once its Execute
\* returned or it called t.Fatalf, and running in between.
StepStatus(s) ==
  CASE pc[s] = "idle"              -> "idle"
    [] pc[s] \in {"ret", "done"}   -> "ended"
    [] OTHER                       -> "running"

Runner == INSTANCE TestRunner WITH
            status <- [s \in Steps |-> StepStatus(s)],
            ret <- retErr,
            StepErrors <- {"invalid client index", "invalid account index"}

(* The runner and ParallelSteps.Execute with its WaitGroup and errs        *)
(* channel implement the TestRunner contract: a group returns only after   *)
(* all its goroutines ended, with the error of one that failed or nil,     *)
(* and every entry of the sequence is eventually run or the test stops.    *)
RunnerContract == Runner!Spec
=============================================================================
