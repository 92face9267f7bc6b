---------------------------- MODULE PragueGenesis ----------------------------
(***************************************************************************)
(* The Prague genesis configuration of config/prague/genesis.go:           *)
(* ConfigGenesis sets the Prague fork time, checks it against the          *)
(* Shanghai and Cancun times, presets the blob header fields of a genesis  *)
(* already at Prague and deploys the two system contracts;                 *)
(* ConfigTestAccounts deploys the DATAHASH accounts and panics on an       *)
(* address already allocated.                                              *)
(*                                                                         *)
(* Fork times and the genesis timestamp are small naturals, nil is NoTime. *)
(* An account is the name of the code it holds.  The caller may call       *)
(* ConfigGenesis again after an error, up to MaxCalls times.               *)
(***************************************************************************)
EXTENDS Integers, FiniteSets

CONSTANTS Times, PreAddrs, BeaconRootsAddress, DepositContractAddress,
          DatahashAddrs, MaxCalls

NoTime == -1
NoAccount == "none"

VARIABLES shanghaiTime, cancunTime, pragueTime, timestamp,
          blobGasUsed, excessBlobGas, alloc, result, panicked, calls

vars == <<shanghaiTime, cancunTime, pragueTime, timestamp,
          blobGasUsed, excessBlobGas, alloc, result, panicked, calls>>

Addrs == PreAddrs \cup {BeaconRootsAddress, DepositContractAddress} \cup DatahashAddrs

\* the genesis as it comes from the test's base configuration
Init ==
  /\ shanghaiTime \in Times \cup {NoTime}
  /\ cancunTime \in Times \cup {NoTime}
  /\ pragueTime = NoTime
  /\ timestamp \in Times
  /\ blobGasUsed = NoTime
  /\ excessBlobGas = NoTime
  /\ alloc \in {[a \in Addrs |-> IF a \in P THEN "pre" ELSE NoAccount] : P \in SUBSET PreAddrs}
  /\ result = "none"
  /\ panicked = FALSE
  /\ calls = 0

Allocated(a) == alloc[a] # NoAccount

(* Mutant of ConfigGenesis: PragueTime assigned only when it is still   *)
(* nil, so a retry keeps the timestamp of an earlier failed call.         *)
ConfigGenesisKeepPrague(f) ==
  /\ ~panicked /\ calls < MaxCalls
  /\ calls' = calls + 1
  /\ UNCHANGED <<shanghaiTime, cancunTime, timestamp, panicked>>
  /\ \/ /\ shanghaiTime = NoTime \/ cancunTime = NoTime
        /\ result' = "err"
        /\ UNCHANGED <<pragueTime, blobGasUsed, excessBlobGas, alloc>>
     \/ /\ shanghaiTime # NoTime /\ cancunTime # NoTime
        /\ pragueTime' = IF pragueTime = NoTime THEN f ELSE pragueTime
        /\ \/ /\ shanghaiTime > f \/ cancunTime > f
              /\ result' = "err"
              /\ UNCHANGED <<blobGasUsed, excessBlobGas, alloc>>
           \/ /\ shanghaiTime <= f /\ cancunTime <= f
              /\ blobGasUsed' = IF timestamp >= f /\ blobGasUsed = NoTime THEN 0 ELSE blobGasUsed
              /\ excessBlobGas' = IF timestamp >= f /\ excessBlobGas = NoTime THEN 0 ELSE excessBlobGas
              /\ alloc' = [alloc EXCEPT ![BeaconRootsAddress] = "beaconRoots",
                                        ![DepositContractAddress] = "deposits"]
              /\ result' = "ok"

\* ConfigGenesis(genesis, forkTimestamp): the two nil checks, then PragueTime
\* is assigned, then the ordering checks, the blob header fields and the
\* system contracts
ConfigGenesis(f) ==
  /\ ~panicked /\ calls < MaxCalls
  /\ calls' = calls + 1
  /\ UNCHANGED <<shanghaiTime, cancunTime, timestamp, panicked>>
  /\ \/ /\ shanghaiTime = NoTime \/ cancunTime = NoTime
        /\ result' = "err"
        /\ UNCHANGED <<pragueTime, blobGasUsed, excessBlobGas, alloc>>
     \/ /\ shanghaiTime # NoTime /\ cancunTime # NoTime
        /\ pragueTime' = f
        /\ \/ /\ shanghaiTime > f \/ cancunTime > f
              /\ result' = "err"
              /\ UNCHANGED <<blobGasUsed, excessBlobGas, alloc>>
           \/ /\ shanghaiTime <= f /\ cancunTime <= f
              /\ blobGasUsed' = IF timestamp >= f /\ blobGasUsed = NoTime THEN 0 ELSE blobGasUsed
              /\ excessBlobGas' = IF timestamp >= f /\ excessBlobGas = NoTime THEN 0 ELSE excessBlobGas
              /\ alloc' = [alloc EXCEPT ![BeaconRootsAddress] = "beaconRoots",
                                        ![DepositContractAddress] = "deposits"]
              /\ result' = "ok"

\* ConfigTestAccounts: the DATAHASH accounts in address order; the first one
\* already in the genesis panics, after the ones before it were written
ConfigTestAccounts ==
  /\ ~panicked /\ calls < MaxCalls
  /\ calls' = calls + 1
  /\ LET reused == {a \in DatahashAddrs : Allocated(a)}
         firstReused == CHOOSE a \in reused : \A b \in reused : a <= b
     IN IF reused = {}
        THEN /\ alloc' = [a \in Addrs |-> IF a \in DatahashAddrs THEN "datahash" ELSE alloc[a]]
             /\ UNCHANGED panicked
        ELSE /\ alloc' = [a \in Addrs |-> IF a \in DatahashAddrs /\ a < firstReused
                                           THEN "datahash" ELSE alloc[a]]
             /\ panicked' = TRUE
  /\ UNCHANGED <<shanghaiTime, cancunTime, pragueTime, timestamp, blobGasUsed,
                 excessBlobGas, result>>

Next == (\E f \in Times : ConfigGenesis(f)) \/ ConfigTestAccounts

Spec == Init /\ [][Next]_vars

(* After ConfigGenesis last returned nil, whatever calls failed before it, *)
(* the genesis is a valid Prague genesis: Shanghai and Cancun at or before *)
(* PragueTime, the blob header fields set when the genesis block is        *)
(* already at Prague, and both system contracts deployed.                  *)
SuccessIsValid ==
  result = "ok" =>
    /\ shanghaiTime <= pragueTime /\ cancunTime <= pragueTime
    /\ timestamp >= pragueTime => (blobGasUsed # NoTime /\ excessBlobGas # NoTime)
    /\ alloc[BeaconRootsAddress] = "beaconRoots"
    /\ alloc[DepositContractAddress] = "deposits"

(* The ordering ConfigGenesis checks holds of every genesis it has set a   *)
(* PragueTime in: no Prague fork before Shanghai or Cancun.                *)
ForkOrderHolds ==
  pragueTime # NoTime => shanghaiTime <= pragueTime /\ cancunTime <= pragueTime
=============================================================================
