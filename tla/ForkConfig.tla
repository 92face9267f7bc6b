----------------------------- MODULE ForkConfig -----------------------------
(***************************************************************************)
(* The fork/version policy of globals.ForkConfig: which forks are active   *)
(* at a block timestamp, which Engine API version a payload of that        *)
(* timestamp is submitted and requested with, and which transaction types  *)
(* are legal.  A fork timestamp that is not configured (a nil *big.Int)    *)
(* is NoFork.                                                              *)
(***************************************************************************)
EXTENDS Integers

CONSTANTS ShanghaiTime, CancunTime, PragueTime

NoFork == -1

ASSUME \A t \in {ShanghaiTime, CancunTime, PragueTime} : t = NoFork \/ t \in Nat

IsForkActive(forkTime, ts) == forkTime # NoFork /\ ts >= forkTime

IsShanghai(ts) == IsForkActive(ShanghaiTime, ts)
IsCancun(ts) == IsForkActive(CancunTime, ts)
IsPrague(ts) == IsForkActive(PragueTime, ts)

\* the requested payload's timestamp takes precedence over the head's
ForkchoiceUpdatedVersion(headTs, attrTs) ==
  LET ts == IF attrTs # NoFork THEN attrTs ELSE headTs
  IN CASE IsCancun(ts) \/ IsPrague(ts) -> 3
       [] IsShanghai(ts)               -> 2
       [] OTHER                        -> 1

GetPayloadVersion(ts) ==
  CASE IsPrague(ts)   -> 4
    [] IsCancun(ts)   -> 3
    [] IsShanghai(ts) -> 2
    [] OTHER          -> 1

NewPayloadVersion(ts) == GetPayloadVersion(ts)

\* blob-carrying transactions are a legal type from Cancun on
BlobTxSupported(ts) == IsPrague(ts) \/ IsCancun(ts)
=============================================================================
