------------------------------- MODULE BlobIDs -------------------------------
(***************************************************************************)
(* helper.GetBlobListByIndex: the list of BlobIDs from startIndex to       *)
(* endIndex, inclusive, ascending or descending.  BlobID is a uint64; the *)
(* width is the constant BlobIDBits so that wrap-around is reachable.     *)
(* Each step of the model is one call with inputs from Inputs.            *)
(***************************************************************************)
EXTENDS Integers, Sequences

CONSTANTS BlobIDBits, Inputs

Modulus == 2 ^ BlobIDBits
BlobID == 0..Modulus - 1

ASSUME Inputs \subseteq BlobID \X BlobID

\* mutant: the inclusive count computed as endIndex - startIndex
GetBlobListByIndexExclusive(startIndex, endIndex) ==
  LET count == IF endIndex > startIndex THEN (endIndex - startIndex) % Modulus
               ELSE (startIndex - endIndex) % Modulus
  IN IF endIndex > startIndex
     THEN [i \in 1..count |-> (startIndex + (i - 1)) % Modulus]
     ELSE [i \in 1..count |-> (endIndex - (i - 1)) % Modulus]

GetBlobListByIndex(startIndex, endIndex) ==
  LET count == IF endIndex > startIndex THEN (endIndex - startIndex + 1) % Modulus
               ELSE (startIndex - endIndex + 1) % Modulus
  IN IF endIndex > startIndex
     THEN [i \in 1..count |-> (startIndex + (i - 1)) % Modulus]
     ELSE [i \in 1..count |-> (endIndex - (i - 1)) % Modulus]

VARIABLES args, result

vars == <<args, result>>

Call(a) == args' = a /\ result' = GetBlobListByIndex(a[1], a[2])

Init == \E a \in Inputs : args = a /\ result = GetBlobListByIndex(a[1], a[2])

Next == \E a \in Inputs : Call(a)

Spec == Init /\ [][Next]_vars

\* the IDs from s to e inclusive, in the direction from s to e
BlobRange(s, e) ==
  IF s <= e THEN [i \in 1..e - s + 1 |-> s + (i - 1)]
  ELSE [i \in 1..s - e + 1 |-> s - (i - 1)]

(* ListMatchesRange: GetBlobListByIndex(start, end) returns the IDs from   *)
(* start to end inclusive, in order.  The catalog relies on it for the    *)
(* "Versioned Hashes, Out of Order" tests, which call it with start > end *)
(* to get the descending list.                                            *)
ListMatchesRange == result = BlobRange(args[1], args[2])
============================================================================
