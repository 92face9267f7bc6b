CONSTANTS
  B = 3
  W = 3
  FE = 2
  IDs = {0, 1, 2, 3, 4, 5, 6, 7}
  Moduli <- MCModuli
  Sha256 <- MCSha
  WireChars = {"X", "g", "F", "1"}
INIT Init
NEXT Next
INVARIANT GenerateNeverFails
INVARIANT VerifyIsExactlyFill
INVARIANT RoundTrip
INVARIANT DecodeAcceptsExactlyWellFormed
\* a decode error ends the getPayload call: nothing follows it
CHECK_DEADLOCK FALSE
