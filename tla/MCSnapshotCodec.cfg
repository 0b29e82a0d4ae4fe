SPECIFICATION Spec
CONSTANTS
  None = None
  Bad = Bad
  Rejected = Rejected
  MaxWindow = 2000
  MaxU32 = 2000000
  MaxWeight = 65535
  MaxShare = 1000000
  AtNames = {5}
  Canon <- MCCanon
  Texts <- MCTexts
  Wires <- MCWires
INVARIANTS
  RouterSound
  SameRules
  RoundTrip
