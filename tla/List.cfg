SPECIFICATION Spec
CONSTANTS
  Shapes <- MCShapes
  Payloads <- MCPayloads
  Damages <- MCDamages
  Spare <- MCSpare
  MaxDamage = 2
  Missing <- MCMissing
CHECK_DEADLOCK FALSE
INVARIANTS
  ReadsInBounds
  RoundTrip
  BuiltFitsBuffer
  IInv
