CONSTANTS
  Bases <- MCBases
  Offsets <- MCOffsets
  MaxHeld = 2
  TxCapacity = 1
SPECIFICATION Spec
INVARIANTS
  HeaderRecovered
PROPERTIES
  AllocSpec
