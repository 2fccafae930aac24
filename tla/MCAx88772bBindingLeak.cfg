CONSTANTS
  u1 = u1
  u2 = u2
  u3 = u3
  Controllers <- MCControllers
  Asix <- MCAsix
  Faults = TRUE
  MaxStarts = 4
SPECIFICATION Spec
INVARIANT NoLeak
CHECK_DEADLOCK FALSE
