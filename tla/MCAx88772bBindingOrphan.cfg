CONSTANTS
  u1 = u1
  u2 = u2
  u3 = u3
  Controllers <- MCControllers
  Asix <- MCAsix
  Faults = FALSE
  MaxStarts = 4
SPECIFICATION Spec
INVARIANT ChildBacked
CHECK_DEADLOCK FALSE
