CONSTANTS
  MaxCode = 40
SPECIFICATION Spec
INVARIANT StrerrorNamesStatus
