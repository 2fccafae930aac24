CONSTANTS
  NumSlots = 2
  TxCapacity = 1
  RxLens <- MCRxLens
  GetSizes <- MCGetSizes
  MaxRx = 2
  CallerMisuse = FALSE
  WildPtr = WildPtr
SPECIFICATION Spec
PROPERTY RxDelivered
