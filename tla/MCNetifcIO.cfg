CONSTANTS
  NumSlots = 3
  TxCapacity = 2
  RxLens <- MCRxLens
  GetSizes <- MCGetSizes
  MaxRx = 2
  CallerMisuse = FALSE
  WildPtr = WildPtr
SPECIFICATION Spec
INVARIANTS
  TypeOK
  OwnershipPartition
PROPERTIES
  TxReclaimed
  RxDelivered
  PoolSpec
