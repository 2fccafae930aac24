\* The upper layer may release a buffer twice; the magic check lets it in.
CONSTANTS
  NumSlots = 3
  TxCapacity = 2
  RxLens <- MCRxLens
  GetSizes <- MCGetSizes
  MaxRx = 1
  CallerMisuse = TRUE
  WildPtr = WildPtr
SPECIFICATION Spec
INVARIANT OwnershipPartition
\* a wild pointer hangs eth_put_buffer in its for(;;): the program stops there
CHECK_DEADLOCK FALSE
