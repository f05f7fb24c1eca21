SPECIFICATION FairSpec
CONSTANTS
  Residue <- MCResidue
  FirstLong <- MCFirstLong
  OutCapacity = 1
  MaxOrders = 2
  MaxSends = 2
INVARIANT UtilityTypeOK
INVARIANT OrdersReachDeviceInOrder
PROPERTY OnlyAReadEndsTheLoop
PROPERTY MessagesForUsAreRead
CHECK_DEADLOCK FALSE
