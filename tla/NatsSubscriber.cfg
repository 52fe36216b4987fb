CONSTANTS
  Capacity = 2
  MaxMessages = 5
  MaxPings = 2
SPECIFICATION Spec
CHECK_DEADLOCK FALSE
INVARIANTS TypeOK Delivery
PROPERTIES DropsOnlyWhenFull NeverBlocks
