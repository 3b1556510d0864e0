CONSTANTS
  published = published
  unpublished = unpublished
  Event <- MCEvent
  Batch = 2
  MaxStream = 5
  MaxFaults = 2
SPECIFICATION FairDeliverySpec
INVARIANTS
  NoneSkippedOrRepeated
  StrandedBounded
PROPERTIES
  KeepsContract
  EachHandlerKeepsContract
  CursorCatchesUp
  BatchDrains
CHECK_DEADLOCK FALSE
