SPECIFICATION FairSpec
CONSTANTS
  Depth = 2
  W = 4
  MaxOffers = 9
INVARIANTS
  TypeOK
  HeldSlotNotWritten
  DeliveredInOrder
  CountSane
PROPERTIES
  EventuallyDelivered
  QueueSpec
