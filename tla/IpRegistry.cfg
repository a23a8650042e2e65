SPECIFICATION FairSpec
CONSTANTS
  c1 = c1
  c2 = c2
  Clients <- MCClients
  Channels <- MCChannels
  PortOf <- MCPortOf
  All <- MCAll
  SubOf <- MCSubOf
  NumSlots = 1
  RingDepth = 1
  MaxRings = 2
  MaxBatches = 2
INVARIANTS
  OneConsumerPerRing
  AttachedRingOpen
  NoRingLeak
PROPERTIES
  WaitKeepsFlag
  ServedUnlessErased
  DepartedRingCloses

CHECK_DEADLOCK FALSE
