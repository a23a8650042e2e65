SPECIFICATION FairSpec
CONSTANTS
  NumMbufs = 4
  RxCapacity = 3
  RetCapacity = 2
  RxBurst = 3
  FeedBurst = 2
INVARIANTS
  TypeOK
  Conserved
  ReadyMeansServed
PROPERTIES
  StopEnds
  PoolRecovers
  Drained
CHECK_DEADLOCK FALSE
