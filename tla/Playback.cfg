SPECIFICATION FairSpec
CONSTANTS
  NumPorts = 2
  CachePkts = 2
  RingCapacity = 2
  ReadBurst = 2
  TxBurst = 2
  RxDescs = 1
  TxDescs = 1
  PoolSize = 4
  LoopCounts = {0, 1}
  MaxPackets = 4
  SignalPhases = {"launch", "stats"}
INVARIANTS
  Conserved
  LoopsHonoured
  PoolSuffices
PROPERTIES
  WireInOrder
  StopsAll
CHECK_DEADLOCK FALSE
