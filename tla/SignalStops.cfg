SPECIFICATION FairSpec
CONSTANTS
  NumPorts = 1
  CachePkts = 2
  RingCapacity = 2
  ReadBurst = 2
  TxBurst = 2
  RxDescs = 1
  TxDescs = 1
  PoolSize = 4
  LoopCounts = {0}
  MaxPackets = 4
  SignalPhases = {"init", "launch", "stats"}
PROPERTY
  SignalStops
CHECK_DEADLOCK FALSE
