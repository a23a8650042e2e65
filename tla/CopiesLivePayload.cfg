SPECIFICATION Spec
CONSTANTS
  NumPorts = 2
  CachePkts = 2
  RingCapacity = 2
  ReadBurst = 2
  TxBurst = 2
  RxDescs = 1
  TxDescs = 1
  PoolSize = 4
  LoopCounts = {1}
  MaxPackets = 4
  SignalPhases = {"launch", "stats"}
INVARIANT
  CopiesLivePayload
CHECK_DEADLOCK FALSE
