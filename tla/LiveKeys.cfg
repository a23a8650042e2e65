SPECIFICATION Spec
CONSTANTS
  NumPorts = 2
  ChannelsPerPort = 2
  SamplesPerPkt = 4
  BufLen = 4
  IntHalf = 8
  LongHalf = 1000
  Lines <- MCLines
  Offsets <- MCOffsets
INVARIANTS
  TypeOK
  WireMatchesConsole
PROPERTIES
  AppliesWhatWasTyped
  TriggersReachWire
CHECK_DEADLOCK FALSE
