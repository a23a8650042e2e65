SPECIFICATION FairSpec
CONSTANTS
  w1 = w1
  w2 = w2
  v1 = v1
  v2 = v2
  bad = bad
  Default = Default
  Workers <- MCWorkers
  Keys <- MCKeys
  Strict <- MCStrict
  Values = {v1, v2}
  Malformed = bad
  Files <- MCFiles
  MaxCalls = 3
  MaxRestarts = 1
INVARIANTS
  PlaysConfigured
  OneChild
PROPERTIES
  StoreSpec
  SetApplied
  StopEndsChild
  EveryCallReturns
CHECK_DEADLOCK FALSE
