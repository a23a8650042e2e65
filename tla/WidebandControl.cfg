SPECIFICATION FairSpec
CONSTANTS
  w1 = w1
  w2 = w2
  v1 = v1
  bad = bad
  Default = Default
  NoOne = NoOne
  Workers <- MCWorkers
  Keys <- MCKeys
  Values = {v1}
  Malformed = bad
  Files <- MCFiles
  MaxCalls = 3
  MaxRestarts = 1
INVARIANTS
  NoStalePid
  LastExitTrue
PROPERTIES
  StoreSpec
  EveryCallReturns
CHECK_DEADLOCK FALSE
