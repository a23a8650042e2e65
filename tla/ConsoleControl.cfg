SPECIFICATION FairSpec
CONSTANTS
  Keys = {"d", "x", "b", "q", "4"}
  MaxLines = 2
  ReadLines = 2
  MaxThreads = 2
INVARIANTS
  ModesFollowKeys
  ControlAgrees
PROPERTIES
  LinesTaken
CHECK_DEADLOCK FALSE
