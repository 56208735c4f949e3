\* A node whose clock is behind is told to remove another.
SPECIFICATION Spec
CONSTANTS
  Node = {1, 2}
  Times = {1, 2, 3}
  FounderTimes = {1, 3}
  Vnodes = {1}
  Seeds <- MCSeeds
  Founders = {1, 2}
  Clocks = "skewed"
  Removable = {1}
  Mortal = {}
  MaxRemovals = 1
  MaxStarts = 1
  MaxLosses = 0
  MaxCalls = 2
PROPERTIES ReturnsOnlyByRestart
CHECK_DEADLOCK FALSE
