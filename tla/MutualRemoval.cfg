\* Two nodes are each told to remove the other.
SPECIFICATION FairSpec
CONSTANTS
  Node = {1, 2}
  Times = {1, 2, 3}
  FounderTimes = {1}
  Vnodes = {1}
  Seeds <- MCSeeds
  Founders = {1, 2}
  Clocks = "skewed"
  Removable = {1, 2}
  Mortal = {}
  MaxRemovals = 2
  MaxStarts = 1
  MaxLosses = 0
  MaxCalls = 2
PROPERTIES Converges
CHECK_DEADLOCK FALSE
