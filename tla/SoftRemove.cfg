\* A removed node keeps running.
SPECIFICATION FairSpec
CONSTANTS
  Node = {1, 2}
  Times = {1, 2}
  FounderTimes = {1}
  Vnodes = {1}
  Seeds <- MCSeeds
  Founders = {1, 2}
  Clocks = "skewed"
  Removable = {1}
  Mortal = {}
  MaxRemovals = 1
  MaxStarts = 1
  MaxLosses = 0
  MaxCalls = 2
PROPERTIES SoftRemove
CHECK_DEADLOCK FALSE
