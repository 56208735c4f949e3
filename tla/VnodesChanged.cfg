\* A node is restarted with another number of vnodes, then removed.
SPECIFICATION Spec
CONSTANTS
  Node = {1, 2}
  Times = {1, 2, 3}
  FounderTimes = {1}
  Vnodes = {1, 2}
  Seeds <- MCSeeds
  Founders = {1, 2}
  Clocks = "one"
  Removable = {1}
  Mortal = {1}
  MaxRemovals = 1
  MaxStarts = 2
  MaxLosses = 0
  MaxCalls = 2
INVARIANTS RemovedOffRing
CHECK_DEADLOCK FALSE
