\* A node is told to remove itself in the millisecond it started in.
SPECIFICATION Spec
CONSTANTS
  Node = {1, 2}
  Times = {1, 2}
  FounderTimes = {1}
  Vnodes = {1}
  Seeds <- MCSeeds
  Founders = {1, 2}
  Clocks = "any"
  Removable = {1}
  Mortal = {}
  MaxRemovals = 1
  MaxStarts = 1
  MaxLosses = 0
  MaxCalls = 2
INVARIANTS StampDecides
CHECK_DEADLOCK FALSE
