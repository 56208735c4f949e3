\* A node joins through a seed that has itself just restarted and knows nobody
\* yet; the seed crashes again, and its other seed is never asked.
SPECIFICATION FairSpec
CONSTANTS
  Node = {1, 2, 3}
  Times = {1, 2, 3}
  FounderTimes = {1}
  Vnodes = {1}
  Seeds <- MCTwoSeeds
  Founders = {2, 3}
  Clocks = "one"
  Removable = {}
  Mortal = {1, 2}
  MaxRemovals = 0
  MaxStarts = 2
  MaxLosses = 1
  MaxCalls = 1
PROPERTIES StartedIsHeard
CHECK_DEADLOCK FALSE
