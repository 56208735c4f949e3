\* Three nodes whose clocks disagree.  Node 3 stays; nodes 1 and 2 may be
\* removed, node 1 may crash and restart.
SPECIFICATION FairSpec
CONSTANTS
  Node = {1, 2, 3}
  Times = {1, 2, 3}
  FounderTimes = {1}
  Vnodes = {2}
  Seeds <- MCSeeds
  Founders = {1, 2, 3}
  Clocks = "skewed"
  Removable = {1, 2}
  Mortal = {1}
  MaxRemovals = 1
  MaxStarts = 2
  MaxLosses = 0
  MaxCalls = 1
INVARIANTS TypeOK RingIsTable StampDecides
PROPERTIES NeverRebootsItself ImplementsRegisters Converges
CHECK_DEADLOCK FALSE
