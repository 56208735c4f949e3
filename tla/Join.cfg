\* A node joins through the second address of its seed list; the first is dead,
\* the second crashes or loses a call.  It is removed and may come back.  The
\* clocks agree.
SPECIFICATION FairSpec
CONSTANTS
  Node = {1, 2}
  Times = {1, 2, 3, 4}
  FounderTimes = {1}
  Vnodes = {1}
  Seeds <- MCDeadSeeds
  Founders = {2}
  Clocks = "one"
  Removable = {1}
  Mortal = {1, 2}
  MaxRemovals = 1
  MaxStarts = 2
  MaxLosses = 1
  MaxCalls = 2
PROPERTIES StartedIsHeard ReturnsOnlyByRestart
CHECK_DEADLOCK FALSE
