\* A write that node 3 forwards, perhaps to a node that forwards it again, and
\* a second client's write; a node crashes, restarts empty and joins again.
SPECIFICATION HandlerSpec
CONSTANTS
  Node = {1, 2, 3}
  N = 2
  W = 1
  R = 2
  Pos <- MCPos
  PutIds = {1, 2, 3}
  ClientIds = {1, 3}
  PutContacts = {1, 3}
  GetIds = {}
  Seeds <- MCSeeds
  GetContacts = {1, 2, 3}
  Times = {1}
  MaxLosses = 0
  MaxCrashes = 1
  MaxChanges = 0
INVARIANTS CausalPastDominated ClockBacked
PROPERTIES NoStepBack PutAnswered
CHECK_DEADLOCK FALSE
