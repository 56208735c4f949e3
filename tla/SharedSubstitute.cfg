\* Two tasks settle on the same substitute.
SPECIFICATION Spec
CONSTANTS
  Node = {1, 2, 3, 4}
  N = 3
  W = 3
  R = 1
  Pos <- MCPos
  PutIds = {1}
  ClientIds = {1}
  PutContacts = {1, 2, 3, 4}
  GetIds = {}
  Seeds <- MCSeeds
  GetContacts = {1, 2, 3, 4}
  Times = {1}
  MaxLosses = 2
  MaxCrashes = 0
  MaxChanges = 0
INVARIANTS QuorumDistinct
CHECK_DEADLOCK FALSE
