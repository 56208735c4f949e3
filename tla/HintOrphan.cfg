\* A hint kept for a node that is no longer probed.
SPECIFICATION Spec
CONSTANTS
  Node = {1, 2, 3}
  N = 2
  W = 2
  R = 1
  Pos <- MCPos
  PutIds = {1}
  ClientIds = {1}
  PutContacts = {1, 2, 3}
  GetIds = {}
  Seeds <- MCSeeds
  GetContacts = {1, 2, 3}
  Times = {1}
  MaxLosses = 1
  MaxCrashes = 0
  MaxChanges = 0
INVARIANTS HintWatched
CHECK_DEADLOCK FALSE
