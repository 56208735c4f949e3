\* A later write through a node dominates one it never saw.
SPECIFICATION Spec
CONSTANTS
  Node = {1, 2}
  N = 2
  W = 1
  R = 2
  Pos <- MCPos
  PutIds = {1, 2, 3}
  ClientIds = {1, 2, 3}
  PutContacts = {1, 2}
  GetIds = {}
  Seeds <- MCSeeds
  GetContacts = {1, 2}
  Times = {1}
  MaxLosses = 0
  MaxCrashes = 0
  MaxChanges = 0
INVARIANTS NoFalseDominance
CHECK_DEADLOCK FALSE
