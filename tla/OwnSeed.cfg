\* A node whose seed list has its own address may call itself in vain.
SPECIFICATION Spec
CONSTANTS
  Node = {1, 2, 3}
  N = 2
  W = 2
  R = 1
  Pos <- MCPos
  PutIds = {1}
  ClientIds = {1}
  PutContacts = {1, 2, 3}
  GetIds = {}
  Seeds <- MCOwnSeeds
  GetContacts = {1, 2, 3}
  Times = {1}
  MaxLosses = 1
  MaxCrashes = 1
  MaxChanges = 0
INVARIANTS NeverDoubtsItself
CHECK_DEADLOCK FALSE
