\* A substitute coordinator issues one clock twice.
SPECIFICATION Spec
CONSTANTS
  Node = {1, 2, 3}
  N = 2
  W = 1
  R = 2
  Pos <- MCPos
  PutIds = {1, 2}
  ClientIds = {1, 2}
  PutContacts = {1, 2, 3}
  GetIds = {}
  Seeds <- MCSeeds
  GetContacts = {1, 2, 3}
  Times = {1}
  MaxLosses = 1
  MaxCrashes = 0
  MaxChanges = 0
INVARIANTS EqualClocksSameWrite
CHECK_DEADLOCK FALSE
