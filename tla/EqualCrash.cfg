\* A restarted coordinator issues one clock twice.
SPECIFICATION Spec
CONSTANTS
  Node = {1, 2}
  N = 2
  W = 1
  R = 2
  Pos <- MCPos
  PutIds = {1, 2}
  ClientIds = {1, 2}
  PutContacts = {1, 2}
  GetIds = {}
  Seeds <- MCSeeds
  GetContacts = {1, 2}
  Times = {1}
  MaxLosses = 0
  MaxCrashes = 1
  MaxChanges = 0
INVARIANTS EqualClocksSameWrite
CHECK_DEADLOCK FALSE
