\* Three nodes, all of them owners, majority quorums.
SPECIFICATION Spec
CONSTANTS
  Node = {1, 2, 3}
  N = 3
  W = 2
  R = 2
  Pos <- MCPos
  PutIds = {1, 2}
  ClientIds = {1, 2}
  PutContacts = {1, 2}
  GetIds = {3}
  Seeds <- MCSeeds
  GetContacts = {1, 3}
  Times = {1}
  MaxLosses = 1
  MaxCrashes = 0
  MaxChanges = 0
CONSTRAINT ReadHasDuties
INVARIANTS ReadCoversAcked WinnerDecided
CHECK_DEADLOCK FALSE
