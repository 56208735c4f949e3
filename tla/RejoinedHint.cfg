\* The owner of a hint is removed, refuses it, and comes back.
SPECIFICATION FairSpec
CONSTANTS
  Node = {1, 2, 3}
  N = 2
  W = 1
  R = 2
  Pos <- MCPos
  PutIds = {1}
  ClientIds = {1}
  PutContacts = {1}
  GetIds = {}
  Seeds <- MCSeeds
  GetContacts = {1, 2, 3}
  Times = {1}
  MaxLosses = 1
  MaxCrashes = 0
  MaxChanges = 2
PROPERTIES HintDeliverable
CHECK_DEADLOCK FALSE
