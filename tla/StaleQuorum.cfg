\* As many nodes as owners: a substitute's ack counts for W, and no read sees
\* the hint behind it.
SPECIFICATION Spec
CONSTANTS
  Node = {1, 2, 3}
  N = 3
  W = 2
  R = 2
  Pos <- MCPos
  PutIds = {1}
  ClientIds = {1}
  PutContacts = {1}
  GetIds = {3}
  Seeds <- MCSeeds
  GetContacts = {2}
  Times = {1}
  MaxLosses = 3
  MaxCrashes = 0
  MaxChanges = 0
CONSTRAINT ReadHasDuties
INVARIANT OverlapGuarantee
CHECK_DEADLOCK FALSE
