\* A client and its rivals on two nodes, both of them owners.  The only read is
\* the client's; two of its attempts may fail, so a call may find no seed.
SPECIFICATION SessionSpec
CONSTANTS
  Node = {1, 2}
  N = 2
  W = 2
  R = 1
  Pos <- MCPos
  PutIds = {1, 2, 3}
  ClientIds = {1, 2, 3}
  PutContacts = {1, 2}
  GetIds = {4}
  Seeds <- MCSeeds
  GetContacts = {1, 2}
  Times = {1}
  MaxLosses = 1
  MaxCrashes = 0
  MaxChanges = 0
  SeedNodes <- MCSeedNodes
  RivalPuts = {2}
  RivalGets = {}
  MaxTimeouts = 2
CONSTRAINTS FewFailures ThirdIsOwn
INVARIANTS ClientTypeOK PutSupersedesContext CacheCoversOwnWrites
PROPERTIES Spec
CHECK_DEADLOCK FALSE
