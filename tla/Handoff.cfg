\* One write, two failures: hints kept, delivered, delivered again.
SPECIFICATION FairSpec
CONSTANTS
  Node = {1, 2, 3}
  N = 2
  W = 1
  R = 2
  Pos <- MCPos
  PutIds = {1}
  ClientIds = {1}
  PutContacts = {1, 2, 3}
  GetIds = {}
  Seeds <- MCSeeds
  GetContacts = {1, 2, 3}
  Times = {1}
  MaxLosses = 2
  MaxCrashes = 0
  MaxChanges = 0
INVARIANTS NeverDoubtsItself AckedNeverVanishes
PROPERTIES HintLeaves
CHECK_DEADLOCK FALSE
