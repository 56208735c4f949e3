\* Three nodes, two of them owners of the key: failed calls find a substitute,
\* node 3 coordinates as one or forwards, one ring changes, a seed is called.
SPECIFICATION Spec
CONSTANTS
  Node = {1, 2, 3}
  N = 2
  W = 2
  R = 1
  Pos <- MCPos
  PutIds = {1, 2}
  ClientIds = {1, 2}
  PutContacts = {1, 3}
  GetIds = {}
  Seeds <- MCSeeds
  GetContacts = {1, 2, 3}
  Times = {1}
  MaxLosses = 1
  MaxCrashes = 0
  MaxChanges = 1
CONSTRAINT FewRemoved
INVARIANTS TypeOK CausalPastDominated ClockBacked QuorumDistinct NeverDoubtsItself AckedNeverVanishes
PROPERTIES NoStepBack HintGivenUpOnlyWhenHeld StoreSupersedes
CHECK_DEADLOCK FALSE
