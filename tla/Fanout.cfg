\* Two tasks of one fan-out look for substitutes, and two acks are enough.
SPECIFICATION Spec
CONSTANTS
  Node = {1, 2, 3, 4}
  N = 3
  W = 2
  R = 2
  Pos <- MCPos
  PutIds = {1}
  ClientIds = {1}
  PutContacts = {1, 4}
  GetIds = {}
  Seeds <- MCSeeds
  GetContacts = {1, 2, 3, 4}
  Times = {1}
  MaxLosses = 2
  MaxCrashes = 0
  MaxChanges = 0
INVARIANTS QuorumDistinct NeverDoubtsItself AckedNeverVanishes
CHECK_DEADLOCK FALSE
