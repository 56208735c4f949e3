\* Two concurrent versions of one writer.
SPECIFICATION Spec
CONSTANTS
  Node = {1, 2}
  N = 2
  W = 1
  R = 2
  Pos <- MCPos
  PutIds = {1, 2, 3, 4}
  ClientIds = {1, 2, 3, 4}
  PutContacts = {1, 2}
  GetIds = {}
  Seeds <- MCSeeds
  GetContacts = {1, 2}
  Times = {1}
  MaxLosses = 0
  MaxCrashes = 0
  MaxChanges = 0
INVARIANTS ConcurrentWritersDiffer
CHECK_DEADLOCK FALSE
