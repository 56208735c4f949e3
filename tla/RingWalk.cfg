\* Every ring of up to four tokens on four nodes, every key, every set of
\* unreachable nodes: two owners, and up to two covers for them.
SPECIFICATION FairSpec
CONSTANTS
  Node = {1, 2, 3, 4}
  N = 2
  W = 1
  R = 2
  MaxToken = 4
  MaxRing = 4
INVARIANTS TypeOK WalkFindsNearest WalkIsPlacement ListInWalkOrder
PROPERTIES Terminates
CHECK_DEADLOCK FALSE
