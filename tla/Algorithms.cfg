CONSTANTS
  MaxPieces = 4
  MaxLen = 2
  Edges <- MCEdges
  Requests = {0, 1, 2, 3, 4, 5, 6, 7, 8, 9}
  IovMax = 3
SPECIFICATION MCSpec
INVARIANTS PatchesSound AllSent DrawnRight
CHECK_DEADLOCK FALSE
