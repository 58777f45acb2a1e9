CONSTANTS
  UseLayoutSync = TRUE
  MaxEdits = 1
  MaxConns = 1
  MaxDraws = 1
  MaxSurfaces = 1
SPECIFICATION FairSpec
PROPERTIES JoinEnds
CHECK_DEADLOCK FALSE
