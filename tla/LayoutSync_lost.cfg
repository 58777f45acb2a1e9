CONSTANTS
  UseLayoutSync = TRUE
  MaxEdits = 1
  MaxConns = 1
  MaxDraws = 0
  MaxSurfaces = 0
SPECIFICATION FairSpec
PROPERTIES LayoutAnswered
CHECK_DEADLOCK FALSE
