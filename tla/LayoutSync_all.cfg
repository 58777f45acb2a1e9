CONSTANTS
  UseLayoutSync = TRUE
  MaxEdits = 2
  MaxConns = 2
  MaxDraws = 1
  MaxSurfaces = 1
SPECIFICATION MCSpec
INVARIANTS TypeOK NoChangeForgotten AnswerShown
PROPERTIES WaitEnds PlainServed ListEdited
CHECK_DEADLOCK FALSE
