CONSTANTS
  N = 2
  Kinds = {"plain", "fenced", "read", "insane"}
  QueueSize = 2
  CmdCap = 1
  ResCap = 2
  PipeCap = 4
  FenceMod = 2
  FenceFails = TRUE
  MaxCmd = 4
SPECIFICATION Spec
INVARIANTS TypeOK AnswerAfterAllHosts InOrder ReportsBacked AnswersSound
PROPERTY ImplementsService
CHECK_DEADLOCK FALSE
