CONSTANTS
  N = 2
  Kinds = {"plain", "fenced", "read"}
  QueueSize = 2
  CmdCap = 1
  ResCap = 1
  PipeCap = 4
  FenceMod = 8
  FenceFails = TRUE
  MaxCmd = 3
SPECIFICATION FairSpec
PROPERTY AllComplete
CHECK_DEADLOCK FALSE
