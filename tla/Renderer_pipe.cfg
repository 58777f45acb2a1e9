CONSTANTS
  Buffers = 2
  Hardware = TRUE
  Vsync = TRUE
  Sizes = {1}
  MaxFrames = 5
  MaxOthers = 0
  Contexts = {1, 2, 3}
  Main = 0
  NoContext = 4
  MaxSize = 8
  Proxies = {1, 2, 3}
  IdOf <- MCIdOf
  AutoStep = 1000
  Pids = {1, 2}
  NoProxy = 0
  NoPid = 9
  Clients = {1, 2}
  NoClient = 0
  SurfaceOf <- MCSurfaceOf
  StopId = "stop"
  Backlog = 2
  MaxDraws = 2
  OneAtATime = TRUE
  Crashes = TRUE
  ThreadFails = FALSE
SPECIFICATION MCSpec
INVARIANT ClientLeaves
CHECK_DEADLOCK FALSE
