CONSTANTS
  Clients = {1, 2}
  Polite = {1}
  PipeRoom = 1
  RendererDies = FALSE
  StableRequired = 1
  IdleBeforeKill = 1
  KillDeadline = 2
  ScanInterval = 2
  GraceTime = 1
  CleanupTime = 3
  MaxPasses = 2
  StableChecks = 2
  MaxSubmits = 2
  Renderers = 1
  Kinds = {"cmd", "res"}
  PipeCap = 1
  SockCap = 1
  Reachable = {0}
  Stuck = {}
  Signals = FALSE
  MaxUnits = 1
  MaxSent = 1
  MaxEvents = 3
  MaxPackets = 3
SPECIFICATION MCSpec
INVARIANTS TypesOK StreamsWhole NothingUsedAfterFree
PROPERTIES Delivered ShutdownServed
CHECK_DEADLOCK FALSE
