CONSTANTS
  Res = {"r1", "r2"}
  Sizes = {1}
  MaxMem = 0
  MaxLoads = 2
  StreamCap = 4
  ResCap = 2
SPECIFICATION MCSpec
INVARIANTS CatchesUp NoStrayData MemoryKept
PROPERTY EndsWithinLimit
CHECK_DEADLOCK FALSE
