CONSTANTS
  Res = {"r1"}
  Sizes = {1, 2}
  MaxMem = 1
  MaxLoads = 1
  StreamCap = 2
  ResCap = 1
SPECIFICATION Spec
INVARIANT FramingKept
CHECK_DEADLOCK FALSE
