CONSTANTS
  Srcs = {0}
  Ids = {7,8,9}
  MaxSlots = 2
  MaxGuest = 2
  MaxInputs = 6
  Surfaces = {w1,w2}
  Fingers = {f1}
  Pair = {f2,f3}
  Buttons = {left,right}
  Positions <- Anywhere
  Mouse <- Inside
  Boxes <- MCBoxes
  Objects = {o1,o2}
  Nobody = Nobody
  UseLayout = TRUE
  Backend = "wayland"
  TouchOutside = FALSE
  MaxCount = 1
SPECIFICATION MCSpec
INVARIANTS TypesOK TouchesFollow TableSound NoStuckInput AlsoSound
PROPERTY RightSurface
SYMMETRY MCSymmetry
CHECK_DEADLOCK FALSE
