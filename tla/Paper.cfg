SPECIFICATION MCSpec
CONSTANTS
  k1 = k1
  k2 = k2
  Code = {k1, k2}
  MaxPrice = 3
  Quantity = {1, 2}
  Depth <- MCWide
  MaxTime = 0
  Cmd = {m1, m2, m3}
  StartCash = 12
  ResetCash = {6}
  ResetHeld = {2}
  MaxDay = 1
  MaxShown = 3
SYMMETRY CommandsAlike
INVARIANTS AccountSound BookSound
PROPERTIES PriorityKept DayOrders
CHECK_DEADLOCK FALSE
