SPECIFICATION GateSpec
CONSTANTS
  a1 = a1
  a2 = a2
  b1 = b1
  c1 = c1
  d1 = d1
  w1 = w1
  a = a
  b = b
  c = c
  d = d
  Lease = {a1, b1, c1, d1, w1}
  Ref = {a, b, c, d}
  RefOf <- MCRefOf
  Related <- MCRelated
  Parallel = {a1, b1, c1, d1}
  MaxGranted = 2
INVARIANTS Independent NoLostWakeup
PROPERTIES NoOvertaking TicketIsServed
CHECK_DEADLOCK FALSE
