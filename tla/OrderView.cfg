SPECIFICATION Spec
CONSTANTS
  MaxOrders = 2
  Quantity = 2
  MaxChanges = 2
  MaxStream = 1
  MaxWire = 1
INVARIANTS NotAhead
PROPERTIES NoResurrection Converges
