SPECIFICATION Spec
CONSTANTS
  back = back
  front = front
  x1 = x1
  x2 = x2
  Service = {back, front}
  External = {x1}
  ServiceOf <- MCServiceOf
  None = None
  MaxSpawns = 2
  MaxFaults = 1
  MaxStops = 2
INVARIANTS ChildrenAreFollowed OnlyConfirmed
PROPERTIES OperationsEnd
CHECK_DEADLOCK FALSE
