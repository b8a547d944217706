SPECIFICATION Spec
CONSTANTS
  Tab = {t, u}
  None = None
  Unfit <- MCUnfit
  MaxEdits = 2
  MaxFaults = 1
  MaxOpens = 2
  MaxTrash = 1
INVARIANTS EditsAreSafe ConflictIsReal
PROPERTIES NothingOverwritten
SYMMETRY TabSymmetry
CHECK_DEADLOCK FALSE
