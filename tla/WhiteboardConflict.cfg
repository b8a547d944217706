SPECIFICATION Spec
CONSTANTS
  Tab = {t, u}
  None = None
  Unfit <- MCAllFit
  MaxEdits = 3
  MaxFaults = 0
  MaxOpens = 3
  MaxTrash = 0
PROPERTIES NeverOverwritten
SYMMETRY TabSymmetry
CHECK_DEADLOCK FALSE
