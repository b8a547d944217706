SPECIFICATION Spec
CONSTANTS
  k1 = k1
  u1 = u1
  a1 = a1
  Groups = {1, 2}
  Kr <- McKr
  Us <- McUs
  Account <- McAccount
  Addable = {"chart", "order", "market-indices"}
  Seeds <- McSeeds
  FirstId = 4
  MaxId = 5
  MaxOpen = 3
  MaxCommands = 4
  None = None
INVARIANTS FreshView ReloadRestores
PROPERTIES PinHolds FillsKeepLast
CHECK_DEADLOCK FALSE
