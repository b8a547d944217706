SPECIFICATION MCSpec
CONSTANTS
  NoCmd = NoCmd
  NoOrder = NoOrder
  Key = {k1}
  a = a
  b = b
  c = c
  d = d
  Cmd <- MCCmd
  Kind <- MCKind
  KeyOf <- MCKeyOf
  OrderOf <- MCOrderOf
  Parent <- MCParent
  Lease <- Single
  Ref = {a, b, c}
  RefOf <- MCOrderOf
  Parallel <- MCParallel
  Related <- MCRelated
  Order = {a, b, c}
  Creates = {n1}
  Modifies = {m1, m2, m3}
  Cancels = {x1}
  Bulks = {b1}
  OnB = {m2}
  OnC = {m3}
  OnD = {}
  ParentOf = {x1}
  Scenarios = {{m1, m2, m3}, {n1, m1, x1, b1}}
  Real = TRUE
  MaxGranted = 3
  MaxCrashes = 1
INVARIANTS SentIsOnRecord WritesSound
PROPERTIES JoinInCertainty EveryTaskEnds ImplementsPromise
CHECK_DEADLOCK FALSE
