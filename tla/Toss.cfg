SPECIFICATION MCSpec
CONSTANTS
  NoCmd = NoCmd
  NoOrder = NoOrder
  Key = {k1}
  Order = {o1, o2}
  o1 = o1
  o2 = o2
  Cmd <- MCCmd
  Kind <- MCKind
  KeyOf <- MCKeyOf
  OrderOf <- MCOrderOf
  Parent <- MCParent
  Creates = {c1, c2}
  Modifies = {m1, m2, m3}
  Cancels = {x1, x2}
  Bulks = {b1}
  OnSecond = {m2}
  ParentOf = {x1}
  Scenarios = {{c1, c2, m1}, {m1, x1, b1}, {x1, x2, b1}, {c1, m1, m2}, {m1, m3, x2}}
  Quiet = {{c1, m1, m2}, {m1, m3, x2}}
  ModifySlots = 1
  CancelSlots = 1
  MaxCrashes = 1
INVARIANTS WritesSound
PROPERTIES ImplementsPromise EveryTaskEnds
CHECK_DEADLOCK FALSE
