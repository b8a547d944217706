SPECIFICATION Spec
CONSTANTS
  Pair = {p, q}
  NoPair = NoPair
  Id = {1, 2, 3}
  NoItem = NoItem
  Worker = {v, w}
  Cap = 1
  Unready = FALSE
  MaxFaults = 1
INVARIANTS OneRowPerPair RestoreIsFaithful
PROPERTIES EndsAreRight QueuedIsTaken
CHECK_DEADLOCK FALSE
