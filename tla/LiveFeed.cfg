SPECIFICATION Spec
CONSTANTS
  MaxPublished = 3
  TimeOf <- MCTimeOf
  Capacity = 1
  Batch = 1
  MaxDown = 1
  MaxMounts = 2
  MaxFaults = 2
INVARIANTS LossIsKnown DropsAreRecovered SubscriptionFollows
PROPERTIES BookConverges
CHECK_DEADLOCK FALSE
