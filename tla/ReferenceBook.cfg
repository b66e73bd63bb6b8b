SPECIFICATION Spec
CONSTANTS
  Locates = {s1, s2}
  StateCodes = {"T", "H"}
  Timestamps = {1}
  ReopenCap = 1
  MaxSeen = 3
  MaxWindows = 1
  Refs = {r1, r2, r3}
  Prices = {1, 2}
  MaxShares = 2
  MaxAdds = 3
  MaxOrphans = 1
SYMMETRY Interchangeable
CONSTRAINT Explored
INVARIANTS
  QueuesMatchOrders
  AggregatesMatch
  LifecycleReconciles
PROPERTIES
  ImplementsOrderBook
  GateKeepsUp
CHECK_DEADLOCK FALSE
