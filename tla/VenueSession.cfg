SPECIFICATION VenueSpec
CONSTANTS
  Locates = {s1, s2}
  StateCodes = {"T", "H"}
  Timestamps = {}
  ReopenCap = 1
  MaxSeen = 1
  MaxWindows = 2
  MaxTime = 3
  Venues <- OrderlyOrNot
INVARIANTS
  WindowsAccountedFor
  ExcuseIsBounded
  NoFalseAlarm
  CaughtAtOnce
SYMMETRY AnySymbol
CHECK_DEADLOCK FALSE
