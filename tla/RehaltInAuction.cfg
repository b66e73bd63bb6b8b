SPECIFICATION VenueSpec
CONSTANTS
  Locates = {1}
  StateCodes = {"T", "H", "P"}
  Timestamps = {}
  ReopenCap = 1
  MaxSeen = 2
  MaxWindows = 3
  MaxTime = 5
  Venues <- Rehalting
INVARIANTS
  HaltedSessionsPass
CHECK_DEADLOCK FALSE
