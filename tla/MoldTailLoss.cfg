SPECIFICATION Spec
CONSTANTS
  SeqNumbers = {}
  Counts = {}
  MaxPackets = 0
  Last = 7
  PerPacket = 2
  Losses = {{"A","B"}}
  MaxLead = 0
  MaxLate = 4
INVARIANTS
  GapsAreDetected
CHECK_DEADLOCK FALSE
