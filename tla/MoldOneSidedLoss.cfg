SPECIFICATION Spec
CONSTANTS
  SeqNumbers = {}
  Counts = {}
  MaxPackets = 0
  Last = 7
  PerPacket = 2
  Losses = {{"B"}}
  MaxLead = 1
  MaxLate = 4
INVARIANTS
  NoGapReported
CHECK_DEADLOCK FALSE
