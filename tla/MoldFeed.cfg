SPECIFICATION Spec
CONSTANTS
  SeqNumbers = {}
  Counts = {}
  MaxPackets = 0
  Last = 5
  PerPacket = 2
  Losses = {{}, {"B"}, {"A", "B"}}
  MaxLead = 0
  MaxLate = 3
INVARIANTS
  InOrderOnce
  NothingSilentlyAbsorbed
  FlaggedFromTheFirstGap
  NoGapReported
PROPERTIES
  ArrivesWhole
CHECK_DEADLOCK FALSE
