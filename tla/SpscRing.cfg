SPECIFICATION RingSpec
CONSTANTS
  N = 4
  Wrap = 8
  Messages = 10
INVARIANTS
  NoDataRace
PROPERTIES
  IsAQueue
  RunEnds
