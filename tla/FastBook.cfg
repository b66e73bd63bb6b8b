SPECIFICATION Spec
CONSTANTS
  Refs = {r1, r2, r3, r4}
  Locates = {1}
  Symbols = {1}
  Prices = {100, 500, 2450}
  Sizes = {2}
  MaxShares = 2
  PoolSize = 3
  IndexLimit = 3
  Window = 24
  None = None
SYMMETRY AnyReference
INVARIANTS
  QueuesAreSound
  SlotsAccountedFor
  InsideIsRight
PROPERTIES
  ImplementsOrderBook
CHECK_DEADLOCK FALSE
