SPECIFICATION Spec
CONSTANTS
  Refs = {r1, r2, r3}
  Locates = {1}
  Symbols = {1}
  Prices = {500, 2600}
  Sizes = {1}
  MaxShares = 1
  PoolSize = 3
  IndexLimit = 2
  Window = 24
  None = None
SYMMETRY AnyReference
INVARIANT AggregatesMatch
CHECK_DEADLOCK FALSE
