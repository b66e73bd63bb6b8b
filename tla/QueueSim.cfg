SPECIFICATION QueueSimSpec
CONSTANTS
  Refs = {1, 2, 3, 4}
  Locates = {1}
  Sides = {"B", "S"}
  Prices = {2, 3}
  MaxShares = 2
  OpeningBooks <- MCOpeningBooks
  LotSizes = {1}
  TradingStates = {}
  Delays = {1, 4}
  Missed = {}
  MaxMessages = 3
  TimerPlacement = TRUE
  Horizons = {1, 3}
  Gaps = {2}
  StartOfTrading = 0
  EndOfTrading = 6
  MaxLife = 3
  SweepEvery = 2
  RefreshEvery = 1
  CatchUpLimit = 1
  DepthEdge = 3
  MaxPlacements = 2
INVARIANTS
  ExactCountsTheOrdersAhead
  ModelsAreOrdered
  OrdersAreResolvedInTime
  IndexIsExact
PROPERTIES
  ExactFillsAtTheFront
CHECK_DEADLOCK FALSE
