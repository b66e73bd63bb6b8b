SPECIFICATION SessionSpec
CONSTANTS
  Refs = {1, 2, 3, 4}
  Locates = {1}
  Sides = {"B", "S"}
  Prices = {2, 3}
  MaxShares = 2
  OpeningBooks <- MCOpeningBooks
  LotSizes = {1}
  TradingStates = {"T", "H", "P"}
  Delays = {1}
  Missed = {}
  MaxMessages = 4
  TimerPlacement = FALSE
  Horizons = {1, 3}
  Gaps = {2}
  StartOfTrading = 0
  EndOfTrading = 6
  MaxLife = 100
  SweepEvery = 2
  RefreshEvery = 1
  CatchUpLimit = 1
  DepthEdge = 3
  MaxPlacements = 2
  WindowSizes = {1, 3}
  OpenNs = 1
  CloseNs = 5
  SampleEvery = 2
  SampleOpen = 1
  SampleClose = 5
PROPERTIES
  LaggedFeaturesPredateTheClose
CHECK_DEADLOCK FALSE
