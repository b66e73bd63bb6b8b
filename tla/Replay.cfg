SPECIFICATION MCReplaySpec
CONSTANTS
  Bytes <- MCBytes
  MsgLen <- MCMsgLen
  Sessions <- MCSessions
  EndOfMessages <- MCEnd
  BadLengths <- MCBadLengths
  kProbe = 2
  BookTypes = {2}
  Refs = {1, 2, 3, 4}
  Locates = {1}
  Sides = {"B"}
  Prices = {1, 2}
  MaxShares = 2
  OpeningBooks <- MCOpeningBooks
  LotSizes = {1, 2}
  TradingStates = {"T"}
  Delays = {0}
  Missed = {}
  MaxMessages = 5
  FullEvery = 2
  Unseen = {}
INVARIANTS
  CensusKnowsAWholeSession
  SkipsOnlyTheBadFrames
  StaysInTheBuffer
  HiddenOnlyWhereNobodyWent
  IdenticalMeansIdentical
PROPERTIES
  EveryTurnConsumes
CHECK_DEADLOCK FALSE
