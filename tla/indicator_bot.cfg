SPECIFICATION FairSpec
CONSTANTS
  Symbols = {btc, sol}
  Ask = 10
  Bids = {8, 11, 13}
  Risks = {2}
  Fee = 0
  Slip = 1
  WorseSlip = 2
  Trail = 3
  Cash = 30
  MaxOpen = 2
  MaxDaily = 6
  MaxTrade = 3
  MaxPortfolio = 6
  FadeAge = 1
  IdleAge = 1
  HardAge = 2
  CoolAge = 1
  LossesToCool = 2
  EvidenceScope = "live_only"
  MaxUnavailable = 25
  Intervals = {"1m", "5m", "15m", "1h", "1d"}
  Facts <- MCFacts
  Markets <- MCMarkets
  Orders <- MCOrders
  MaxTrades = 3
  MaxDays = 2
  MaxFaults = 1
INVARIANTS
  DailyLossBound
PROPERTIES
  StopsOnlyTighten
  PositionEnds
