SPECIFICATION AppSpec
CONSTANTS
  WAD = 1000
  u1 = u1
  u2 = u2
  Users = {u1, u2}
  Nobody = Nobody
  Restored = {Nobody, u1}
  Ledgers <- MCLedgers
  Pages = {"trade", "pool", "portfolio", "mint", "strategy", "panel"}
  Watched <- MCWatched
  MaxMoves = 1
  Lag = 1
  TradeAmounts = {2000}
  Routes = {"buy-pt", "sell-pt"}
  Tolerances = {10, 50}
  BpsDenominator = 10000
  PoolAmounts = {2000}
  RedeemAmounts = {5}
  MintAmounts = {40}
  MaxGrants = 1
  MaxPresses = 2
INVARIANTS ShowsOwnBalances SeesWhatLanded QuotesAreCurrent  SaysWhatGoesOn RedemptionIsNeverEarly
PROPERTY QuoteComes
CHECK_DEADLOCK FALSE
