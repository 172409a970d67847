SPECIFICATION MCSpec
CONSTANTS
  WAD = 10
  h1 = h1
  h2 = h2
  Holders = {h1, h2}
  Pt = 5
  Sy = 4
  Yt = 4
  Endowment <- Stake
  Amounts = {3, 4}
  Prices = {20}
  FeeBps = 1
  Bps = 10
  MinLiq = 1
  MaxReserve = 20
  SyRates = {10, 13}
  LnRates = {0, 20}
  Window = 3
  Maturity = 8
  OpensAt = {0, 7}
  MaxTime = 8
SYMMETRY Interchangeable
PROPERTIES LiquidityIsProRata LpShareNeverLoses TrustedTwapMovesSlowly
CHECK_DEADLOCK FALSE
