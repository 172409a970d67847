SPECIFICATION Spec
CONSTANTS
  WAD = 10
  h1 = h1
  h2 = h2
  Holders = {h1, h2}
  Escrow = escrow
  Shares = 5
  SyEndowment <- OneDepositor
  Rates = {10, 14, 17}
  Maturity = 1
  MaxTime = 1
  Amounts = {5, 7}
INVARIANTS PtExitsAtFace PtCoveredAtPeak FullyCovered
PROPERTIES ClaimsPaidInFull EscrowOutflow BankedRateIsOnRecord OwedFixedAfterMaturity KeepsPromise
CHECK_DEADLOCK FALSE
