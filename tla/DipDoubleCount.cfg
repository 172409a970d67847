SPECIFICATION Spec
CONSTANTS
  WAD = 10
  h1 = h1
  h2 = h2
  Holders = {h1, h2}
  Escrow = escrow
  Shares = 6
  SyEndowment <- OneDepositor
  Rates = {10, 15}
  Maturity = 1
  MaxTime = 1
  Amounts = {6}
INVARIANT CoveredOnceRecovered
CHECK_DEADLOCK FALSE
