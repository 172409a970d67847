SPECIFICATION Spec
CONSTANTS
  WAD = 10
  Modes = {"keep", "fixed", "mint"}
  OldUsdc = 4
  OldSy = 3
  OldYt = 2
  Position = 6
  Shortfalls = {0, 4}
  Rates = {13}
  SalePrices = {3}
  MintAmounts = {2, 4}
  MaxFlows = 1
INVARIANT DepositsWhatArrived
CHECK_DEADLOCK FALSE
