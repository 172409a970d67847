SPECIFICATION Spec
CONSTANTS
  WAD = 10
  Modes = {"fixed"}
  OldUsdc = 4
  OldSy = 3
  OldYt = 6
  Position = 6
  Shortfalls = {0, 4}
  Rates = {13}
  SalePrices = {3}
  MintAmounts = {2}
  MaxFlows = 2
INVARIANT SellsOnlyNewYt
CHECK_DEADLOCK FALSE
