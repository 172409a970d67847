SPECIFICATION FlowsSpec
CONSTANTS
  WAD = 10
  Modes = {"keep", "fixed", "mint"}
  OldUsdc = 4
  OldSy = 3
  OldYt = 6
  Position = 6
  Shortfalls = {0, 4}
  Rates = {13}
  SalePrices = {3}
  MintAmounts = {3}
  MaxFlows = 2
  Pages = {p1, p2}
  MaxRuns = 3
  MaxOutput = 3
  Buffer = 2
  Unset = Unset
  Commits = {c1, c2}
  Maturities = {m1, m2}
  Provided = {Unset, usdc, other}
  Default = usdc
  MaxCrashes = 3
  MaxReruns = 1
INVARIANTS KeepsOldYt OneTaskAtATime LogIsTrue ManifestIsOneMarket
PROPERTIES SlotIsFreed NeverRefusesItself LogIsWhole ResumesOrUnmarked
CHECK_DEADLOCK FALSE
