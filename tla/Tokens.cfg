SPECIFICATION TokensSpec
CONSTANTS
  h1 = h1
  h2 = h2
  Holders = {h1, h2}
  Escrow = escrow
  Pairs <- BothWays
  MinTtl = 2
  MaxTtl = 4
  Amounts = {1, 2}
  MaxLedger = 3
  MaxSupply = 2
  WAD = 10
  SC = 10
  s1 = s1
  s2 = s2
  Shareholders = {s1, s2}
  slot0 = slot0
  slot1 = slot1
  Absent = Absent
  Custodies = {"blend", "idle"}
  Endowment = 5
  WrapperAmounts = {2, 5}
  BRates = {10, 13}
  Slots = {slot0, slot1}
  LiquidityCaps = {3}
  AdminRates = {13}
  MaxReindexes = 1
VIEW ButForTheCall
SYMMETRY Interchangeable
INVARIANT BasisGoesWithShares
PROPERTIES KeepsGrants DepositNeverDilutes RemainingKeepTheirValue ChargedForThePayout
CHECK_DEADLOCK FALSE
