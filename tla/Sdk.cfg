SPECIFICATION SdkSpec
CONSTANTS
  primary = primary
  fallback = fallback
  Providers <- TwoProviders
  MaxTxs = 2
  MaxHeight = 3
  RpcUrls <- TwoProviders
  Kinds = {"quote", "emissions"}
  Slots = {"liability", "supply"}
  Attempts = 2
  MaxLedger = 1
  WAD = 10
  BLEND_SCALAR_7 = 100
  BLEND_SCALAR_12 = 10
  UTIL_BREAKPOINT = 95
  Curve <- MCCurve
  BstopRate = 10
  Modifiers = {50, 100}
  Amounts = {3, 8}
  Growth = {3}
  MaxTokens = 11
INVARIANTS NeverReusesSequence RetryReplaces PartsAreFresh SupplyAprIsPaidFor DrainsBuckets
PROPERTIES KeepsPromise SubmitReturns ReadReturns
CHECK_DEADLOCK FALSE
