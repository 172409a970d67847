SPECIFICATION DeploySpec
CONSTANTS
  Unset = Unset
  Commits = {c1, c2}
  Maturities = {m1, m2}
  Provided = {Unset}
  Default = usdc
  MaxCrashes = 1
  MaxReruns = 0
PROPERTY Resumable
CHECK_DEADLOCK FALSE
