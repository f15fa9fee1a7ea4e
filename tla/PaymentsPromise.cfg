\* Two calls that race for a key; a failure of the gateway is final.
SPECIFICATION FairSpec
CONSTANTS
  c1 = c1
  c2 = c2
  c3 = c3
  f1 = f1
  f2 = f2
  h1 = h1
  h2 = h2
  Calls = {c1, c2}
  Keys = {k1}
  Confirms = {f1}
  Hooks = {h1, h2}
  MayRetry = FALSE
  MaxCrashes = 1
  None = None
PROPERTIES
  KeepsPromise
  ChargeIsHonoured
