\* A checkout that was left can still be paid.
SPECIFICATION FairSpec
CONSTANTS
  c1 = c1
  c2 = c2
  c3 = c3
  f1 = f1
  f2 = f2
  h1 = h1
  h2 = h2
  Calls = {c1, c2}
  Keys = {k1}
  Confirms = {f1}
  Hooks = {h1, h2}
  MayRetry = TRUE
  MaxCrashes = 1
  None = None
PROPERTIES
  SettledForGood
