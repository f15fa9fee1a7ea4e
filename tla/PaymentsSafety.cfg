\* Three calls: two that race for a key and one more; failures may be followed by a charge.
SPECIFICATION Spec
CONSTANTS
  c1 = c1
  c2 = c2
  c3 = c3
  f1 = f1
  f2 = f2
  h1 = h1
  h2 = h2
  Calls = {c1, c2, c3}
  Keys = {k1}
  Confirms = {f1}
  Hooks = {h1}
  MayRetry = TRUE
  MaxCrashes = 1
  None = None
SYMMETRY Symmetry
INVARIANTS
  TypeOK
  NoSecondCharge
  SameAnswer
  PaidIsCharged
