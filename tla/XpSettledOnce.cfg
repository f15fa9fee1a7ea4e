\* Two decisions on one request.
SPECIFICATION Spec
CONSTANTS
  a1 = a1
  a2 = a2
  w1 = w1
  w2 = w2
  d1 = d1
  d2 = d2
  Awards = {a1, a2}
  Withdrawals = {w1, w2}
  Decisions = {d1, d2}
  Resets = {r1}
  XpValues = {0, 2}
  Amounts = {1, 2}
  Rate = 2
  Opening = {3}
  OpeningRow = opening
  None = None
SYMMETRY Symmetry
INVARIANTS
  SettledOnce
