\* One award, two withdrawals that contend for the lock, one decision, one reset.
SPECIFICATION FairSpec
CONSTANTS
  a1 = a1
  a2 = a2
  w1 = w1
  w2 = w2
  d1 = d1
  d2 = d2
  Awards = {a1}
  Withdrawals = {w1, w2}
  Decisions = {d1}
  Resets = {r1}
  XpValues = {2}
  Amounts = {1, 2}
  Rate = 1
  Opening = {3}
  OpeningRow = opening
  None = None
PROPERTIES
  EveryCallEnds
