\* Two completions of one attempt are enough.
SPECIFICATION Spec
CONSTANTS
  c1 = c1
  c2 = c2
  c3 = c3
  c4 = c4
  q1 = q1
  q2 = q2
  Calls = {c1, c2}
  Questions = {q1}
  MaxWeek = 1
  MaxFailures = 0
  Given = {"exact"}
  Sent <- MCSent
  Kinds = {"quiz", "mock"}
  Null = Null
INVARIANT
  AwardedOnce
