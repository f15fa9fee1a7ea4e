\* Any four calls, two questions, a quiz and an exam, two weeks.
SPECIFICATION Spec
CONSTANTS
  c1 = c1
  c2 = c2
  c3 = c3
  c4 = c4
  q1 = q1
  q2 = q2
  Calls = {c1, c2, c3, c4}
  Questions = {q1, q2}
  MaxWeek = 2
  MaxFailures = 1
  Given = {"exact", "folded", "wrong"}
  Sent <- MCSent
  Kinds = {"quiz", "mock"}
  Null = Null
SYMMETRY Symmetry
INVARIANTS
  TypeOK
  AwardedOnceInTurn
  EndedByItsCompletion
  ScoreStands
  StatsMatchAnswers
PROPERTIES
  InProgressKept
  WeeklyInTurn
