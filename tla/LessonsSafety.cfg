\* Three calls of any kind, three subjects, two lessons, titles and pictures.
SPECIFICATION Spec
CONSTANTS
  c1 = c1
  c2 = c2
  c3 = c3
  s1 = s1
  s2 = s2
  s3 = s3
  l1 = l1
  l2 = l2
  t1 = t1
  t2 = t2
  i1 = i1
  i2 = i2
  Calls = {c1, c2, c3}
  SubjectIds = {s1, s2, s3}
  LessonIds = {l1, l2}
  Titles = {t1, t2}
  Images = {i1, i2}
  Null = Null
SYMMETRY Symmetry
INVARIANTS
  LearningTypeOK
  PictureShown
  FormerPicturesGone
  LessonAwardedOnce
PROPERTIES
  NothingElseGoes
  FirstCompletionStands
