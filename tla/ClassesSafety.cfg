\* Three calls of any kind, two classes, one room of the administrators.
SPECIFICATION Spec
CONSTANTS
  c1 = c1
  c2 = c2
  c3 = c3
  k1 = k1
  k2 = k2
  t1 = t1
  t2 = t2
  Calls = {c1, c2, c3}
  ClassIds = {k1, k2}
  RoomNames = {r1}
  Students = {s1}
  Tutor = tutor
  Admin = admin
  Titles = {t1, t2}
  Starts = {1, 2}
  MaxTime = 2
  Null = Null
  Blank = Blank
  Earlier = Earlier
SYMMETRY Symmetry
INVARIANTS
  ClassesTypeOK
  SeatsListed
  PrivateSealed
  JoinTokenFitsRoom
  SweepSparesLiveClasses
  ProviderRoomKnown
  ProviderRoomUsed
