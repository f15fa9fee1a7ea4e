\* Three calls of any kind, three users, two devices.
SPECIFICATION BoundedSpec
CONSTANTS
  c1 = c1
  c2 = c2
  c3 = c3
  u1 = u1
  u2 = u2
  u3 = u3
  d1 = d1
  d2 = d2
  Calls = {c1, c2, c3}
  Users = {u1, u2, u3}
  Tokens = {d1, d2}
  Null = Null
  Earlier = Earlier
SYMMETRY Symmetry
INVARIANTS
  CommunityTypeOK
  ReadsCounted
  ReadWhenHalved
  MarkedIsRead
  MessagesReach
  RegisteredDeviceKept
  PushFindsDevices
