\* One request at a time, in a workspace that begins with its founder.
SPECIFICATION HostedSpec
CONSTANTS
  w1 = w1
  w2 = w2
  a = a
  b = b
  Workstreams = {w1, w2}
  Titles = {a, b}
  Events <- MCEvents
  BatchSize = 3
  MsPerSecond = 2
  None = None
  u1 = u1
  u2 = u2
  u3 = u3
  Users = {u1, u2, u3}
  Founder = u1
  Invites = {i1, i2}
  Requests = {r1}
  MaxSeats = 2
  MaxLinks = 8
  Given = {"owner", "viewer"}
  Memberships <- MCFounded
PROPERTY NoOwnerByInvite
CHECK_DEADLOCK FALSE
