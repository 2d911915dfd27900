\* Ten events of two workstreams in batches of up to three, in any order and again;
\* two requests at a time about three users, two invites and two seats.
SPECIFICATION HostedSpec
CONSTANTS
  w1 = w1
  w2 = w2
  a = a
  b = b
  Workstreams = {w1, w2}
  Titles = {a, b}
  Events <- MCEvents
  BatchSize = 3
  MsPerSecond = 2
  None = None
  u1 = u1
  u2 = u2
  u3 = u3
  Users = {u1, u2, u3}
  Founder = u1
  Invites = {i1, i2}
  Requests = {r1, r2}
  MaxSeats = 2
  MaxLinks = 3
  Given = {"owner", "viewer"}
  Memberships <- MCMemberships
SYMMETRY TeamSymmetry
INVARIANTS
  Converged
  TeamStands
PROPERTIES
  OwnersActOnOwners
  ChangesAreAudited
