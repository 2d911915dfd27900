\* A writer and two verify runs.
SPECIFICATION LocalSpec
CONSTANTS
  h1 = h1
  h2 = h2
  m1 = m1
  q1 = q1
  q2 = q2
  b1 = b1
  z1 = z1
  v1 = v1
  v2 = v2
  a = a
  b = b
  s = s
  Invocations = {h1, h2, m1, q1, q2, b1, z1, v1, v2}
  Hooks = {h1}
  Importers = {m1}
  Queries = {}
  Rebuilds = {}
  Resets = {}
  Verifiers = {v1, v2}
  NoCache = {}
  MaxInvocations = 4
  Events <- MCEvents
  Ids <- MCIds
  IdOf <- MCIdOf
  Sessions = {s}
  SessionOf <- MCSessionOf
  Fields <- MCFields
  Owners = {a, b}
  ClaimOf <- MCClaimOf
  Batches <- MCBatches
  VerificationOf <- MCVerificationOf
  None = None
  Sides = {"store"}
  Calls = {}
  Agents = {"codex"}
  AgentSessions = {1}
  ProviderOf <- MCProviderOf
  ClaimedPaths = {}
  Unset = Unset
  MaxWall = 0
  MaxSetBacks = 0
  MaxCommits = 0
  MaxCaptured = 1
INVARIANT VerdictIsCurrent
CHECK_DEADLOCK FALSE
