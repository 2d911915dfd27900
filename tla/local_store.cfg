\* Any three of two hooks, an import, a query, a reset and a verify, killed anywhere;
\* or two calls that checkpoint, hand over, accept, claim or complete.
SPECIFICATION LocalSpec
CONSTANTS
  h1 = h1
  h2 = h2
  m1 = m1
  q1 = q1
  q2 = q2
  b1 = b1
  z1 = z1
  v1 = v1
  v2 = v2
  a = a
  b = b
  s = s
  Invocations = {h1, h2, m1, q1, q2, b1, z1, v1, v2}
  Hooks = {h1, h2}
  Importers = {m1}
  Queries = {q1}
  Rebuilds = {}
  Resets = {z1}
  Verifiers = {v1}
  NoCache = {}
  MaxInvocations = 3
  Events <- MCEvents
  Ids <- MCIds
  IdOf <- MCIdOf
  Sessions = {s}
  SessionOf <- MCSessionOf
  Fields <- MCFields
  Owners = {a, b}
  ClaimOf <- MCClaimOf
  Batches <- MCBatches
  VerificationOf <- MCVerificationOf
  None = None
  Sides = {"store", "handoffs"}
  Calls = {1, 2}
  Agents = {"codex", "claude"}
  AgentSessions = {1}
  ProviderOf <- MCProviderOf
  ClaimedPaths = {{"x"}, {"x", "y"}}
  Unset = Unset
  MaxWall = 1
  MaxSetBacks = 1
  MaxCommits = 1
  MaxCaptured = 2
INVARIANTS
  FreshIndexIsComplete
  HandoffsAreSound
PROPERTIES
  GrowsAtTheEnd
  BatchesEnd
CHECK_DEADLOCK FALSE
