\* Two invocations, two credentials of one workspace, two redaction policies, and
\* a third event that cannot be redacted.
SPECIFICATION Spec
CONSTANTS
  w1 = w1
  t1 = t1
  t2 = t2
  s1 = s1
  Procs = {p1, p2}
  Tokens = {t1, t2}
  Stores = {s1}
  Workspaces = {w1}
  Home <- MCHome
  Policies = {q1, q2}
  Unsafe <- MCUnsafe
  WipesState = {}
  BatchSize = 2
  MaxEvents = 3
  MaxResets = 0
  None = None
SYMMETRY ProcSymmetry
CONSTRAINT Bounded
INVARIANTS
  CursorMeansDelivered
  NeverWedged
  ReplaysAreExact
PROPERTIES
  NoLostUpdate
CHECK_DEADLOCK FALSE
