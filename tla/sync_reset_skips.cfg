\* A hard reset of a store whose data directory does not hold the state file.
SPECIFICATION SpecWithResets
CONSTANTS
  w1 = w1
  t1 = t1
  t2 = t2
  s1 = s1
  Procs = {p1}
  Tokens = {t1}
  Stores = {s1}
  Workspaces = {w1}
  Home <- MCHome
  Policies = {q1}
  Unsafe = {}
  WipesState = {}
  BatchSize = 1
  MaxEvents = 2
  MaxResets = 1
  None = None
INVARIANT CursorMeansDelivered
CHECK_DEADLOCK FALSE
