\* Two requests of two devices, one without the ingest capability; any storage
\* call may fail and a commit go unacknowledged; the period rolls over.
SPECIFICATION Spec
CONSTANTS
  w1 = w1
  w2 = w2
  d1 = d1
  d2 = d2
  k1 = k1
  k2 = k2
  k3 = k3
  e1 = e1
  e2 = e2
  x1 = x1
  x2 = x2
  Requests = {r1, r2}
  Workspaces = {w1}
  Devices = {d1, d2}
  Keys = {k1, k2, k3}
  EventIds = {e1, e2}
  Contents = {x1, x2}
  CanIngest = {d1}
  Home <- MCHome
  Bodies <- MCBodies
  EventsOf <- MCEventsOf
  Resources <- MCResources
  Cost <- MCCost
  MaxBatch <- MCMaxBatch
  MaxMonthly <- MCMaxMonthly
  MaxLifetime <- MCMaxLifetime
  LegacySlots <- MCLegacySlots
  Period = 2
  MaxTime = 3
  StorageFaults = TRUE
  None = None
SYMMETRY RaceSymmetry
INVARIANTS
  AtomicAcceptance
  CountersAreSound
PROPERTIES
  FencedWrites
  ImplementsLedger
CHECK_DEADLOCK FALSE
