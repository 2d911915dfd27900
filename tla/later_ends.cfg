\* One tick and two consumers with redelivery, lost answers, evictions and two failing
\* calls; one deletion and one pass with two failing calls; a fair cron and a fair queue.
SPECIFICATION LaterFairSpec
CONSTANTS
  w1 = w1
  e1 = e1
  e2 = e2
  handoff = handoff
  other = other
  Workspaces = {w1}
  Owner <- MCOwner
  KindsOf <- MCKindsOf
  NoRow = NoRow
  EventKinds = {handoff, other}
  Endpoints = {e1}
  SweepLimit = 1
  MaxAttempts = 2
  Keys = {k1}
  Prefixes = {x1}
  RetryAfter = 2
  RequestLife = 1
  PassLife = 2
  CronEvery = 2
  VerdictLife = 1
  None = None
  Ticks = {t1}
  Consumers = {q1, q2}
  Founding = {}
  MaxRetries = 1
  MaxEvents = 1
  MaxTickFaults = 2
  Requests = {r1}
  Passes = {t1}
  MaxSagaFaults = 2
INVARIANTS
  DeliveredWasAccepted
PROPERTIES
  SettledForGood
  DeliveryEnds
  DeletionCompletes
CHECK_DEADLOCK FALSE
