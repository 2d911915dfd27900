\* Two overlapping ticks sweep one page at a time; two requests and two passes of a
\* deletion; one failing call, lost answer, eviction or restore anywhere.
SPECIFICATION LaterSpec
CONSTANTS
  w1 = w1
  e1 = e1
  e2 = e2
  handoff = handoff
  other = other
  Workspaces = {w1}
  Owner <- MCOwner
  KindsOf <- MCKindsOf
  NoRow = NoRow
  EventKinds = {handoff, other}
  Endpoints = {e1}
  SweepLimit = 1
  MaxAttempts = 2
  Keys = {k1}
  Prefixes = {x1}
  RetryAfter = 2
  RequestLife = 1
  PassLife = 2
  CronEvery = 2
  VerdictLife = 1
  None = None
  Ticks = {t1, t2}
  Consumers = {}
  Founding = {e1}
  MaxRetries = 3
  MaxEvents = 2
  MaxTickFaults = 1
  Requests = {r1, r2}
  Passes = {t1, t2}
  MaxSagaFaults = 1
SYMMETRY LaterSymmetry
INVARIANTS
  SweepsAreSound
  ErasureIsOrderly
PROPERTIES
  SignOutFirstWins
  NoResurrection
CHECK_DEADLOCK FALSE
