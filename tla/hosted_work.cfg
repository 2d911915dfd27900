\* Eight features, one of which moves: two executors, requests or sweeps each and
\* one fault.
SPECIFICATION WorkSpec
CONSTANTS
  Parts = {"evals", "simulations", "playground", "prompts", "annotations", "alerts", "gateway", "keys"}
  EvalRunIds = {x1}
  EvalTraces = {1, 2}
  Checks = {k}
  Grades = {hi, lo}
  MaxTraces = 1
  MaxEvalFaults = 1
  MaxSpanChanges = 1
  SimRuns = {s1}
  Texts = {a, b}
  Verdicts = {pass, fail}
  MaxTurns = 2
  MaxSimFaults = 1
  Nothing = Nothing
  PlaygroundIds = {r1}
  Players = {p1, p2}
  Outputs = {a, b}
  Variants = 2
  MaxPlayFaults = 1
  Labels = {l1}
  Versions = {1, 2}
  Values = {0, 1}
  MinScore = 1
  Promoters = {q1}
  MaxRows = 4
  MaxScores = 2
  MaxSpine = 4
  MaxRecorded = 2
  MaxOccurred = 2
  Spans = {1, 2}
  Annotators = {n1, n2}
  MaxScan = 1
  MaxAnnEvictions = 1
  Rules = {1}
  Sweepers = {w1, w2}
  Levels = {"ok", "high", "higher"}
  Breaching = {"high", "higher"}
  RefireWindows = 1
  SweepLimit = 1
  MaxAlertTime = 3
  MaxLateSpans = 1
  MaxAlertFaults = 1
  Callers = {c1, c2}
  RequestIds = {i1, i2}
  Costs = {1}
  Budget = 2
  RateLimit = 2
  EdgeTTL = 1
  MaxGatewayTime = 1
  MaxCalls = 2
  MaxGatewayFaults = 1
  Verifiers = {v1, v2}
  VerdictTTL = 2
  MaxVerify = 1
  MaxApiTime = 5
INVARIANTS
  SettledRunsAreWhole
  ScoresAreSound
  FiringsAreEvidence
  SpendIsTheLedger
  RevocationReachesTheEdge
PROPERTY RunsAreSettledOnce
CHECK_DEADLOCK FALSE
