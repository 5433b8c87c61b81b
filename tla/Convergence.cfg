SPECIFICATION ConvergenceSpec
CONSTANTS
  r1 = r1
  k1 = k1
  w1 = w1
  p1 = p1
  b1 = b1
  NoJob = NoJob
  Runs = {r1}
  Jobs = {k1}
  RunOf <- MCRunOf
  Workers = {w1}
  NoWorker = NoWorker
  MaxVersion = 3
  MaxQueued = 6
  MaxAttempts = 3
  MaxStalled = 1
  InOrder = TRUE
  Budget <- NoFault
  SyncVersions = 2
  SyncAttempts = 2
  FirstDay = 10
  LastDay = 11
PROPERTIES
  RunsNeverRegress
  Converges
  PollsConverge
  BackfillEnds
CHECK_DEADLOCK FALSE
