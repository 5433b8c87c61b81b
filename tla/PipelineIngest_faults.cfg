SPECIFICATION FairSpec
CONSTANTS
  r1 = r1
  k1 = k1
  w1 = w1
  w2 = w2
  Runs = {r1}
  Jobs = {k1}
  RunOf <- MCRunOf
  Workers = {w1, w2}
  NoWorker = NoWorker
  MaxVersion = 1
  MaxQueued = 2
  MaxAttempts = 3
  MaxStalled = 1
  InOrder = FALSE
  Budget <- FaultyBudget
INVARIANTS
  GiveUpJustified
  DeadLettersAccountedFor
  OneRunnerPerJob
  NoOrphanJobs
PROPERTIES
  DeliveryHolds
CHECK_DEADLOCK FALSE
