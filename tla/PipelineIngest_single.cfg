SPECIFICATION Spec
CONSTANTS
  r1 = r1
  k1 = k1
  w1 = w1
  w2 = w2
  Runs = {r1}
  Jobs = {k1}
  RunOf <- MCRunOf
  Workers = {w1}
  NoWorker = NoWorker
  MaxVersion = 2
  MaxQueued = 3
  MaxAttempts = 3
  MaxStalled = 1
  InOrder = FALSE
  Budget <- RepeatBudget
INVARIANTS
  QuietFeedAgrees
CHECK_DEADLOCK FALSE
