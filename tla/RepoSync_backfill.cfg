SPECIFICATION Spec
CONSTANTS
  b1 = b1
  w1 = w1
  w2 = w2
  NoJob = NoJob
  NoWorker = NoWorker
  Jobs = {b1}
  BackfillWorkers = {w1, w2}
  PollWorkers = {}
  PageSize = 2
  Retention = 1
  FirstDay = 10
  LastDay = 11
  MaxRuns = 3
  MaxVersion = 2
  MaxAttempts = 2
  MaxStalled = 1
  Budget <- ResumeBudget
INVARIANTS
  BackfillCoversHistory
CONSTRAINT FewChanges
SYMMETRY WorkerSymmetry
CHECK_DEADLOCK FALSE
