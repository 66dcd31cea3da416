CONSTANTS
  j1 = j1
  j2 = j2
  w1 = w1
  w2 = w2
  NoWorker = NoWorker
  NoJob = NoJob
  Jobs = {j1, j2}
  Workers = {w1, w2}
  QueueOf <- OneQueue
  Polled = "default"
  Handled = {j1}
  MaxAttempts = 2
  Concurrency = 2
  MaxRestarts = 1
  MaxDbErrors = 1
  AckLoss = TRUE
  e1 = e1
  e2 = e2
  t1 = t1
  r1 = r1
  r2 = r2
  None = None
  Addresses = {e1, e2, t1}
  EvmAddresses = {e1, e2}
  Refreshes = {r1, r2}
  MaxChanges = 1
  MaxFaults = 1
SPECIFICATION WorkerFairSpec
INVARIANTS
  TypeOK
  SharedOnlyIfReclaimed
  VerdictsJustified
  WatchesAreBooked
  PoolClosesLast
PROPERTIES
  EveryJobSettles
  EveryAwaitedIsPolled
CHECK_DEADLOCK FALSE
