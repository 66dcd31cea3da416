CONSTANTS
  j1 = j1
  j2 = j2
  w1 = w1
  NoWorker = NoWorker
  NoJob = NoJob
  Jobs = {j1, j2}
  Workers = {w1}
  QueueOf <- DepositsQueue
  Polled = "default"
  Handled = {j1, j2}
  MaxAttempts = 2
  Concurrency = 1
  MaxRestarts = 0
  MaxDbErrors = 0
  AckLoss = FALSE
SPECIFICATION FairSpec
PROPERTY EnqueuedJobsRun
