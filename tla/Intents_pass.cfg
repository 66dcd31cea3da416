CONSTANTS
  i1 = i1
  c1 = c1
  c2 = c2
  a1 = a1
  t1 = t1
  t2 = t2
  t3 = t3
  None = None
  Intents = {i1}
  Callers = {c1, c2}
  Operations <- AllOperations
  Addresses = {a1}
  Transfers = {t1, t2, t3}
  AmountOf <- Amounts
  MaxVersion = 8
  e1 = e1
  e2 = e2
  q1 = q1
  cron = cron
  NoDelivery = NoDelivery
  Deliveries = {e1, e2}
  Requests = {q1}
  Retriers = {cron}
  MAX_ATTEMPTS = 2
  BatchLimit = 2
  MaxDeliveries = 2
  MaxErrors = 1
  MaxCrashes = 1
SPECIFICATION IntentsSpec
INVARIANTS
  TypeOK
  LogIsHistory
  WebhookAfterCommit
  PaidBeforeSettled
  DeliveredWasAccepted
  PostBudget
  UnsentStaysDue
SYMMETRY Symmetry
CHECK_DEADLOCK FALSE
