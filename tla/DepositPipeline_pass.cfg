CONSTANTS
  i1 = i1
  i2 = i2
  t1 = t1
  t2 = t2
  x1 = x1
  x2 = x2
  checksummed = checksummed
  lower = lower
  payer = payer
  None = None
  Intents = {i1, i2}
  Transfers = {t1, t2}
  Addresses = {checksummed, lower, payer}
  CreatedAt <- Ages
  TxOf <- OneTxEach
  Lower <- LowerCase
  AddressOf <- SharedAddress
  ToAddress <- AllToIt
  FromAddress <- Senders
  Polled = "deposits"
  MaxAttempts = 2
  MaxFaults = 1
SPECIFICATION FairSpec
INVARIANTS TypeOK CreditedOnce ConfirmedIsFinal RecordedIsDone
PROPERTIES QueueSpec FinalIsQueued
CHECK_DEADLOCK FALSE
