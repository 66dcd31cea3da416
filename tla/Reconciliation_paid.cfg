CONSTANTS
  i1 = i1
  i2 = i2
  s1 = s1
  s2 = s2
  None = None
  Intents = {i1, i2}
  Settlements = {s1, s2}
  target_amount <- Targets
  fee_percentage = 99
  OtherEntries <- Others
  Reverting = {s1}
  SettledIntents = {i2}
  MaxFaults = 0
  MaxReports = 0
SPECIFICATION Spec
INVARIANT CompletedWasPaid
CHECK_DEADLOCK FALSE
