CONSTANTS
  i1 = i1
  i2 = i2
  s1 = s1
  s2 = s2
  None = None
  Intents = {i1, i2}
  Settlements = {s1, s2}
  target_amount <- Targets
  fee_percentage = 99
  OtherEntries <- Others
  MaxFaults = 1
  Reverting = {s1}
  SettledIntents = {i2}
  MaxReports = 1
SPECIFICATION FairSpec
INVARIANTS
  TypeOK
  SettlementRecord
  ReportsAgreeWithBooks
  CleanReportIsSound
PROPERTY EverySettlementEnds
CHECK_DEADLOCK FALSE
