CONSTANTS
  c1 = c1
  c2 = c2
  o1 = o1
  o2 = o2
  k1 = k1
  k2 = k2
  None = None
  Cases = {c1, c2}
  CaseType <- Types
  Reachable = {c1}
  Operators = {o1}
  Crons = {k1, k2}
  Actions = {"AUTO_REFUND", "AUTO_CREDIT", "TOP_UP_LINK"}
  MaxCalls = 2
  MaxFaults = 1
SPECIFICATION FairSpec
INVARIANT ResolvedWasExecuted
PROPERTIES AcceleratedOnce EveryCaseEnds
CHECK_DEADLOCK FALSE
