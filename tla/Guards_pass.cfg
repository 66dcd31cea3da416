CONSTANTS
  i1 = i1
  gecko = gecko
  link = link
  None = None
  Intents = {i1}
  Callers = {c1, c2}
  CoinGecko = {gecko}
  Chainlink = {link}
  Prices = {0, 1}
  Ages = {2}
  CacheTtl = 2
  MaxAge = 2
  minTtl = 1
  maxTtl = 2
  Ttls = {3}
  MaxFetch = 1
  MaxLocks = 2
  MaxCancels = 1
  c1 = c1
  c2 = c2
  p1 = p1
  p2 = p2
  p3 = p3
  Scorers = {"basic", "basicAlone", "chainalysis", "trm"}
  Calls = {c1, c2}
  Scores = {65, 95}
  Amounts = {30000, 60000}
  Delays = {2}
  ScoreTtl = 1
  MaxLookup = 1
  durationMs = 1
  maxTransactions = 2
  maxAmount = 100000
  Places = {p1, p2, p3}
SPECIFICATION GuardsSpec
INVARIANTS RateIsRecent UsedOncePerCancel AllowedWasScreened AllowedWithinLimits
SYMMETRY Alike
CHECK_DEADLOCK FALSE
