CONSTANTS
  r1 = r1
  r2 = r2
  p1 = p1
  p2 = p2
  NoProvider = NoProvider
  Requests = {r1, r2}
  Providers = {p1, p2}
  failureThreshold = 2
  minQuotesRequired = 1
  MaxFailures = 3
  MaxOrphans = 1
SPECIFICATION FairSpec
INVARIANTS TypeOK ClosedIffHealthy
PROPERTIES OpenShields EveryRequestResolves
