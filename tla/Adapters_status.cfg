CONSTANTS
  a = a
  b = b
  g = g
  None = None
  NaN = NaN
  Unset = Unset
  Calls = {a, b, g}
  Adapters = {a, b}
  maxRetries <- RetriesOfClients
  Kinds = {"lifi", "socket", "mock socket"}
  Params <- Routes
  Responses <- SomeResponses
  Chains = {"1", "137", "tron", "solana", "other"}
  Clients = {"1", "137", "solana"}
  Custom <- SomeConfigs
SPECIFICATION Spec
INVARIANTS CompletedHasArrived
CHECK_DEADLOCK FALSE
