--------------------------- MODULE RouteProviders ---------------------------
(***************************************************************************)
(* The adapters of the bridge aggregators LI.FI and Socket, their mocks,   *)
(* the registry they are looked up in and the scorer that ranks their      *)
(* quotes (packages/routing-engine/src), on top of the HTTP client.        *)
(*                                                                         *)
(* One request at a time goes through quotes, choice, execution and status *)
(* polls; RouteEngine has concurrent requests and the circuit breaker.     *)
(* The execution itself is the caller's: the adapters only describe it and *)
(* report what the bridge says of it.                                      *)
(*                                                                         *)
(* Units: fees in cents, times in tenths of a second, scores in 1/360000.  *)
(* Abstracted: amounts, which no score looks at; the items of a response,  *)
(* to their sums and counts.                                               *)
(***************************************************************************)
EXTENDS HttpClient, Integers, SequencesExt, FiniteSetsExt

CONSTANTS
  Adapters,   \* the calls that are made by adapters
  Kinds,      \* providers that may be registered
  Params,     \* of requests for routes
  Responses,  \* what an aggregator may answer
  NaN,        \* not a number
  None

Real == Kinds \cap {"lifi", "socket"}

ASSUME ProvidersAssumption ==
  /\ Kinds \subseteq {"lifi", "socket", "mock lifi", "mock socket"}
  /\ Adapters \subseteq Calls
  /\ \A c \in Adapters : maxRetries[c] = 0    \* "We handle retries at the provider level"
  /\ \A r \in Responses :
       /\ r.fee \in Nat \cup {NaN} /\ r.duration \in Nat \cup {None}
       /\ r.known \in Nat /\ r.steps \in Nat /\ r.dear \in BOOLEAN /\ r.found \in BOOLEAN
  /\ None \notin Kinds /\ None \notin Params /\ None # NaN

VARIABLES
  registered,  \* the registry: providers in order of registration
  asked,       \* the parameters of the request
  todo,        \* the providers it has yet to call
  work,        \* what each call of an adapter is for
  quote,       \* the quote of each provider
  chosen,      \* the provider selectBest chose
  status,      \* of the route's execution, as execute() returned it
  bridge       \* the execution itself

theRequest == <<asked, todo>>
execution == <<chosen, status, bridge>>
routeVars == <<registered, theRequest, work, quote, execution>>

RouteStatus == {"PENDING", "EXECUTING", "COMPLETED", "FAILED", "REFUNDED"}
Bridge == {"unsent", "source", "crossing", "arrived", "failed", "refunded"}

\* seen: the states of the bridge since the call was made; said: the one it was answered in;
\* of: whether the result is that of the route or of its source transaction alone.
NoWork == [op |-> "none", by |-> None, seen |-> {}, said |-> None, result |-> None, of |-> "route"]
Works == [op : {"none", "quote", "dropped", "status", "reported"}, by : Kinds \cup {None},
          seen : SUBSET Bridge, said : Bridge \cup {None},
          result : RouteStatus \cup {None, "threw"}, of : {"route", "source"}]
Quotes == [fee : Nat \cup {NaN}, time : Nat, security : 0 .. 100, reliability : 0 .. 100]

RouteTypeOK ==
  /\ registered \in Seq(Kinds) /\ IsInjective(registered)
  /\ asked \in Params \cup {None} /\ todo \subseteq Kinds
  /\ work \in [Adapters -> Works]
  /\ quote \in [Kinds -> Quotes \cup {None}]
  /\ chosen \in Kinds \cup {None}
  /\ status \in RouteStatus \cup {None}
  /\ bridge \in Bridge

RouteInit ==
  /\ registered = <<>>
  /\ asked = None /\ todo = {}
  /\ work = [c \in Adapters |-> NoWork]
  /\ quote = [k \in Kinds |-> None]
  /\ chosen = None /\ status = None /\ bridge = "unsent"

-----------------------------------------------------------------------------
(* The registry. *)

getName(k) == IF k \in {"lifi", "mock lifi"} THEN "lifi" ELSE "socket"

\* A request has looked at the registry already, or there is none.
LookedUp == asked = None \/ chosen # None

\* "Provider already registered" if the name is taken.
register(k) ==
  /\ LookedUp
  /\ \A n \in DOMAIN registered : getName(registered[n]) # getName(k)
  /\ registered' = Append(registered, k)
  /\ UNCHANGED <<theRequest, work, quote, execution, httpVars>>

unregister(k) ==
  /\ LookedUp
  /\ \E n \in DOMAIN registered :
       registered[n] = k /\ registered' = RemoveAt(registered, n)
  /\ UNCHANGED <<theRequest, work, quote, execution, httpVars>>

MainChains == {"ethereum", "polygon", "arbitrum", "optimism", "base", "bsc", "avalanche"}
LifiChains == MainChains \cup {"gnosis", "fantom", "moonbeam"}
SocketChains ==
  LifiChains \cup {"zksync", "linea", "scroll", "mantle", "mode", "blast", "manta"}

\* CHAIN_NAME_TO_ID without the test networks.
getSupportedChains(k) ==
  CASE k = "lifi" -> LifiChains [] k = "socket" -> SocketChains [] OTHER -> MainChains

getSupportedProviders(from, to) ==
  {k \in ToSet(registered) : {from, to} \subseteq getSupportedChains(k)}

\* TOKEN_ADDRESSES: a chain may be supported and have none.
LifiTokens(chain) ==
  CASE chain = "ethereum" -> {"ETH", "USDC", "USDT", "DAI", "WBTC"}
    [] chain = "polygon" -> {"USDC", "USDT", "DAI", "WMATIC"}
    [] chain \in {"arbitrum", "optimism"} -> {"ETH", "USDC", "USDT", "DAI"}
    [] chain = "base" -> {"ETH", "USDC", "DAI"}
    [] OTHER -> {}

SocketTokens(chain) == LifiTokens(chain)    \* a copy of the same table

LifiResolves(p) ==
  /\ p.source_asset \in LifiTokens(p.source_chain)
  /\ p.target_asset \in LifiTokens(p.target_chain)

SocketResolves(p) ==
  /\ p.source_asset \in SocketTokens(p.source_chain)
  /\ p.target_asset \in SocketTokens(p.target_chain)

\* resolveChainId and resolveTokenAddress, for both ends.
Resolves(k, p) == IF k = "lifi" THEN LifiResolves(p) ELSE SocketResolves(p)

-----------------------------------------------------------------------------
(* Quotes. *)

Clamp(score) == Max({0, Min({100, score})})

\* For a duration in seconds; an unknown one compares as false with everything.
durationBonus(r) ==
  CASE r.duration = None -> 0
    [] r.duration < 60 -> 10
    [] r.duration < 300 -> 5
    [] r.duration > 600 -> -10
    [] OTHER -> 0

stepsBonus(r) == CASE r.steps = 1 -> 5 [] r.steps > 3 -> -5 [] OTHER -> 0

lifiReliability(r) == Clamp(75 + durationBonus(r) + stepsBonus(r))
socketReliability(r) == Clamp(73 + durationBonus(r) + stepsBonus(r))

\* dear is an average slippage above 5 % ...
lifiSecurity(r) == Clamp(70 + Min({5 * r.known, 15}) - (IF r.dear THEN 10 ELSE 0))
\* ... or, for Socket, a fee above 5 % of the output.
socketSecurity(r) == Clamp(72 + Min({4 * r.known, 12}) - (IF r.dear THEN 8 ELSE 0))

estimated_time(r) == 10 * (IF r.duration = None THEN 30 ELSE r.duration)

\* A gas cost that is no number makes the fee NaN.
normalizeLifi(r) ==
  [fee |-> r.fee, time |-> estimated_time(r),
   security |-> lifiSecurity(r), reliability |-> lifiReliability(r)]

\* A fee that is no number counts as 0.
normalizeSocket(r) ==
  [fee |-> IF r.fee = NaN THEN 0 ELSE r.fee, time |-> estimated_time(r),
   security |-> socketSecurity(r), reliability |-> socketReliability(r)]

normalizeQuote(k, r) == IF k = "lifi" THEN normalizeLifi(r) ELSE normalizeSocket(r)

\* The mocks double the fee, or nearly, for a route between chains.
MockLifiQuote(cross) ==
  [fee |-> IF cross THEN 100 ELSE 50, time |-> IF cross THEN 450 ELSE 300,
   security |-> 85, reliability |-> 90]
MockSocketQuote(cross) ==
  [fee |-> IF cross THEN 54 ELSE 30, time |-> IF cross THEN 325 ELSE 250,
   security |-> 80, reliability |-> 85]

\* The providers are called in one go; which of the calls is made first is of no matter.
requestRoutes(p) ==
  /\ asked = None /\ chosen = None
  /\ asked' = p
  /\ todo' = getSupportedProviders(p.source_chain, p.target_chain)
  /\ UNCHANGED <<registered, work, quote, execution, httpVars>>

Quoted(k, q) == quote' = [quote EXCEPT ![k] = q]

Asking(k) == k \in todo /\ todo' = todo \ {k} /\ UNCHANGED asked

\* Throws before anything is sent if an asset is not configured.
fetchRawQuote(c, k) ==
  /\ k \in Real /\ Asking(k)
  /\ work[c] = NoWork
  /\ IF Resolves(k, asked)
     THEN /\ request(c, "yes")
          /\ work' = [work EXCEPT ![c] = [NoWork EXCEPT !.op = "quote", !.by = k]]
     ELSE UNCHANGED <<work, httpVars>>
  /\ UNCHANGED <<registered, quote, execution>>

\* failureRate decides whether a mock throws.
MockQuote(k) ==
  /\ k \notin Real /\ Asking(k)
  /\ LET cross == asked.source_chain # asked.target_chain
     IN \/ UNCHANGED quote
        \/ Quoted(k, IF k = "mock lifi" THEN MockLifiQuote(cross) ELSE MockSocketQuote(cross))
  /\ UNCHANGED <<registered, work, execution, httpVars>>

RespondQuote(c) ==
  /\ work[c].op \in {"quote", "dropped"}
  /\ \E s \in Statuses : Respond(c, s)
  /\ UNCHANGED routeVars

Ended(c) == http[c] \in {"returned", "threw"}

\* Socket throws also when a good response has no route.
QuoteEnds(c) ==
  /\ work[c].op \in {"quote", "dropped"} /\ Ended(c)
  /\ IF work[c].op = "quote" /\ http[c] = "returned"
     THEN \E r \in Responses :
            Quoted(work[c].by, IF r.found THEN normalizeQuote(work[c].by, r) ELSE None)
     ELSE UNCHANGED quote
  /\ work' = [work EXCEPT ![c] = NoWork]
  /\ Release(c)
  /\ UNCHANGED <<registered, theRequest, execution>>

\* The engine's own timer: nobody waits for the quote any more.
DropQuote(c) ==
  /\ work[c].op = "quote"
  /\ work' = [work EXCEPT ![c].op = "dropped"]
  /\ UNCHANGED <<registered, theRequest, quote, execution, httpVars>>

-----------------------------------------------------------------------------
(* The scorer, with DEFAULT_PREFERENCES. *)

normalizeFeeScore(fee) == 36 * Max({0, 10000 - fee})
normalizeTimeScore(time) == 10 * Max({0, 36000 - time})
normalizeScore(s) == 3600 * Clamp(s)

total_score(q) ==
  3 * normalizeFeeScore(q.fee) + 2 * normalizeTimeScore(q.time)
  + 3 * normalizeScore(q.security) + 2 * normalizeScore(q.reliability)

\* Mutant: in ascending order.
Above_Ascending(q, r) == q.fee # NaN /\ r.fee # NaN /\ total_score(q) < total_score(r)

\* sort() moves q before r; a comparison with NaN moves nothing.
Above(q, r) == q.fee # NaN /\ r.fee # NaN /\ total_score(q) > total_score(r)

quotes == {k \in ToSet(registered) : quote[k] # None}

Before(j, k) ==
  \E m, n \in DOMAIN registered : m < n /\ registered[m] = j /\ registered[n] = k

\* The first of the sorted quotes.  Names are unique, so that there are two of them at most.
best ==
  CHOOSE k \in quotes :
    \A j \in quotes \ {k} :
      IF Before(k, j) THEN ~ Above(quote[j], quote[k]) ELSE Above(quote[k], quote[j])

AllAnswered == asked # None /\ todo = {} /\ \A c \in Adapters : work[c].op # "quote"

selectQuote ==
  /\ AllAnswered /\ chosen = None
  /\ quotes # {}
  /\ chosen' = best
  /\ UNCHANGED <<registered, theRequest, work, quote, status, bridge, httpVars>>

-----------------------------------------------------------------------------
(* Execution and status. *)

lifiStatus(w) ==
  CASE w \in {"completed", "done"} -> "COMPLETED"
    [] w = "failed" -> "FAILED"
    [] w \in {"executing", "in_progress"} -> "EXECUTING"
    [] w = "refunded" -> "REFUNDED"
    [] OTHER -> "PENDING"

\* Mutant: a word it does not know is good news.
socketStatus_Optimistic(w) ==
  CASE w \in {"pending", "waiting", "indexing"} -> "PENDING"
    [] w = "failed" -> "FAILED"
    [] w = "refunded" -> "REFUNDED"
    [] OTHER -> "COMPLETED"

socketStatus(w) ==
  CASE w \in {"completed", "confirmed", "success"} -> "COMPLETED"
    [] w \in {"failed", "reverted"} -> "FAILED"
    [] w \in {"executing", "in_progress", "src-pending", "src-defined"} -> "EXECUTING"
    [] w = "refunded" -> "REFUNDED"
    [] OTHER -> "PENDING"

\* The real adapters only describe the execution, which is PENDING ...
executeLifi == lifiStatus("pending")
executeSocket == socketStatus("pending")
\* ... and the mocks say that it is COMPLETED.
executeMock == "COMPLETED"

executeRaw(k) ==
  CASE k = "lifi" -> executeLifi [] k = "socket" -> executeSocket [] OTHER -> executeMock

\* ProviderUnavailableError if the provider was unregistered in the meantime.
executeChosen ==
  /\ chosen # None /\ status = None
  /\ chosen \in ToSet(registered)
  /\ status' = executeRaw(chosen)
  /\ quote' = [k \in Kinds |-> None]    \* the caller holds the chosen one
  /\ UNCHANGED <<registered, theRequest, work, chosen, bridge, httpVars>>

\* The caller signs and sends it, and the bridge does the rest.
BridgeStep ==
  /\ chosen \in Real /\ status # None
  /\ bridge' \in CASE bridge = "unsent" -> {"source"}
                   [] bridge = "source" -> {"crossing", "failed"}
                   [] bridge = "crossing" -> {"arrived", "failed", "refunded"}
                   [] OTHER -> {}
  /\ work' = [c \in Adapters |-> IF work[c].op = "status"
                              THEN [work[c] EXCEPT !.seen = @ \cup {bridge'}] ELSE work[c]]
  /\ UNCHANGED <<registered, theRequest, quote, chosen, status, httpVars>>

fetchStatus(c) ==
  /\ chosen \in Real /\ status # None
  /\ chosen \in ToSet(registered)
  /\ work[c] = NoWork
  /\ request(c, "yes")
  /\ work' = [work EXCEPT ![c] = [NoWork EXCEPT !.op = "status", !.by = chosen, !.seen = {bridge}]]
  /\ UNCHANGED <<registered, theRequest, quote, execution>>

\* An execution the aggregator has not heard of is a 404.
RespondStatus(c) ==
  /\ work[c].op = "status"
  /\ \E s \in {IF bridge = "unsent" THEN "missing" ELSE "ok", "refused", "busy", "failure"} :
       Respond(c, s)
  /\ work' = [work EXCEPT ![c].said = bridge]
  /\ UNCHANGED <<registered, theRequest, quote, execution>>

\* What LI.FI says of the transfer, ...
LifiWords(b) ==
  CASE b = "source" -> {"pending", "not_found"}
    [] b = "crossing" -> {"pending", "in_progress"}
    [] b = "arrived" -> {"done"}
    [] OTHER -> {b}

\* ... and Socket of its two transactions; there may be no word of the second one yet.
SocketAnswer(source, destination) == [source |-> source, destination |-> destination]
SocketAnswers(b) ==
  CASE b = "source" -> {SocketAnswer("src-pending", None), SocketAnswer("pending", None)}
    [] b = "crossing" -> {SocketAnswer("completed", None), SocketAnswer("completed", "indexing")}
    [] b = "arrived" -> {SocketAnswer("completed", "completed"), SocketAnswer("completed", "success")}
    [] b = "failed" -> {SocketAnswer("failed", None), SocketAnswer("completed", "failed")}
    [] OTHER -> {SocketAnswer("completed", b)}

Told(result, of) == [result |-> result, of |-> of]

\* destinationTxStatus ?? sourceTxStatus
socketTold(a) ==
  IF a.destination # None THEN Told(socketStatus(a.destination), "route")
                          ELSE Told(socketStatus(a.source), "source")

\* A 404 whose body could be read is PENDING; any other error is thrown.
told(c) ==
  CASE http[c] = "returned" /\ work[c].by = "lifi" ->
         {Told(lifiStatus(w), "route") : w \in LifiWords(work[c].said)}
    [] http[c] = "returned" /\ work[c].by # "lifi" ->
         {socketTold(a) : a \in SocketAnswers(work[c].said)}
    [] http[c] = "threw" /\ response[c] = [status |-> "missing", how |-> "read"] ->
         {Told("PENDING", "route")}
    [] OTHER -> {Told("threw", "route")}

StatusEnds(c) ==
  /\ work[c].op = "status" /\ Ended(c)
  /\ \E t \in told(c) :
       work' = [work EXCEPT ![c].op = "reported", ![c].result = t.result, ![c].of = t.of]
  /\ Release(c)
  /\ UNCHANGED <<registered, theRequest, quote, execution>>

Seen(c) ==
  /\ work[c].op = "reported"
  /\ work' = [work EXCEPT ![c] = NoWork]
  /\ UNCHANGED <<registered, theRequest, quote, execution, httpVars>>

\* NoValidQuotesError, or the caller is done with the route, or executeRoute threw.
FinishRequest ==
  /\ AllAnswered /\ (quotes = {} \/ chosen # None)
  /\ \A c \in Adapters : work[c].op \notin {"status", "reported"}
  /\ asked' = None /\ chosen' = None /\ status' = None /\ bridge' = "unsent"
  /\ quote' = [k \in Kinds |-> None]
  /\ UNCHANGED <<registered, todo, work, httpVars>>

-----------------------------------------------------------------------------
AdapterStep(c) ==
  \/ \E k \in Kinds : fetchRawQuote(c, k)
  \/ RespondQuote(c) \/ QuoteEnds(c) \/ DropQuote(c)
  \/ fetchStatus(c) \/ RespondStatus(c) \/ StatusEnds(c) \/ Seen(c)

RouteNext ==
  \/ \E c \in Adapters : AdapterStep(c) \/ (HttpStep(c) /\ UNCHANGED routeVars)
  \/ \E k \in Kinds : register(k) \/ unregister(k) \/ MockQuote(k)
  \/ \E p \in Params : requestRoutes(p)
  \/ selectQuote \/ executeChosen \/ BridgeStep \/ FinishRequest

RouteSpec == HttpInit /\ RouteInit /\ [][RouteNext]_<<httpVars, routeVars>>

-----------------------------------------------------------------------------
(* Properties. *)

\* selectBest: no other quote it had is cheaper, faster, safer and more reliable at once,
\* unless a fee that is no number kept them from being compared.
ChosenIsNotDominated ==
  chosen # None =>
    \A k \in {j \in Kinds : quote[j] # None} \ {chosen} :
      LET q == quote[k]  r == quote[chosen]
      IN q.fee # NaN /\ r.fee # NaN =>
           ~ (/\ q.fee < r.fee /\ q.time < r.time
              /\ q.security > r.security /\ q.reliability > r.reliability)

\* What a status may say of an execution ...
Meanings(b) ==
  CASE b = "arrived" -> {"COMPLETED"}
    [] b = "failed" -> {"FAILED"}
    [] b = "refunded" -> {"REFUNDED"}
    [] OTHER -> {"PENDING", "EXECUTING"}

\* ... and of its source transaction, which is over once the bridge is crossing.
SourceMeanings(b) ==
  CASE b \in {"unsent", "source"} -> {"PENDING", "EXECUTING"}
    [] b = "failed" -> {"FAILED", "COMPLETED"}
    [] OTHER -> {"COMPLETED"}

\* Slow answers, errors and a bridge that moves on notwithstanding: a status that fetchStatus
\* returns was true at some time since it was asked, of the execution or, where Socket has no
\* status of the destination, of the source transaction.
StatusIsFresh ==
  \A c \in Adapters :
    work[c].op = "reported" /\ work[c].result # "threw" =>
      \E b \in work[c].seen :
        work[c].result \in IF work[c].of = "source" THEN SourceMeanings(b) ELSE Meanings(b)

\* "Get execution status from the provider." (getStatus, getExecutionStatus): an execution that
\* is reported as COMPLETED has arrived.
CompletedHasArrived ==
  \A c \in Adapters :
    work[c].op = "reported" /\ work[c].result = "COMPLETED" => "arrived" \in work[c].seen
=============================================================================
